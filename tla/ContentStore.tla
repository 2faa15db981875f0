---------------------------- MODULE ContentStore ----------------------------
(***************************************************************************)
(* What the artifact cache promises a caller who has it to himself: a      *)
(* table that binds a locator to the first content fetched for it, for     *)
(* good, and a set of contents that a caller may ask for by digest.  No    *)
(* files, no truncations, no reads that may see half of a write.           *)
(***************************************************************************)
CONSTANTS Clients, Locators, Sources, Contents, Policies, Resolve, Unbound,
          NameOf,   \* NameOf[p]: the contents policy p names by digest, {} or one
          Verdict   \* Verdict[p][b]: "ok", or why policy p refuses b

VARIABLES bound,    \* bound[l]: the content l stands for, or Unbound
          stored,   \* contents available by digest
          offered,  \* offered[s]: what source s has now, or Unbound
          at, ask,  \* each client's progress and request
          taken,    \* the content a client's request was settled with
          answer    \* each client's last answer

vars == <<bound, stored, offered, at, ask, taken, answer>>

Answered(status, b) == [status |-> status, bytes |-> b]

Init ==
    /\ bound = [l \in Locators |-> Unbound]
    /\ stored = {}
    /\ offered \in [Sources -> Contents \cup {Unbound}]
    /\ at = [c \in Clients |-> "idle"]
    /\ ask \in [Clients -> [locator : Locators, policy : Policies]]
    /\ taken = [c \in Clients |-> Unbound]
    /\ answer = [c \in Clients |-> Answered("none", Unbound)]

Ask(c, l, p) ==
    /\ at[c] = "idle"
    /\ at' = [at EXCEPT ![c] = "asked"]
    /\ ask' = [ask EXCEPT ![c] = [locator |-> l, policy |-> p]]
    /\ answer' = [answer EXCEPT ![c] = Answered("none", Unbound)]
    /\ UNCHANGED <<bound, stored, offered, taken>>

Reply(c, status, b) ==
    /\ at' = [at EXCEPT ![c] = "idle"]
    /\ taken' = [taken EXCEPT ![c] = Unbound]
    /\ answer' = [answer EXCEPT ![c] = Answered(status, b)]

(* The content a request by locator is about.                              *)
Candidate(c) ==
    LET l == ask[c].locator IN
    IF bound[l] # Unbound THEN bound[l] ELSE offered[Resolve[c][l]]

(* A digest that is stored is served without a look at the locator.        *)
Serve(c) ==
    /\ at[c] = "asked"
    /\ \E b \in NameOf[ask[c].policy] \cap stored :
         LET verdict == Verdict[ask[c].policy][b] IN
         Reply(c, verdict, IF verdict = "ok" THEN b ELSE Unbound)
    /\ UNCHANGED <<bound, stored, offered, ask>>

ByLocator(c) == at[c] = "asked" /\ NameOf[ask[c].policy] \cap stored = {}

Bind(c) ==
    LET b == Candidate(c) IN
    /\ ByLocator(c)
    /\ b # Unbound
    /\ Verdict[ask[c].policy][b] = "ok"
    /\ bound' = [bound EXCEPT ![ask[c].locator] = b]
    /\ stored' = stored \cup {b}
    /\ at' = [at EXCEPT ![c] = "bound"]
    /\ taken' = [taken EXCEPT ![c] = b]
    /\ UNCHANGED <<offered, ask, answer>>

Refuse(c) ==
    LET b == Candidate(c) IN
    /\ ByLocator(c)
    /\ IF b = Unbound
       THEN Reply(c, "io", Unbound)
       ELSE /\ Verdict[ask[c].policy][b] # "ok"
            /\ Reply(c, Verdict[ask[c].policy][b], Unbound)
    /\ UNCHANGED <<bound, stored, offered, ask>>

Deliver(c) ==
    /\ at[c] = "bound"
    /\ Reply(c, "ok", taken[c])
    /\ UNCHANGED <<bound, stored, offered, ask>>

Change(s, b) ==
    /\ offered' = [offered EXCEPT ![s] = b]
    /\ UNCHANGED <<bound, stored, at, ask, taken, answer>>

Next ==
    \/ \E c \in Clients :
         \/ \E l \in Locators, p \in Policies : Ask(c, l, p)
         \/ Serve(c) \/ Bind(c) \/ Refuse(c) \/ Deliver(c)
    \/ \E s \in Sources, b \in Contents \cup {Unbound} : Change(s, b)

Spec == Init /\ [][Next]_vars
=============================================================================
