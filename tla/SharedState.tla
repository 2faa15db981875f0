---------------------------- MODULE SharedState ----------------------------
(***************************************************************************)
(* What the runtime's host imports promise the guests that share a state   *)
(* store: every call takes effect at one instant between the call and its  *)
(* return, and a call without the right to it has none.                    *)
(***************************************************************************)
CONSTANTS Threads, Keys, Values, Absent,
          Stored,   \* Stored[v]: the bytes kept for v
          Text,     \* the stored bytes that are UTF-8
          Nothing   \* no request, no answer

VARIABLES table,    \* table[k]: the bytes under k, or Absent
          asked,    \* asked[t]: the request thread t waits for
          answer    \* answer[t]: how it was settled

vars == <<table, asked, answer>>

Reads == {"read", "kvGet"}
Writes == {"write", "writeIfAbsent", "kvPut"}
RightFor(op) ==
    IF op \in Reads THEN "read" ELSE IF op \in Writes THEN "write" ELSE "delete"
Requests == [op : Reads \cup Writes \cup {"delete"}, key : Keys, value : Values \cup {Nothing},
             rights : SUBSET {"read", "write", "delete"}]

Init ==
    /\ table = [k \in Keys |-> Absent]
    /\ asked = [t \in Threads |-> Nothing]
    /\ answer = [t \in Threads |-> Nothing]

Ask(t) ==
    /\ asked[t] = Nothing
    /\ asked'[t] \in Requests
    /\ asked' = [asked EXCEPT ![t] = asked'[t]]
    /\ UNCHANGED <<table, answer>>

(* What is under the key after a call that may be made, given what was.    *)
After(r, old) ==
    IF r.op = "delete" THEN Absent
    ELSE IF r.op \in {"write", "kvPut"} \/ (r.op = "writeIfAbsent" /\ old = Absent)
    THEN Stored[r.value] ELSE old

(* The legacy calls hide a denial: a get finds nothing, a put succeeds.    *)
Denial(op) ==
    IF op = "kvGet" THEN "none" ELSE IF op = "kvPut" THEN "done" ELSE "denied"
Reply(r, old) ==
    CASE r.op = "read"          -> IF old = Absent THEN "miss" ELSE old
      [] r.op = "kvGet"         -> IF old = Absent THEN "none"
                                   ELSE IF old \in Text THEN old ELSE "trap"
      [] r.op = "writeIfAbsent" -> IF old = Absent THEN "created" ELSE "existed"
      [] OTHER                  -> "done"

Settle(t) ==
    LET r == asked[t] IN
    /\ r # Nothing
    /\ answer[t] = Nothing
    /\ IF RightFor(r.op) \in r.rights
       THEN /\ table' = [table EXCEPT ![r.key] = After(r, @)]
            /\ answer' = [answer EXCEPT ![t] = Reply(r, table[r.key])]
       ELSE /\ answer' = [answer EXCEPT ![t] = Denial(r.op)]
            /\ UNCHANGED table
    /\ UNCHANGED asked

Return(t) ==
    /\ answer[t] # Nothing
    /\ asked' = [asked EXCEPT ![t] = Nothing]
    /\ answer' = [answer EXCEPT ![t] = Nothing]
    /\ UNCHANGED table

Next == \E t \in Threads : Ask(t) \/ Settle(t) \/ Return(t)

Spec == Init /\ [][Next]_vars
=============================================================================
