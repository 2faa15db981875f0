---------------------------- MODULE WizardDialog ----------------------------
(***************************************************************************)
(* `greentic-component wizard` at a terminal: the main menu, the questions *)
(* of a mode with the ways back (0) and out (m), the question whether a    *)
(* directory that is in use may be overwritten, and what is then made of   *)
(* the answers.  Other programs use the same directories meanwhile.        *)
(*                                                                         *)
(* Questions whose answers nothing else depends on are represented by one  *)
(* of their kind.  What a plan does inside a project is in Wizard.         *)
(***************************************************************************)
EXTENDS Naturals, Sequences, Functions

CONSTANTS
    Dirs,       \* paths a user may name as output directory
    MaxChanges  \* bound: changes other programs make

ASSUME MaxChangesAssumption == MaxChanges \in Nat

VARIABLES
    disk,       \* disk[d] \in {"absent", "empty", "full", "file"}
    execution,  \* --execution
    place,      \* "menu", "ask", "overwrite", "gate", "parse", "run", "exit"
    mode,       \* args.mode
    pass,       \* which list of questions is asked
    index,      \* the question of it that is asked
    answered,   \* the answers so far: a function on question ids
    typed,      \* the directory the overwrite question is about
    agreed,     \* history: directories the user agreed to overwrite, in this dialog
    changes

dialog == <<pass, index, answered, typed, agreed>>
vars == <<disk, execution, place, mode, dialog, changes>>

Modes == {"create", "add_operation", "update_operation", "build_test", "doctor"}

(* create_questions, interactive_questions.                                *)
Minimal == <<"component_name", "output_dir", "advanced_setup">>
Advanced == <<"component_name", "output_dir", "advanced_setup", "operation_names",
              "filesystem_mode", "filesystem_mounts", "state_write",
              "secrets_enabled", "secret_keys", "config_fields">>
Single == [m \in Modes \ {"create"} |->
  CASE m = "add_operation" -> <<"project_root", "operation_name", "set_default">>
    [] m = "update_operation" ->
         <<"project_root", "operation_name", "new_operation_name", "set_default">>
    [] m = "build_test" -> <<"project_root", "full_tests">>
    [] OTHER -> <<"project_root">>]
Questions ==
  CASE pass = "minimal" -> Minimal [] pass = "advanced" -> Advanced [] OTHER -> Single[mode]

(* What the prompts let through: a required answer has a value, a name is  *)
(* well-formed, a choice is one of those offered; other text is checked    *)
(* when the plan is made.                                                  *)
Accepted(q) ==
  CASE q = "output_dir" -> Dirs
    [] q \in {"advanced_setup", "secrets_enabled"} -> {"yes", "no"}
    [] q = "filesystem_mode" -> {"none", "sandbox"}
    [] q \in {"operation_names", "config_fields"} -> {"good", "bad"}
    [] q = "new_operation_name" -> {"good", "null"}
    [] OTHER -> {"good"}

Said(q, v) == q \in DOMAIN answered /\ answered[q] = v

(* Mutant: secrets are asked for also when they are not enabled.           *)
SkipMountsOnly(q, a) ==
  /\ pass = "advanced"
  /\ q \in DOMAIN a \/ (q = "filesystem_mounts" /\ a["filesystem_mode"] = "none")

(* should_skip_create_advanced_question.                                   *)
Skip(q, a) ==
  /\ pass = "advanced"
  /\ \/ q \in DOMAIN a
     \/ q = "filesystem_mounts" /\ a["filesystem_mode"] = "none"
     \/ q = "secret_keys" /\ a["secrets_enabled"] = "no"

(* The questions are passed over while they are to be skipped.             *)
Asked(i) == i <= Len(Questions) /\ ~Skip(Questions[i], answered)
Current == Questions[index]

(* previous_interactive_question_index, 0 if there is none.                *)
Previous ==
  LET before == {i \in 1 .. index - 1 : ~Skip(Questions[i], answered)}
  IN IF before = {} THEN 0 ELSE CHOOSE i \in before : \A j \in before : j <= i

TypeOK ==
  /\ disk \in [Dirs -> {"absent", "empty", "full", "file"}]
  /\ execution \in {"execute", "dry-run"}
  /\ place \in {"menu", "ask", "overwrite", "gate", "parse", "run", "exit"}
  /\ mode \in Modes /\ pass \in {"minimal", "advanced", "single"}
  /\ index \in 1 .. Len(Questions) + 1
  /\ \A q \in DOMAIN answered \ {"overwrite_output"} : answered[q] \in Accepted(q)
  /\ typed \in Dirs /\ agreed \subseteq Dirs /\ changes \in 0 .. MaxChanges

Init ==
  /\ disk \in [Dirs -> {"absent", "empty", "full", "file"}]
  /\ execution \in {"execute", "dry-run"}
  /\ place = "menu" /\ mode = "create" /\ pass = "minimal" /\ index = 1
  /\ answered = <<>> /\ typed \in Dirs /\ agreed = {} /\ changes = 0

Goto(p) == place' = p
---------------------------------------------------------------------------
(* prompt_main_menu_mode; every dialog starts without answers.             *)
Choose(m) ==
  /\ place = "menu" /\ Goto("ask")
  /\ mode' = m /\ pass' = (IF m = "create" THEN "minimal" ELSE "single")
  /\ index' = 1 /\ answered' = <<>> /\ agreed' = {}
  /\ UNCHANGED <<disk, execution, typed, changes>>

Leave == place = "menu" /\ Goto("exit") /\ UNCHANGED <<disk, execution, mode, dialog, changes>>

(* The input is closed: any prompt fails, and the program with it.         *)
InputClosed ==
  /\ place \in {"menu", "ask", "overwrite"} /\ Goto("exit")
  /\ UNCHANGED <<disk, execution, mode, dialog, changes>>

PassOver ==
  /\ place = "ask" /\ index <= Len(Questions) /\ ~Asked(index)
  /\ index' = index + 1
  /\ UNCHANGED <<disk, execution, place, mode, pass, answered, typed, agreed, changes>>

Record(ids, v) ==
  /\ answered' = [q \in DOMAIN answered \cup ids |-> IF q \in ids THEN v ELSE answered[q]]
  /\ index' = index + 1

InUse(d) == disk[d] \in {"full", "file"}

(* An answer is taken down, unless it names a directory that is in use.    *)
Answer ==
  /\ place = "ask" /\ Asked(index)
  /\ \E v \in Accepted(Current) :
       IF Current = "output_dir" /\ InUse(v)
       THEN Goto("overwrite") /\ typed' = v /\ UNCHANGED <<answered, index>>
       ELSE Record({Current}, v) /\ UNCHANGED <<place, typed>>
  /\ UNCHANGED <<disk, execution, mode, pass, agreed, changes>>

(* Mutant: the consent outlives the directory it was given for.            *)
BackKeepingConsent ==
  /\ place \in {"ask", "overwrite"} /\ Asked(index) /\ Goto("ask") /\ Previous # 0
  /\ answered' = Restrict(answered, DOMAIN answered \ {Questions[Previous]})
  /\ index' = Previous
  /\ UNCHANGED <<disk, execution, mode, pass, typed, agreed, changes>>

(* 0: the previous question that is not skipped is asked again and its     *)
(* answer forgotten, with the consent that belongs to it.  With none       *)
(* before it the same question is asked again.                             *)
Back ==
  /\ place \in {"ask", "overwrite"} /\ Asked(index) /\ Goto("ask")
  /\ IF Previous = 0
     THEN UNCHANGED <<answered, index>>
     ELSE LET q == Questions[Previous]
              undone == {q} \cup IF q = "output_dir" THEN {"overwrite_output"} ELSE {}
          IN answered' = Restrict(answered, DOMAIN answered \ undone) /\ index' = Previous
  /\ UNCHANGED <<disk, execution, mode, pass, typed, agreed, changes>>

(* m *)
MainMenu ==
  /\ place \in {"ask", "overwrite"} /\ Asked(index) /\ Goto("menu")
  /\ UNCHANGED <<disk, execution, mode, dialog, changes>>

Agree ==
  /\ place = "overwrite" /\ Goto("ask")
  /\ Record({"output_dir", "overwrite_output"}, typed)
  /\ agreed' = agreed \cup {typed}
  /\ UNCHANGED <<disk, execution, mode, pass, typed, changes>>

(* The directory is asked for again.                                       *)
Decline ==
  /\ place = "overwrite" /\ Goto("ask")
  /\ agreed' = agreed \ {typed}
  /\ UNCHANGED <<disk, execution, mode, pass, index, answered, typed, changes>>

(* The short list may lead on to the long one.  A list of operations that  *)
(* does not parse ends the program, any other bad answer only the dialog.  *)
Complete ==
  /\ place = "ask" /\ index = Len(Questions) + 1
  /\ IF pass = "minimal" /\ answered["advanced_setup"] = "yes"
     THEN pass' = "advanced" /\ index' = 1 /\ UNCHANGED place
     ELSE /\ Goto(IF Said("operation_names", "bad") THEN "exit" ELSE "gate")
          /\ UNCHANGED <<pass, index>>
  /\ UNCHANGED <<disk, execution, mode, answered, typed, agreed, changes>>

---------------------------------------------------------------------------
Consented == "overwrite_output" \in DOMAIN answered
Target == answered["output_dir"]

(* build_create_plan removes a directory to be overwritten, which fails    *)
(* for a file, and otherwise insists on one without entries.  A plan of    *)
(* another mode may turn out impossible.  After an error: the menu.        *)
Gate ==
  /\ place = "gate"
  /\ IF mode # "create"
     THEN place' \in {"run", "menu"} /\ UNCHANGED disk
     ELSE LET d == Target
              removes == Consented /\ execution = "execute" /\ disk[d] # "absent"
          IN \/ removes /\ disk[d] # "file" /\ disk' = [disk EXCEPT ![d] = "absent"] /\ Goto("parse")
             \/ removes /\ Goto("menu") /\ UNCHANGED disk
             \/ ~removes /\ UNCHANGED disk
                /\ Goto(IF Consented \/ ~InUse(d) THEN "parse" ELSE "menu")
  /\ UNCHANGED <<execution, mode, dialog, changes>>

(* The other answers are parsed when the directory is gone.                *)
Parse ==
  /\ place = "parse"
  /\ Goto(IF Said("config_fields", "bad") THEN "menu" ELSE "run")
  /\ UNCHANGED <<disk, execution, mode, dialog, changes>>

(* A dry run asks for a place for its plan; a plan that cannot be written  *)
(* or executed ends the program, otherwise the menu comes up again.  Files *)
(* others put into the directory since the gate are not looked for.        *)
Run ==
  /\ place = "run" /\ place' \in {"menu", "exit"}
  /\ IF mode = "create" /\ execution = "execute" /\ disk[Target] # "file"
     THEN \/ disk' = [disk EXCEPT ![Target] = "full"]
          \/ place' = "exit" /\ UNCHANGED disk
     ELSE /\ mode = "create" /\ execution = "execute" => place' = "exit"
          /\ UNCHANGED disk
  /\ UNCHANGED <<execution, mode, dialog, changes>>

(* Another program creates, fills, empties or removes a directory.         *)
OthersChange(d) ==
  /\ changes < MaxChanges /\ changes' = changes + 1
  /\ place # "exit"
  /\ \E x \in {"absent", "empty", "full", "file"} : disk' = [disk EXCEPT ![d] = x]
  /\ UNCHANGED <<execution, place, mode, dialog>>

Next ==
  \/ \E m \in Modes : Choose(m)
  \/ Leave \/ InputClosed \/ PassOver
  \/ Answer \/ Back \/ MainMenu \/ Agree \/ Decline \/ Complete \/ Gate \/ Parse \/ Run
  \/ \E d \in Dirs : OthersChange(d)

Spec == Init /\ [][Next]_vars
---------------------------------------------------------------------------
(* The wizard removes a directory that is in use only when it executes and *)
(* the user, in this dialog, agreed to lose exactly that directory and has *)
(* not taken it back, whichever way he went through the questions and      *)
(* whatever other programs did to the directories meanwhile.               *)
RemovalAgreed(d) ==
  (disk'[d] # disk[d] /\ changes' = changes /\ InUse(d)) =>
     /\ execution = "execute" /\ mode = "create"
     /\ answered["output_dir"] = d /\ d \in agreed
RemovalConsented == [][\A d \in Dirs : RemovalAgreed(d)]_vars

(* What a dialog hands on is what the user was asked last: every question  *)
(* of the list has an answer but those another answer makes pointless, no  *)
(* answer to such a one is left, and a consent comes with its directory.   *)
AnswersComplete ==
  place \in {"gate", "parse", "run"} =>
    LET pointless == (IF Said("filesystem_mode", "none") THEN {"filesystem_mounts"} ELSE {})
                     \cup (IF Said("secrets_enabled", "no") THEN {"secret_keys"} ELSE {})
    IN /\ DOMAIN answered \ {"overwrite_output"} = Range(Questions) \ pointless
       /\ Consented => Target \in agreed

(* The invariant of the dialog: types, each answer one its question takes, *)
(* and completeness.                                                       *)
DialogInv == TypeOK /\ AnswersComplete

---------------------------------------------------------------------------
(* The inductive invariant.  The answers are those to the questions passed *)
(* so far; the long list also passes over what the short one had asked,    *)
(* and over what another answer makes pointless.  A directory is in        *)
(* question only where the short list asks for it, so a consent given or   *)
(* taken back there never meets an older one.                              *)
Passed == {Questions[i] : i \in 1 .. index - 1}
AnswersFollow ==
  /\ pass # "advanced" => DOMAIN answered \ {"overwrite_output"} = Passed
  /\ pass = "advanced" =>
       /\ Range(Minimal) \subseteq DOMAIN answered
       /\ DOMAIN answered \subseteq Range(Minimal) \cup Passed \cup {"overwrite_output"}
       /\ \A q \in Passed : Skip(q, answered)
       /\ "filesystem_mounts" \in DOMAIN answered => answered["filesystem_mode"] # "none"
       /\ "secret_keys" \in DOMAIN answered => answered["secrets_enabled"] # "no"
ConsentHasDirectory ==
  Consented => "output_dir" \in DOMAIN answered /\ Target \in agreed
Places ==
  /\ pass = "single" <=> mode # "create"
  /\ place = "overwrite" => pass = "minimal" /\ index = 2
  /\ place \in {"gate", "parse", "run"} => index = Len(Questions) + 1
IInv == TypeOK /\ AnswersFollow /\ ConsentHasDirectory /\ Places
===========================================================================
