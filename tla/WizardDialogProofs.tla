------------------------- MODULE WizardDialogProofs -------------------------
(***************************************************************************)
(* Proofs about WizardDialog: the answers handed on are complete whichever *)
(* way the user went through the questions, and a directory in use is      *)
(* removed only with the consent given for it.  The facts about the answers*)
(* and the questions are stated with the variables as parameters, so that  *)
(* they hold of a state and of the one after it.                           *)
(***************************************************************************)
EXTENDS WizardDialog, TLAPS

List(p, m) ==
  CASE p = "minimal" -> Minimal [] p = "advanced" -> Advanced [] OTHER -> Single[m]
Before(p, m, i) == {List(p, m)[j] : j \in 1 .. i - 1}
Pointless(q, a) ==
  \/ q \in DOMAIN a
  \/ q = "filesystem_mounts" /\ a["filesystem_mode"] = "none"
  \/ q = "secret_keys" /\ a["secrets_enabled"] = "no"

(* The first part of IInv for the answers a at question i of the list.     *)
Follow(p, m, i, a) ==
  /\ p # "advanced" => DOMAIN a \ {"overwrite_output"} = Before(p, m, i)
  /\ p = "advanced" =>
       /\ Range(Minimal) \subseteq DOMAIN a
       /\ DOMAIN a \subseteq Range(Minimal) \cup Before(p, m, i) \cup {"overwrite_output"}
       /\ \A q \in Before(p, m, i) : Pointless(q, a)
       /\ "filesystem_mounts" \in DOMAIN a => a["filesystem_mode"] # "none"
       /\ "secret_keys" \in DOMAIN a => a["secrets_enabled"] # "no"
Fits(a) == \A q \in DOMAIN a \ {"overwrite_output"} : a[q] \in Accepted(q)
Mode(p, m) == m \in Modes /\ p \in {"minimal", "advanced", "single"} /\ (p = "single" <=> m # "create")

(* What a question list is: distinct questions, of which the one about the *)
(* directory is the second of the short list and in no list of a mode.     *)
LEMMA MinimalList ==
  /\ Len(Minimal) = 3 /\ DOMAIN Minimal = 1 .. 3
  /\ Minimal[1] = "component_name" /\ Minimal[2] = "output_dir"
  /\ Minimal[3] = "advanced_setup"
  /\ Range(Minimal) = {"component_name", "output_dir", "advanced_setup"}
<1>1. /\ Len(Minimal) = 3 /\ DOMAIN Minimal = 1 .. 3
      /\ Minimal[1] = "component_name" /\ Minimal[2] = "output_dir"
      /\ Minimal[3] = "advanced_setup"
  BY DEF Minimal
<1>2. 1 .. 3 = {1, 2, 3}
  OBVIOUS
<1>3. Range(Minimal) = {Minimal[i] : i \in {1, 2, 3}}
  BY <1>1, <1>2 DEF Range
<1>4. QED
  BY <1>1, <1>3

(* The long list starts like the short one.                                *)
LEMMA AdvancedList ==
  /\ Len(Advanced) = 10 /\ DOMAIN Advanced = 1 .. 10
  /\ Advanced[1] = "component_name" /\ Advanced[2] = "output_dir"
  /\ Advanced[3] = "advanced_setup" /\ Advanced[4] = "operation_names"
  /\ Advanced[5] = "filesystem_mode" /\ Advanced[6] = "filesystem_mounts"
  /\ Advanced[7] = "state_write" /\ Advanced[8] = "secrets_enabled"
  /\ Advanced[9] = "secret_keys" /\ Advanced[10] = "config_fields"
  BY DEF Advanced

(* The list of another mode starts with the project.                       *)
LEMMA SingleList ==
  ASSUME NEW m \in Modes \ {"create"}
  PROVE  /\ Len(Single[m]) \in 1 .. 4 /\ DOMAIN Single[m] = 1 .. Len(Single[m])
         /\ Single[m][1] = "project_root"
         /\ m = "add_operation" => /\ Len(Single[m]) = 3
                                   /\ Single[m][2] = "operation_name"
                                   /\ Single[m][3] = "set_default"
         /\ m = "update_operation" => /\ Len(Single[m]) = 4
                                      /\ Single[m][2] = "operation_name"
                                      /\ Single[m][3] = "new_operation_name"
                                      /\ Single[m][4] = "set_default"
         /\ m = "build_test" => /\ Len(Single[m]) = 2
                                /\ Single[m][2] = "full_tests"
         /\ m = "doctor" => Len(Single[m]) = 1
<1>1. CASE m = "add_operation"
  BY <1>1 DEF Single
<1>2. CASE m = "update_operation"
  BY <1>2 DEF Single
<1>3. CASE m = "build_test"
  BY <1>3 DEF Single
<1>4. CASE m = "doctor"
  BY <1>4 DEF Single
<1>5. QED
  BY <1>1, <1>2, <1>3, <1>4 DEF Modes

(* What all lists have in common.                                          *)
LEMMA Lists ==
  ASSUME NEW p, NEW m, Mode(p, m)
  PROVE  /\ Len(List(p, m)) \in 1 .. 10
         /\ DOMAIN List(p, m) = 1 .. Len(List(p, m))
         /\ \A i, j \in 1 .. Len(List(p, m)) : i # j => List(p, m)[i] # List(p, m)[j]
         /\ \A i \in 1 .. Len(List(p, m)) :
              /\ List(p, m)[i] # "overwrite_output"
              /\ List(p, m)[i] = "output_dir" => p # "single" /\ i = 2
              /\ p # "advanced" => List(p, m)[i] \notin
                     {"filesystem_mode", "filesystem_mounts", "secrets_enabled",
                      "secret_keys", "operation_names"}
<1>1. CASE p = "minimal"
  <2>1. List(p, m) = Minimal
    BY <1>1 DEF List
  <2>2. QED
    BY <1>1, <2>1, MinimalList
<1>2. CASE p = "advanced"
  <2>1. List(p, m) = Advanced
    BY <1>2 DEF List
  <2>2. QED
    BY <1>2, <2>1, AdvancedList, SMTT(20)
<1>3. CASE p = "single"
  <2>1. List(p, m) = Single[m] /\ m \in Modes \ {"create"}
    BY <1>3 DEF List, Mode
  <2>2. QED
    BY <1>3, <2>1, SingleList, SMTT(20) DEF Modes
<1>4. QED
  BY <1>1, <1>2, <1>3 DEF Mode

(* The questions before the next are those before this one, and this one.  *)
LEMMA BeforeGrows ==
  ASSUME NEW p, NEW m, Mode(p, m), NEW i \in 1 .. Len(List(p, m))
  PROVE  /\ Before(p, m, i + 1) = Before(p, m, i) \cup {List(p, m)[i]}
         /\ List(p, m)[i] \notin Before(p, m, i)
         /\ "overwrite_output" \notin Before(p, m, i + 1)
<1>1. Len(List(p, m)) \in Nat /\ i \in Nat
  BY Lists
<1>2. 1 .. (i + 1) - 1 = (1 .. i - 1) \cup {i}
  BY <1>1
<1>3. \A j \in 1 .. i - 1 : j \in 1 .. Len(List(p, m)) /\ j # i
  BY <1>1
<1>4. Before(p, m, i + 1) = Before(p, m, i) \cup {List(p, m)[i]}
  BY <1>2 DEF Before
<1>5. List(p, m)[i] \notin Before(p, m, i)
  BY <1>3, Lists DEF Before
<1>6. \A j \in 1 .. i : List(p, m)[j] # "overwrite_output"
  BY <1>1, <1>3, Lists
<1>7. "overwrite_output" \notin Before(p, m, i + 1)
  BY <1>1, <1>2, <1>6 DEF Before
<1>8. QED
  BY <1>4, <1>5, <1>7

(* A question that an answer makes pointless comes after that answer.      *)
Depends == {<<"filesystem_mounts", "filesystem_mode">>, <<"secret_keys", "secrets_enabled">>}
LEMMA PointlessLast ==
  ASSUME NEW m, NEW i \in 1 .. 11, NEW d \in Depends
  PROVE  /\ d[1] \in Before("advanced", m, i) => d[2] \in Before("advanced", m, i)
         /\ i <= 10 /\ List("advanced", m)[i] = d[1] => d[2] \in Before("advanced", m, i)
         /\ i <= 10 /\ List("advanced", m)[i] = d[2] => d[1] \notin Before("advanced", m, i)
<1>1. List("advanced", m) = Advanced
  BY DEF List
<1>2. PICK k \in 1 .. 10, l \in 1 .. 10 :
        /\ l < k /\ Advanced[k] = d[1] /\ Advanced[l] = d[2]
        /\ \A j \in 1 .. 10 : (Advanced[j] = d[1] => j = k) /\ (Advanced[j] = d[2] => j = l)
  <2>1. CASE d = <<"filesystem_mounts", "filesystem_mode">>
    BY <2>1, AdvancedList
  <2>2. CASE d = <<"secret_keys", "secrets_enabled">>
    BY <2>2, AdvancedList
  <2>3. QED
    BY <2>1, <2>2 DEF Depends
<1>3. i \in Nat /\ k \in Nat /\ l \in Nat
  OBVIOUS
<1>4. d[1] \in Before("advanced", m, i) => k \in 1 .. i - 1
  <2> SUFFICES ASSUME NEW j \in 1 .. i - 1, Advanced[j] = d[1] PROVE k = j
    BY <1>1 DEF Before
  <2> QED
    BY <1>2
<1>5. k \in 1 .. i => d[2] \in Before("advanced", m, i)
  BY <1>1, <1>2, <1>3 DEF Before
<1>6. QED
  BY <1>1, <1>2, <1>3, <1>4, <1>5

Taken(a, ids, v) == [q \in DOMAIN a \cup ids |-> IF q \in ids THEN v ELSE a[q]]

(* An answer that is taken down follows the ones before it.                *)
LEMMA AnswerFollows ==
  ASSUME NEW p, NEW m, Mode(p, m), NEW i \in 1 .. Len(List(p, m)), NEW a, NEW v,
         NEW ids, ids = {List(p, m)[i]} \/ ids = {List(p, m)[i], "overwrite_output"},
         Follow(p, m, i, a), p = "advanced" => ~Pointless(List(p, m)[i], a)
  PROVE  Follow(p, m, i + 1, Taken(a, ids, v))
<1> DEFINE b == Taken(a, ids, v)
           q == List(p, m)[i]
<1>1. DOMAIN b = DOMAIN a \cup ids /\ \A x \in DOMAIN b : b[x] = IF x \in ids THEN v ELSE a[x]
  BY DEF Taken
<1>2. q # "overwrite_output" /\ q \in ids /\ ids \subseteq {q, "overwrite_output"}
  BY Lists
<1>3. Before(p, m, i + 1) = Before(p, m, i) \cup {q} /\ q \notin Before(p, m, i)
  BY BeforeGrows
<1> HIDE DEF b, q
<1>4. CASE p # "advanced"
  <2>1. DOMAIN a \ {"overwrite_output"} = Before(p, m, i)
    BY <1>4 DEF Follow
  <2>2. DOMAIN b \ {"overwrite_output"} = Before(p, m, i + 1)
    BY <2>1, <1>1, <1>2, <1>3
  <2>3. QED
    BY <2>2, <1>4 DEF Follow, b
<1>5. CASE p = "advanced"
  <2>1. q \notin DOMAIN a /\ ~Pointless(q, a)
    BY <1>5 DEF q, Pointless
  <2>2. i \in 1 .. 10 /\ p = "advanced"
    BY <1>5, AdvancedList DEF List
  <2>3. \A x : x # "overwrite_output" /\ x # q =>
          (x \in DOMAIN b <=> x \in DOMAIN a) /\ (x \in DOMAIN a => b[x] = a[x])
    BY <1>1, <1>2
  <2>4. \A x \in Before(p, m, i) : Pointless(x, a)
    BY <1>5 DEF Follow
  <2>5. \A d \in Depends :
          /\ d[1] \in Before(p, m, i) => d[2] \in Before(p, m, i)
          /\ q = d[1] => d[2] \in Before(p, m, i)
          /\ q = d[2] => d[1] \notin Before(p, m, i)
    BY <2>2, PointlessLast DEF q
  <2>6. \A x \in Before(p, m, i) : x # "overwrite_output" /\ x # q
    BY <1>3, BeforeGrows
  <2>7. ASSUME NEW d \in Depends, d[2] \in Before(p, m, i)
        PROVE  d[2] \in DOMAIN a /\ b[d[2]] = a[d[2]]
    <3>1. d[2] \in DOMAIN a
      BY <2>4, <2>7 DEF Depends, Pointless
    <3>2. QED
      BY <2>3, <2>6, <2>7, <3>1
  <2>8. \A x \in Before(p, m, i + 1) : Pointless(x, b)
    <3> SUFFICES ASSUME NEW x \in Before(p, m, i), x \notin DOMAIN b
                 PROVE  Pointless(x, b)
      BY <1>1, <1>2, <1>3 DEF Pointless
    <3>1. Pointless(x, a) /\ x \notin DOMAIN a
      BY <1>1, <2>4
    <3>2. CASE x = "filesystem_mounts" /\ a["filesystem_mode"] = "none"
      <4>1. b["filesystem_mode"] = a["filesystem_mode"]
        BY <2>5, <2>7, <3>2 DEF Depends
      <4>2. QED
        BY <3>2, <4>1 DEF Pointless
    <3>3. CASE x = "secret_keys" /\ a["secrets_enabled"] = "no"
      <4>1. b["secrets_enabled"] = a["secrets_enabled"]
        BY <2>5, <2>7, <3>3 DEF Depends
      <4>2. QED
        BY <3>3, <4>1 DEF Pointless
    <3>4. QED
      BY <3>1, <3>2, <3>3 DEF Pointless
  <2>9. ASSUME NEW d \in Depends, NEW w, d[1] \in DOMAIN b,
               d[1] \in DOMAIN a => a[d[2]] # w, q = d[1] => a[d[2]] # w
        PROVE  b[d[2]] # w
    <3>1. CASE d[1] \in DOMAIN a
      <4>1. d[1] \in Before(p, m, i)
        BY <3>1, <1>5, MinimalList DEF Follow, Depends
      <4>2. QED
        BY <2>5, <2>7, <2>9, <3>1, <4>1
    <3>2. CASE d[1] \notin DOMAIN a
      <4>1. q = d[1]
        BY <1>1, <1>2, <2>9, <3>2 DEF Depends
      <4>2. QED
        BY <2>5, <2>7, <2>9, <4>1
    <3>3. QED
      BY <3>1, <3>2
  <2>10. "filesystem_mounts" \in DOMAIN b => b["filesystem_mode"] # "none"
    <3>1. "filesystem_mounts" \in DOMAIN a => a["filesystem_mode"] # "none"
      BY <1>5 DEF Follow
    <3>2. q = "filesystem_mounts" => a["filesystem_mode"] # "none"
      BY <2>1 DEF Pointless
    <3>3. QED
      BY <2>9, <3>1, <3>2 DEF Depends
  <2>11. "secret_keys" \in DOMAIN b => b["secrets_enabled"] # "no"
    <3>1. "secret_keys" \in DOMAIN a => a["secrets_enabled"] # "no"
      BY <1>5 DEF Follow
    <3>2. q = "secret_keys" => a["secrets_enabled"] # "no"
      BY <2>1 DEF Pointless
    <3>3. QED
      BY <2>9, <3>1, <3>2 DEF Depends
  <2>12. /\ Range(Minimal) \subseteq DOMAIN a
         /\ DOMAIN a \subseteq Range(Minimal) \cup Before(p, m, i) \cup {"overwrite_output"}
    BY <1>5 DEF Follow
  <2>13. /\ Range(Minimal) \subseteq DOMAIN b
         /\ DOMAIN b \subseteq Range(Minimal) \cup Before(p, m, i + 1) \cup {"overwrite_output"}
    BY <1>1, <1>2, <1>3, <2>12
  <2>14. QED
    BY <1>5, <2>8, <2>10, <2>11, <2>13 DEF Follow, b
<1>6. QED
  BY <1>4, <1>5

(* A question that is passed over is one of those before the next.         *)
LEMMA PassingFollows ==
  ASSUME NEW m, Mode("advanced", m), NEW i \in 1 .. 10, NEW a,
         Follow("advanced", m, i, a), Pointless(List("advanced", m)[i], a)
  PROVE  Follow("advanced", m, i + 1, a)
<1>1. i \in 1 .. Len(List("advanced", m))
  BY AdvancedList DEF List
<1>2. Before("advanced", m, i + 1) = Before("advanced", m, i) \cup {List("advanced", m)[i]}
  BY <1>1, BeforeGrows
<1>3. QED
  BY <1>2 DEF Follow

(* An answer that is forgotten was the last one.                           *)
LEMMA BackFollows ==
  ASSUME NEW p, NEW m, Mode(p, m), p # "advanced", NEW i \in 1 .. Len(List(p, m)), NEW a,
         Follow(p, m, i + 1, a),
         NEW undone, undone = {List(p, m)[i]} \/ undone = {List(p, m)[i], "overwrite_output"}
  PROVE  Follow(p, m, i, Restrict(a, DOMAIN a \ undone))
<1>1. DOMAIN Restrict(a, DOMAIN a \ undone) = DOMAIN a \ undone
  BY DEF Restrict
<1>2. QED
  BY <1>1, BeforeGrows, Lists DEF Follow
---------------------------------------------------------------------------
(* IInv, said of the values of the variables.                              *)
Consent(a, ag) ==
  "overwrite_output" \in DOMAIN a => "output_dir" \in DOMAIN a /\ a["output_dir"] \in ag
Talk(pl, m, p, i, a, ag) ==
  /\ pl \in {"menu", "ask", "overwrite", "gate", "parse", "run", "exit"}
  /\ Mode(p, m) /\ i \in 1 .. Len(List(p, m)) + 1
  /\ Fits(a) /\ Follow(p, m, i, a) /\ Consent(a, ag) /\ ag \subseteq Dirs
  /\ pl = "overwrite" => p = "minimal" /\ i = 2
  /\ pl \in {"gate", "parse", "run"} => i = Len(List(p, m)) + 1
World(dk, ex, t, c) ==
  /\ dk \in [Dirs -> {"absent", "empty", "full", "file"}]
  /\ ex \in {"execute", "dry-run"} /\ t \in Dirs /\ c \in 0 .. MaxChanges

(* IInv is what is said.                                                   *)
LEMMA IInvNow ==
  IInv <=> Talk(place, mode, pass, index, answered, agreed) /\ World(disk, execution, typed, changes)
<1>1. Questions = List(pass, mode)
  BY DEF Questions, List
<1>2. Passed = Before(pass, mode, index)
  BY <1>1 DEF Passed, Before
<1>3. pass = "advanced" => \A q : Skip(q, answered) <=> Pointless(q, answered)
  BY DEF Skip, Pointless
<1>4. AnswersFollow <=> Follow(pass, mode, index, answered)
  BY <1>2, <1>3 DEF AnswersFollow, Follow
<1>5. ConsentHasDirectory <=> Consent(answered, agreed)
  BY DEF ConsentHasDirectory, Consent, Consented, Target
<1>6. QED
  BY <1>1, <1>4, <1>5 DEF IInv, TypeOK, Places, Talk, World, Fits, Mode

(* And so it is in the next state.                                         *)
LEMMA IInvThen ==
  IInv' <=> Talk(place', mode', pass', index', answered', agreed') /\ World(disk', execution', typed', changes')
<1>1. Questions' = List(pass', mode')
  BY DEF Questions, List
<1>2. Passed' = Before(pass', mode', index')
  BY <1>1 DEF Passed, Before
<1>3. AnswersFollow' <=> Follow(pass', mode', index', answered')
  BY <1>2 DEF AnswersFollow, Follow, Skip, Pointless
<1>5. ConsentHasDirectory' <=> Consent(answered', agreed')
  BY DEF ConsentHasDirectory, Consent, Consented, Target
<1>6. QED
  BY <1>1, <1>3, <1>5 DEF IInv, TypeOK, Places, Talk, World, Fits, Mode

(* A dialog starts without answers.                                        *)
LEMMA InitIInv == Init => IInv
<1> SUFFICES ASSUME Init PROVE IInv
  OBVIOUS
<1>1. DOMAIN answered = {}
  BY DEF Init
<1>2. Before("minimal", "create", 1) = {}
  BY DEF Before
<1>3. 1 \in 1 .. Len(List("minimal", "create")) + 1
  BY MinimalList DEF List
<1>4. Talk(place, mode, pass, index, answered, agreed)
  BY <1>1, <1>2, <1>3 DEF Init, Talk, Mode, Modes, Fits, Follow, Consent
<1>5. World(disk, execution, typed, changes)
  BY MaxChangesAssumption DEF Init, World
<1>6. QED
  BY <1>4, <1>5, IInvNow

---------------------------------------------------------------------------
(* What the steps do to it, one lemma for each kind of step.               *)
Here == Talk(place, mode, pass, index, answered, agreed)
There == Talk(place', mode', pass', index', answered', agreed')

(* A mode that is chosen starts over.                                      *)
LEMMA ChooseTalk == ASSUME Here, NEW m \in Modes, Choose(m) PROVE There
<1>1. DOMAIN answered' = {}
  BY DEF Choose
<1>2. Before(pass', mode', 1) = {} /\ Mode(pass', mode')
  BY DEF Before, Mode, Choose, Modes
<1>3. 1 \in 1 .. Len(List(pass', mode')) + 1
  BY <1>2, Lists
<1>4. pass' # "advanced"
  BY DEF Choose
<1>5. QED
  BY <1>1, <1>2, <1>3, <1>4 DEF Choose, Goto, There, Talk, Fits, Follow, Consent

(* A question that needs no answer is passed over.                         *)
LEMMA PassOverTalk == ASSUME Here, PassOver PROVE There
<1>1. Questions = List(pass, mode)
  BY DEF Questions, List
<1>2. index <= Len(Questions) /\ Skip(Questions[index], answered)
  BY DEF PassOver, Asked
<1>3. pass = "advanced" /\ Pointless(List(pass, mode)[index], answered)
  BY <1>1, <1>2 DEF Skip, Pointless
<1>4. index \in 1 .. 10 /\ Len(List(pass, mode)) = 10
  <2>1. Len(List(pass, mode)) = 10
    BY <1>3, AdvancedList DEF List
  <2>2. QED
    BY <1>1, <1>2, <2>1 DEF Here, Talk
<1>5. Follow(pass, mode, index + 1, answered)
  BY <1>3, <1>4, PassingFollows DEF Here, Talk
<1>6. QED
  BY <1>3, <1>4, <1>5 DEF Here, There, Talk, PassOver

(* Taking down an answer the prompt let through.                           *)
LEMMA RecordTalk ==
  ASSUME Here, Asked(index), NEW ids, NEW v \in Accepted(Questions[index]), Record(ids, v),
         ids = {Questions[index]} \/ ids = {Questions[index], "overwrite_output"},
         UNCHANGED <<mode, pass>>, place' = "ask", agreed' \in SUBSET Dirs,
         Consent(answered', agreed')
  PROVE  There
<1> DEFINE q == List(pass, mode)[index]
<1>1. Questions = List(pass, mode)
  BY DEF Questions, List
<1>2. index \in 1 .. Len(List(pass, mode)) /\ Mode(pass, mode)
  BY <1>1, Lists DEF Asked, Here, Talk
<1>3. answered' = Taken(answered, ids, v) /\ index' = index + 1
  BY DEF Record, Taken
<1>4. pass = "advanced" => ~Pointless(q, answered)
  BY <1>1 DEF Asked, Skip, Pointless
<1>5. Follow(pass, mode, index + 1, answered')
  BY <1>1, <1>2, <1>3, <1>4, AnswerFollows DEF Here, Talk
<1>6. Fits(answered')
  BY <1>1, <1>3 DEF Taken, Fits, Here, Talk
<1>7. index + 1 \in 1 .. Len(List(pass, mode)) + 1
  BY <1>2, Lists
<1>8. QED
  BY <1>2, <1>3, <1>5, <1>6, <1>7 DEF Here, There, Talk

(* An answer that may be taken down at once, or only with consent.         *)
LEMMA AnswerTalk == ASSUME Here, Answer PROVE There
<1>1. Questions = List(pass, mode) /\ Mode(pass, mode) /\ Current = Questions[index]
  BY DEF Questions, List, Here, Talk, Current
<1>2. index \in 1 .. Len(Questions) /\ Asked(index) /\ Questions[index] # "overwrite_output"
  BY <1>1, Lists DEF Answer, Asked, Here, Talk
<1>3. PICK v \in Accepted(Current) :
       IF Current = "output_dir" /\ InUse(v)
       THEN Goto("overwrite") /\ typed' = v /\ UNCHANGED <<answered, index>>
       ELSE Record({Current}, v) /\ UNCHANGED <<place, typed>>
  BY DEF Answer
<1>4. CASE Current = "output_dir" /\ InUse(v)
  <2>1. pass # "single" /\ index = 2
    BY <1>1, <1>2, <1>4, Lists
  <2>2. pass # "advanced"
    <3> SUFFICES ASSUME pass = "advanced" PROVE FALSE
      OBVIOUS
    <3>1. "output_dir" \in DOMAIN answered
      BY MinimalList DEF Here, Talk, Follow
    <3>2. QED
      BY <1>1, <1>2, <1>4, <3>1 DEF Asked, Skip
  <2>3. QED
    BY <1>3, <1>4, <2>1, <2>2 DEF Answer, Goto, Here, There, Talk, Mode
<1>5. CASE ~(Current = "output_dir" /\ InUse(v))
  <2>1. Record({Questions[index]}, v) /\ place' = "ask" /\ agreed' = agreed
    BY <1>1, <1>3, <1>5 DEF Answer
  <2>2. Consent(answered', agreed')
    <3> SUFFICES ASSUME "overwrite_output" \in DOMAIN answered'
                 PROVE  "output_dir" \in DOMAIN answered' /\ answered'["output_dir"] \in agreed
      BY <2>1 DEF Consent
    <3>1. "output_dir" \in DOMAIN answered /\ answered["output_dir"] \in agreed
      BY <1>2, <2>1 DEF Record, Here, Talk, Consent
    <3>2. Questions[index] # "output_dir"
      <4> SUFFICES ASSUME Questions[index] = "output_dir" PROVE FALSE
        OBVIOUS
      <4>1. CASE pass = "advanced"
        BY <1>2, <3>1, <4>1 DEF Asked, Skip
      <4>2. CASE pass # "advanced"
        BY <1>1, <1>2, <3>1, <4>2, BeforeGrows DEF Here, Talk, Follow
      <4>3. QED
        BY <4>1, <4>2
    <3>3. QED
      BY <2>1, <3>1, <3>2 DEF Record
  <2>3. QED
    BY <1>1, <1>2, <2>1, <2>2, RecordTalk DEF Answer, Here, Talk
<1>6. QED
  BY <1>4, <1>5

(* The consent comes with the directory as the answer.                     *)
LEMMA AgreeTalk == ASSUME Here, World(disk, execution, typed, changes), Agree PROVE There
<1>1. pass = "minimal" /\ index = 2
  BY DEF Here, Talk, Agree
<1>2. Questions = Minimal
  BY <1>1 DEF Questions
<1>3. Questions[index] = "output_dir" /\ Asked(index)
  BY <1>1, <1>2, MinimalList DEF Asked, Skip
<1>4. typed \in Accepted("output_dir")
  BY DEF World, Accepted
<1>5. Consent(answered', agreed')
  BY DEF Agree, Record, Consent
<1>6. QED
  BY <1>3, <1>4, <1>5, RecordTalk DEF Agree, Goto, World, Here, Talk

(* A consent that is refused was not given before.                         *)
LEMMA DeclineTalk == ASSUME Here, Decline PROVE There
<1>1. pass = "minimal" /\ index = 2
  BY DEF Here, Talk, Decline
<1>2. List(pass, mode) = Minimal
  BY <1>1 DEF List
<1>3. "output_dir" \notin DOMAIN answered
  <2>1. DOMAIN answered \ {"overwrite_output"} = Before(pass, mode, 2)
    BY <1>1 DEF Here, Talk, Follow
  <2>2. "output_dir" \notin Before(pass, mode, 2)
    BY <1>1, <1>2, MinimalList, BeforeGrows DEF Here, Talk
  <2>3. QED
    BY <2>1, <2>2
<1>4. QED
  BY <1>3 DEF Decline, Goto, Here, There, Talk, Consent

(* The way back forgets the last answer, or, in the long list, stays where *)
(* it is: all that is before has an answer or is pointless.                *)
LEMMA BackTalk == ASSUME Here, Back PROVE There
<1>1. Questions = List(pass, mode) /\ Mode(pass, mode)
  BY DEF Questions, List, Here, Talk
<1>2. /\ index \in 1 .. Len(Questions) /\ Len(Questions) \in Nat
      /\ Follow(pass, mode, index, answered)
  BY <1>1, Lists DEF Back, Asked, Here, Talk
<1>3. CASE Previous = 0
  BY <1>3 DEF Back, Goto, Here, There, Talk
<1>4. CASE Previous # 0
  <2> DEFINE before == {i \in 1 .. index - 1 : ~Skip(Questions[i], answered)}
             q == Questions[Previous]
             undone == {q} \cup IF q = "output_dir" THEN {"overwrite_output"} ELSE {}
  <2>1. before # {} /\ Previous = CHOOSE i \in before : \A j \in before : j <= i
    BY <1>4 DEF Previous
  <2>2. pass # "advanced"
    <3>1. PICK i \in 1 .. index - 1 : ~Skip(Questions[i], answered)
      BY <2>1
    <3>2. Questions[i] \in Before(pass, mode, index)
      BY <1>1 DEF Before
    <3>3. QED
      BY <1>2, <3>1, <3>2 DEF Follow, Skip, Pointless
  <2>3. before = 1 .. index - 1
    BY <2>2 DEF Skip
  <2>4. Previous = index - 1 /\ Previous \in 1 .. Len(Questions)
    <3>1. index - 1 \in before /\ \A j \in before : j <= index - 1
      BY <1>2, <2>1, <2>3
    <3>2. \A i \in before : (\A j \in before : j <= i) => i = index - 1
      BY <1>2, <2>3, <3>1
    <3>3. QED
      BY <1>2, <2>1, <2>3, <3>1, <3>2
  <2>5. answered' = Restrict(answered, DOMAIN answered \ undone) /\ index' = Previous
    BY <1>4 DEF Back
  <2> HIDE DEF before
  <2>6. Follow(pass, mode, index', answered')
    <3>1. Previous + 1 = index
      BY <1>2, <2>4
    <3>2. QED
      BY <1>1, <1>2, <2>2, <2>4, <2>5, <3>1, BackFollows
  <2>7. Fits(answered')
    BY <2>5 DEF Restrict, Fits, Here, Talk
  <2>8. Consent(answered', agreed)
    BY <2>5 DEF Restrict, Consent, Here, Talk
  <2>9. index' \in 1 .. Len(List(pass, mode)) + 1
    BY <1>1, <1>2, <2>4, <2>5
  <2>10. QED
    BY <2>6, <2>7, <2>8, <2>9 DEF Back, Goto, Here, There, Talk
<1>5. QED
  BY <1>3, <1>4

(* From the short list to the long one, or to what becomes of the answers. *)
LEMMA CompleteTalk == ASSUME Here, Complete PROVE There
<1>1. Questions = List(pass, mode)
  BY DEF Questions, List
<1>2. CASE pass = "minimal" /\ answered["advanced_setup"] = "yes"
  <2>1. pass' = "advanced" /\ index' = 1 /\ UNCHANGED <<place, mode, answered, agreed>>
    BY <1>2 DEF Complete
  <2>2. index = 4 /\ List(pass, mode) = Minimal
    <3>1. List(pass, mode) = Minimal
      BY <1>2 DEF List
    <3>2. QED
      BY <1>1, <3>1, MinimalList DEF Complete
  <2>3. Before("minimal", mode, 4) = Range(Minimal)
    <3>1. 4 - 1 = 3
      OBVIOUS
    <3>2. QED
      BY <1>2, <2>2, <3>1, MinimalList DEF Before, Range
  <2>4. DOMAIN answered \ {"overwrite_output"} = Range(Minimal)
    BY <1>2, <2>2, <2>3 DEF Here, Talk, Follow
  <2>5. Follow("advanced", mode, 1, answered)
    <3>1. Before("advanced", mode, 1) = {}
      BY DEF Before
    <3>2. "filesystem_mounts" \notin DOMAIN answered /\ "secret_keys" \notin DOMAIN answered
      BY <2>4, MinimalList
    <3>3. QED
      BY <2>4, <3>1, <3>2 DEF Follow
  <2>6. 1 \in 1 .. Len(List("advanced", mode)) + 1
    BY AdvancedList DEF List
  <2>7. QED
    BY <1>2, <2>1, <2>5, <2>6 DEF Complete, Here, There, Talk, Mode
<1>3. CASE ~(pass = "minimal" /\ answered["advanced_setup"] = "yes")
  BY <1>1, <1>3 DEF Complete, Goto, Here, There, Talk
<1>4. QED
  BY <1>2, <1>3

(* A dialog that comes to an end leaves what was answered.                 *)
LEMMA OtherTalk ==
  ASSUME Here, UNCHANGED <<mode, dialog>>,
         \/ place' = place
         \/ place' \in {"menu", "exit"}
         \/ place = "gate" /\ place' \in {"parse", "run"}
         \/ place = "parse" /\ place' = "run"
  PROVE  There
  BY DEF Here, There, Talk, dialog

(* The directories stay directories, whoever changes them.                 *)
LEMMA WorldKept ==
  ASSUME World(disk, execution, typed, changes), Next
  PROVE  World(disk', execution', typed', changes')
<1>1. CASE UNCHANGED <<disk, execution, typed, changes>>
  BY <1>1 DEF World
<1>2. CASE Answer
  <2>1. typed' \in Dirs
    BY <1>2 DEF Answer, World, Accepted
  <2>2. QED
    BY <1>2, <2>1 DEF Answer, World
<1>3. CASE Gate \/ Run
  BY <1>3 DEF Gate, Run, World, dialog
<1>4. ASSUME NEW d \in Dirs, OthersChange(d)
      PROVE  World(disk', execution', typed', changes')
  BY <1>4, MaxChangesAssumption DEF OthersChange, World, dialog
<1>5. QED
  BY <1>1, <1>2, <1>3, <1>4
     DEF Next, Choose, Leave, InputClosed, PassOver, Back, MainMenu, Agree, Decline,
         Complete, Parse, dialog

---------------------------------------------------------------------------
(* IInv is an inductive invariant of the dialog.                           *)
LEMMA StepIInv == IInv /\ [Next]_vars => IInv'
<1> SUFFICES ASSUME IInv, [Next]_vars PROVE IInv'
  OBVIOUS
<1>1. Here /\ World(disk, execution, typed, changes)
  BY IInvNow DEF Here
<1>2. CASE UNCHANGED vars
  BY <1>1, <1>2, IInvThen DEF vars, dialog, Here
<1>3. CASE Next
  <2>1. ASSUME NEW m \in Modes, Choose(m) PROVE There
    BY <1>1, <2>1, ChooseTalk
  <2>2. ASSUME Leave \/ InputClosed \/ MainMenu PROVE There
    BY <1>1, <2>2, OtherTalk DEF Leave, InputClosed, MainMenu, Goto
  <2>3. ASSUME PassOver PROVE There
    BY <1>1, <2>3, PassOverTalk
  <2>4. ASSUME Answer PROVE There
    BY <1>1, <2>4, AnswerTalk
  <2>5. ASSUME Back PROVE There
    BY <1>1, <2>5, BackTalk
  <2>6. ASSUME Agree PROVE There
    BY <1>1, <2>6, AgreeTalk
  <2>7. ASSUME Decline PROVE There
    BY <1>1, <2>7, DeclineTalk
  <2>8. ASSUME Complete PROVE There
    BY <1>1, <2>8, CompleteTalk
  <2>9. ASSUME Gate \/ Parse \/ Run PROVE There
    BY <1>1, <2>9, OtherTalk DEF Gate, Parse, Run, Goto
  <2>10. ASSUME NEW d \in Dirs, OthersChange(d) PROVE There
    BY <1>1, <2>10, OtherTalk DEF OthersChange
  <2>11. There
    BY <1>3, <2>1, <2>2, <2>3, <2>4, <2>5, <2>6, <2>7, <2>8, <2>9, <2>10 DEF Next
  <2>12. QED
    BY <1>1, <1>3, <2>11, WorldKept, IInvThen DEF There
<1>4. QED
  BY <1>2, <1>3

(* At every moment of a dialog the answers are those to the questions      *)
(* passed so far, and a consent comes with its directory.                  *)
THEOREM Invariance == Spec => []IInv
<1>1. Init => IInv
  BY InitIInv
<1>2. IInv /\ [Next]_vars => IInv'
  BY StepIInv
<1>3. QED
  BY <1>1, <1>2, PTL DEF Spec

(* Where the dialog hands its answers on, they are those to the questions  *)
(* of its list, but for the pointless ones.                                *)
LEMMA HandedOn == IInv => AnswersComplete
<1> SUFFICES ASSUME IInv, place \in {"gate", "parse", "run"} PROVE AnswersComplete
  BY DEF AnswersComplete
<1> DEFINE pointless == (IF Said("filesystem_mode", "none") THEN {"filesystem_mounts"} ELSE {})
                        \cup (IF Said("secrets_enabled", "no") THEN {"secret_keys"} ELSE {})
<1>1. /\ Questions = List(pass, mode) /\ Mode(pass, mode)
      /\ index = Len(List(pass, mode)) + 1 /\ Follow(pass, mode, index, answered)
  BY IInvNow DEF Talk, Questions, List
<1>2. Range(Questions) = Before(pass, mode, index)
  BY <1>1, Lists DEF Range, Before
<1>3. DOMAIN answered \ {"overwrite_output"} = Range(Questions) \ pointless
  <2>1. CASE pass # "advanced"
    <3>1. DOMAIN answered \ {"overwrite_output"} = Range(Questions)
      BY <1>1, <1>2, <2>1 DEF Follow
    <3>2. /\ "filesystem_mode" \notin Range(Questions)
          /\ "secrets_enabled" \notin Range(Questions)
      BY <1>1, <2>1, Lists DEF Range
    <3>3. pointless = {}
      BY <3>1, <3>2 DEF Said
    <3>4. QED
      BY <3>1, <3>3
  <2>2. CASE pass = "advanced"
    <3>1. Range(Minimal) \subseteq Range(Questions)
      <4>1. \A i \in 1 .. 3 : Advanced[i] = Minimal[i]
        BY MinimalList, AdvancedList
      <4>2. Questions = Advanced
        BY <2>2 DEF Questions
      <4>3. QED
        BY <4>1, <4>2, MinimalList, AdvancedList DEF Range
    <3>2. "overwrite_output" \notin Range(Questions)
      BY <1>1, Lists DEF Range
    <3>3. \A d \in Depends : d[1] \in Range(Questions) => d[2] \in Range(Questions)
      <4>1. index \in 1 .. 11
        <5>1. Len(List(pass, mode)) = 10
          BY <2>2, AdvancedList DEF List
        <5>2. QED
          BY <1>1, <5>1
      <4>2. QED
        BY <1>2, <2>2, <4>1, PointlessLast
    <3>4. \A q \in Range(Questions) : Pointless(q, answered)
      BY <1>1, <1>2, <2>2 DEF Follow
    <3>5. \A d \in Depends : d[1] \in Range(Questions) => d[2] \in DOMAIN answered
      BY <3>3, <3>4 DEF Depends, Pointless
    <3>6. \A q \in Range(Questions) : q \in DOMAIN answered \/ q \in pointless
      BY <3>4, <3>5 DEF Pointless, Depends, Said
    <3>7. \A q \in DOMAIN answered : q \notin pointless
      BY <1>1, <2>2 DEF Follow, Said
    <3>8. DOMAIN answered \ {"overwrite_output"} \subseteq Range(Questions)
      BY <1>1, <1>2, <2>2, <3>1 DEF Follow
    <3>9. QED
      BY <3>2, <3>6, <3>7, <3>8
  <2>3. QED
    BY <2>1, <2>2
<1>4. Consented => Target \in agreed
  BY DEF IInv, ConsentHasDirectory
<1>5. QED
  BY <1>3, <1>4 DEF AnswersComplete

(* What a dialog hands on is complete and current, whichever way the user  *)
(* went back and forth through its questions.                              *)
THEOREM DialogIsComplete == Spec => []DialogInv
<1>1. IInv => DialogInv
  BY HandedOn DEF IInv, DialogInv
<1>2. QED
  BY Invariance, <1>1, PTL

(* A directory in use is removed only with the consent given for it.       *)
THEOREM RemovalIsConsented == Spec => RemovalConsented
<1>1. IInv /\ [Next]_vars => [\A d \in Dirs : RemovalAgreed(d)]_vars
  <2> SUFFICES ASSUME IInv, Next, NEW d \in Dirs,
                      disk'[d] # disk[d], changes' = changes, InUse(d)
               PROVE  /\ execution = "execute" /\ mode = "create"
                      /\ answered["output_dir"] = d /\ d \in agreed
    BY DEF RemovalAgreed
  <2>1. disk \in [Dirs -> {"absent", "empty", "full", "file"}] /\ changes \in Nat
    BY MaxChangesAssumption DEF IInv, TypeOK
  <2>2. Gate \/ Run
    BY <2>1 DEF Next, Choose, Leave, InputClosed, PassOver, Answer, Back, MainMenu, Agree,
                Decline, Complete, Parse, OthersChange
  <2>3. CASE Gate
    <3>1. /\ mode = "create" /\ Consented /\ execution = "execute"
          /\ disk' = [disk EXCEPT ![Target] = "absent"]
      BY <2>3 DEF Gate
    <3>2. Target = d
      BY <2>1, <3>1
    <3>3. QED
      BY <3>1, <3>2 DEF IInv, ConsentHasDirectory, Target
  <2>4. CASE Run
    BY <2>1, <2>4 DEF Run, InUse
  <2>5. QED
    BY <2>2, <2>3, <2>4
<1>2. QED
  BY Invariance, <1>1, PTL DEF Spec, RemovalConsented
=============================================================================
