-------------------------- MODULE AgentSessionProofs --------------------------
(***************************************************************************)
(* Theorems about AgentSession, for any tools, any number of turns, plans, *)
(* actions and iterations, and plans of any length; and, at the end, about *)
(* the voice turn that brings a request.                                   *)
(***************************************************************************)
EXTENDS AgentSession, VoiceTurn, Integers, SequenceTheorems, FiniteSetTheorems, WellFoundedInduction, TLAPS

USE CallsAssumption, BoundsAssumption DEF NoAction, NoPlan

StepStates == {"pending", "running", "waiting", "failed", "skipped", "completed"}
PlanStep   == [do : Calls \cup {Think, Answer}, at : StepStates]
PlanObject == [status : {"running", "waiting", "failed", "completed"}, steps : Seq(PlanStep)]
InPlan     == pc \in {"plan", "revise"}

\* Types, and what is known of a call of the controller: it has plans exactly while it
\* executes one, and the user is only asked about an action.
TypeInv ==
    /\ status \in [Actions -> Statuses]
    /\ plans \in Seq(PlanObject)
    /\ origin \in [Actions -> [call : Calls \cup {Think}, turn : Nat, plans : SUBSET PlanIds]]
    /\ active \in PlanIds \cup {NoPlan}
    /\ last \in Actions \cup {NoAction} /\ given \in Actions \cup {NoAction}
    /\ pc \in {"idle", "start", "draft", "plan", "revise", "run", "look", "ask"}
    /\ turn \in Nat /\ round \in 0 .. MaxRounds /\ todo \in Seq(Calls)
    /\ resumed \in BOOLEAN /\ tried \in SUBSET Calls
    /\ IF InPlan THEN root \in PlanIds /\ plan \in PlanIds ELSE root = NoPlan /\ plan = NoPlan
    /\ pc = "ask" => given \in Actions

\* A step waits in a plan under way only if the plan was resumed under an action.
WaitingResumed ==
    InPlan /\ given = NoAction =>
        \A p \in {root, plan} : \A i \in DOMAIN plans[p].steps : plans[p].steps[i].at # "waiting"

\* What the last message asks for was asked in this turn.
LastIsOwn ==
    pc = "look" /\ last # NoAction =>
        origin[last].turn = turn /\ status[last] \in {"pending", "expired"}

\* The plans of a cancelled action are neither under way nor in the slot, and it keeps them.
Dismissed(a) ==
    /\ a \in Actions /\ status[a] # "absent"
    /\ \A p \in origin[a].plans : p # root /\ p # plan /\ p # active

SessionInv ==
    /\ TypeInv
    /\ WaitingResumed
    /\ LastIsOwn
    /\ AsksForOwnAction
    /\ \A a \in cancelled : Dismissed(a)
    /\ StepsSpendApprovals

------------------------------------------------------------------------------
(* Plans and their steps.                                                  *)

\* A step that is marked does what it did.
LEMMA StepMarked ==
  ASSUME NEW s \in PlanStep, NEW at \in StepStates
  PROVE  /\ [s EXCEPT !.at = at] \in PlanStep
         /\ [s EXCEPT !.at = at].at = at /\ [s EXCEPT !.at = at].do = s.do
BY DEF PlanStep

\* Every set of naturals that is not empty has a least element.
LEMMA Least ==
  ASSUME NEW S, S \subseteq Nat, S # {}
  PROVE  \E x \in S : \A y \in S : x <= y
<1>1. \E x \in S : \A y \in S : ~ (<<y, x>> \in OpToRel(<, Nat))
  BY NatLessThanWellFounded, WFMin
<1>2. PICK x \in S : \A y \in S : ~ (<<y, x>> \in OpToRel(<, Nat))
  BY <1>1
<1>3. \A y \in S : ~ (y < x)
  BY <1>2 DEF OpToRel
<1>4. \A y \in S : x <= y
  BY <1>3
<1> QED
  BY <1>4

\* Each plan is an object with a list of steps, numbered from one.
LEMMA ObjectTypes ==
  ASSUME NEW objects \in Seq(PlanObject), NEW p \in DOMAIN objects
  PROVE  /\ objects[p] \in PlanObject /\ objects[p].steps \in Seq(PlanStep)
         /\ Len(objects[p].steps) \in Nat
         /\ DOMAIN objects[p].steps = 1 .. Len(objects[p].steps)
         /\ \A i \in DOMAIN objects[p].steps : objects[p].steps[i] \in PlanStep
<1>1. objects[p] \in PlanObject
  BY ElementOfSeq, LenProperties
<1>2. objects[p].steps \in Seq(PlanStep)
  BY <1>1 DEF PlanObject
<1> QED
  BY <1>1, <1>2, LenProperties, ElementOfSeq

\* The plans there are, and their steps, are numbered from one.
LEMMA PlanTypes ==
  ASSUME TypeInv
  PROVE  /\ PlanIds = 1 .. Len(plans) /\ Len(plans) \in Nat
         /\ PlanIds \subseteq Nat \ {0}
         /\ \A p \in PlanIds :
                /\ plans[p] \in PlanObject /\ plans[p].steps \in Seq(PlanStep)
                /\ Len(plans[p].steps) \in Nat
                /\ DOMAIN plans[p].steps = 1 .. Len(plans[p].steps)
                /\ DOMAIN plans[p].steps \subseteq Nat \ {0}
                /\ \A i \in DOMAIN plans[p].steps : plans[p].steps[i] \in PlanStep
<1>1. plans \in Seq(PlanObject)
  BY DEF TypeInv
<1>2. PlanIds = 1 .. Len(plans) /\ Len(plans) \in Nat
  BY <1>1, LenProperties DEF PlanIds
<1> QED
  BY <1>1, <1>2, ObjectTypes DEF PlanIds

\* The types of the proofs are those of the run's invariant.
LEMMA TypeInvOK == TypeInv /\ cancelled \subseteq Actions => TypeOK
BY PlanTypes DEF TypeInv, TypeOK, PlanObject, PlanStep, StepStates, PlanIds, InPlan

\* The executor comes to a step that is not completed.
LEMMA CurrentUndone ==
  ASSUME TypeInv, NEW p \in PlanIds, Undone(p) # {}
  PROVE  Current(p) \in Undone(p)
<1>1. Undone(p) \subseteq Nat
  BY PlanTypes DEF Undone
<1>2. \E i \in Undone(p) : \A j \in Undone(p) : i <= j
  BY <1>1, Least
<1> QED
  BY <1>2 DEF Current

\* A plan has been worked on: the others and its list of steps are as they were.
Reworked(new, p) ==
    /\ new \in Seq(PlanObject) /\ DOMAIN new = PlanIds
    /\ \A q \in PlanIds \ {p} : new[q] = plans[q]
    /\ DOMAIN new[p].steps = DOMAIN plans[p].steps

\* One plan is put in place of another with as many steps.
LEMMA StepsReplaced ==
  ASSUME TypeInv, NEW p \in PlanIds, NEW s \in PlanObject,
         DOMAIN s.steps = DOMAIN plans[p].steps
  PROVE  Reworked([plans EXCEPT ![p] = s], p)
BY DEF TypeInv, PlanIds, Reworked

\* Marking sets the current step of the plan, and nothing else.
LEMMA MarkedReworks ==
  ASSUME TypeInv, NEW p \in PlanIds, Undone(p) # {}, NEW at \in StepStates
  PROVE  /\ Reworked(Marked(p, at), p)
         /\ Marked(p, at)[p].status = plans[p].status
         /\ \A i \in DOMAIN plans[p].steps : Marked(p, at)[p].steps[i] =
                IF i = Current(p) THEN [plans[p].steps[i] EXCEPT !.at = at] ELSE plans[p].steps[i]
<1> DEFINE k == Current(p)
           steps == plans[p].steps
           new == [plans[p] EXCEPT !.steps = [steps EXCEPT ![k] = [steps[k] EXCEPT !.at = at]]]
<1>1. k \in DOMAIN steps
  BY CurrentUndone DEF Undone
<1> HIDE DEF k
<1>2. steps \in Seq(PlanStep) /\ steps[k] \in PlanStep /\ plans[p] \in PlanObject
  BY <1>1, PlanTypes DEF PlanObject
<1>3. [steps[k] EXCEPT !.at = at] \in PlanStep
  BY <1>2 DEF PlanStep
<1>4. [steps EXCEPT ![k] = [steps[k] EXCEPT !.at = at]] \in Seq(PlanStep)
  BY <1>1, <1>2, <1>3
<1>5. new \in PlanObject /\ DOMAIN new.steps = DOMAIN steps
  BY <1>2, <1>4 DEF PlanObject
<1>6. Marked(p, at) = [plans EXCEPT ![p] = new]
  BY DEF Marked, k
<1>7. Marked(p, at)[p] = new
  BY <1>6 DEF TypeInv, PlanIds
<1>8. Reworked(Marked(p, at), p)
  BY <1>5, <1>6, StepsReplaced
<1>9. new.status = plans[p].status /\ \A i \in DOMAIN steps : new.steps[i] =
                IF i = k THEN [steps[i] EXCEPT !.at = at] ELSE steps[i]
  BY <1>1, <1>2 DEF PlanObject
<1> QED
  BY <1>7, <1>8, <1>9 DEF k

\* A plan that breaks down completes nothing, and nothing waits in it that did not.
LEMMA BrokenReworks ==
  ASSUME TypeInv, NEW p \in PlanIds
  PROVE  /\ Reworked(Broken(p), p)
         /\ \A i \in DOMAIN plans[p].steps :
                \/ Broken(p)[p].steps[i] = plans[p].steps[i]
                \/ Broken(p)[p].steps[i].at \in {"failed", "skipped"}
<1> DEFINE steps == plans[p].steps
           broken == [i \in DOMAIN steps |->
                        IF i = Current(p) THEN [steps[i] EXCEPT !.at = "failed"]
                        ELSE IF i \in Undone(p) THEN [steps[i] EXCEPT !.at = "skipped"]
                        ELSE steps[i]]
           new == [status |-> "failed", steps |-> broken]
<1>1. /\ steps \in Seq(PlanStep) /\ \A i \in DOMAIN steps : steps[i] \in PlanStep
      /\ Len(steps) \in Nat /\ DOMAIN steps = 1 .. Len(steps)
  BY PlanTypes
<1>2. \A i \in DOMAIN steps :
         /\ broken[i] \in PlanStep
         /\ broken[i] = steps[i] \/ broken[i].at \in {"failed", "skipped"}
  <2> TAKE i \in DOMAIN steps
  <2> DEFINE failed == [steps[i] EXCEPT !.at = "failed"]
             skipped == [steps[i] EXCEPT !.at = "skipped"]
  <2>1. /\ steps[i] \in PlanStep
        /\ failed \in PlanStep /\ failed.at = "failed"
        /\ skipped \in PlanStep /\ skipped.at = "skipped"
    BY <1>1, StepMarked DEF StepStates
  <2>2. broken[i] \in {failed, skipped, steps[i]}
    OBVIOUS
  <2> HIDE DEF failed, skipped, broken
  <2> QED
    BY <2>1, <2>2
<1>3. DOMAIN broken = 1 .. Len(steps) /\ Len(steps) \in Nat /\ DOMAIN steps = 1 .. Len(steps)
  BY <1>1
<1>4. broken \in [1 .. Len(steps) -> PlanStep]
  BY <1>2, <1>3
<1> HIDE DEF broken
<1>5. broken \in Seq(PlanStep)
  BY <1>3, <1>4
<1>6. new \in PlanObject /\ DOMAIN new.steps = DOMAIN steps
  BY <1>3, <1>5 DEF PlanObject
<1>7. Broken(p) = [plans EXCEPT ![p] = new]
  BY DEF Broken, broken
<1>8. Broken(p)[p].steps = broken
  BY <1>7 DEF TypeInv, PlanIds
<1>9. Reworked(Broken(p), p)
  BY <1>6, <1>7, StepsReplaced
<1> HIDE DEF new
<1> QED
  BY <1>2, <1>8, <1>9

\* A plan that is drafted has all its steps to do.
LEMMA DraftTypes ==
  ASSUME NEW d \in Drafts
  PROVE  d \in PlanObject /\ \A i \in DOMAIN d.steps : d.steps[i].at = "pending"
<1>1. PICK c \in BoundedSeq(Calls \cup {Think}, MaxSteps) :
        d = [status |-> "running", steps |-> [i \in 1 .. Len(c) + 1 |->
                [do |-> IF i > Len(c) THEN Answer ELSE c[i], at |-> "pending"]]]
  BY DEF Drafts
<1>2. PICK m \in 0 .. MaxSteps : c \in [1 .. m -> Calls \cup {Think}]
  BY DEF BoundedSeq, SeqOf
<1>3. Len(c) = m /\ m \in Nat
  BY <1>2
<1> DEFINE s == [i \in 1 .. m + 1 |-> [do |-> IF i > m THEN Answer ELSE c[i], at |-> "pending"]]
<1>4. \A i \in 1 .. m + 1 : s[i] \in PlanStep /\ s[i].at = "pending"
  BY <1>2, <1>3 DEF PlanStep, StepStates
<1>5. s \in [1 .. m + 1 -> PlanStep]
  BY <1>4
<1>6. d = [status |-> "running", steps |-> s]
  BY <1>1, <1>3
<1> HIDE DEF s
<1>7. s \in Seq(PlanStep) /\ DOMAIN s = 1 .. m + 1
  BY <1>3, <1>5
<1> QED
  BY <1>4, <1>6, <1>7 DEF PlanObject

\* The objects that were there remain, and the new one is behind them.
LEMMA Adopted ==
  ASSUME TypeInv, NEW d \in Drafts, Adopt(d)
  PROVE  /\ plans' \in Seq(PlanObject)
         /\ PlanIds' = PlanIds \cup {Len(plans')} /\ Len(plans') \notin PlanIds /\ Len(plans') # 0
         /\ \A p \in PlanIds : plans'[p] = plans[p]
         /\ \A i \in DOMAIN plans'[Len(plans')].steps : plans'[Len(plans')].steps[i].at = "pending"
<1>1. plans \in Seq(PlanObject) /\ d \in PlanObject /\ plans' = Append(plans, d)
  BY DraftTypes DEF TypeInv, Adopt
<1>2. /\ plans' \in Seq(PlanObject) /\ Len(plans') = Len(plans) + 1 /\ Len(plans) \in Nat
      /\ \A i \in 1 .. Len(plans) : plans'[i] = plans[i]
      /\ plans'[Len(plans')] = d
  BY <1>1, AppendProperties
<1>3. PlanIds = 1 .. Len(plans) /\ PlanIds' = 1 .. Len(plans')
  BY <1>1, <1>2 DEF PlanIds
<1> QED
  BY <1>2, <1>3, DraftTypes

\* Setting the status of a plan leaves its steps.
LEMMA StatusReworks ==
  ASSUME TypeInv, NEW p \in PlanIds, NEW s \in {"running", "waiting", "failed", "completed"}
  PROVE  /\ Reworked([plans EXCEPT ![p].status = s], p)
         /\ [plans EXCEPT ![p].status = s][p].steps = plans[p].steps
<1> DEFINE new == [plans[p] EXCEPT !.status = s]
<1>1. new \in PlanObject /\ new.steps = plans[p].steps
  BY PlanTypes DEF PlanObject
<1>2. [plans EXCEPT ![p].status = s] = [plans EXCEPT ![p] = new]
  OBVIOUS
<1>3. [plans EXCEPT ![p].status = s][p] = new
  BY <1>2 DEF TypeInv, PlanIds
<1> QED
  BY <1>1, <1>2, <1>3, StepsReplaced

\* A plan is suspended: its step waits, and so does the plan.
LEMMA AskedReworks ==
  ASSUME TypeInv, NEW p \in PlanIds, Undone(p) # {}
  PROVE  LET new == [Marked(p, "waiting") EXCEPT ![p].status = "waiting"] IN
         /\ Reworked(new, p)
         /\ \A i \in DOMAIN plans[p].steps : new[p].steps[i] =
                IF i = Current(p) THEN [plans[p].steps[i] EXCEPT !.at = "waiting"]
                ELSE plans[p].steps[i]
<1> DEFINE m == Marked(p, "waiting")
           o == [m[p] EXCEPT !.status = "waiting"]
           new == [m EXCEPT ![p].status = "waiting"]
<1>1. /\ Reworked(m, p)
      /\ \A i \in DOMAIN plans[p].steps : m[p].steps[i] =
                IF i = Current(p) THEN [plans[p].steps[i] EXCEPT !.at = "waiting"]
                ELSE plans[p].steps[i]
  BY MarkedReworks DEF StepStates
<1> HIDE DEF m
<1>2. m \in Seq(PlanObject) /\ DOMAIN m = PlanIds /\ m[p] \in PlanObject
  BY <1>1, ElementOfSeq, LenProperties DEF Reworked
<1>3. o \in PlanObject /\ o.steps = m[p].steps
  BY <1>2 DEF PlanObject
<1>4. new = [m EXCEPT ![p] = o]
  OBVIOUS
<1>5. new[p] = o /\ \A q \in PlanIds \ {p} : new[q] = m[q]
  BY <1>2, <1>4
<1>6. new \in Seq(PlanObject) /\ DOMAIN new = PlanIds
  <2> HIDE DEF o, PlanObject
  <2> QED
    BY <1>2, <1>3, <1>4, ExceptSeq, LenProperties
<1>7. Reworked(new, p)
  BY <1>1, <1>3, <1>5, <1>6 DEF Reworked
<1> HIDE DEF o, new
<1> QED
  BY <1>1, <1>3, <1>5, <1>7 DEF m, new

\* Whichever way a call of the controller ends, nothing of it is left.
LEMMA Returns ==
  ASSUME TypeInv, NEW a \in Actions \cup {NoAction}, Reply(a) \/ Crash
  PROVE  /\ root' = NoPlan /\ plan' = NoPlan /\ resumed' = FALSE /\ tried' = {}
         /\ round' = 0 /\ todo' = << >>
         /\ \/ pc' = "look" /\ last' = a
            \/ pc' = "idle" /\ last' \in {last, NoAction}
BY DEF TypeInv, Reply, Crash, Leave, Goto

\* What an action's origin names is still there when there are more plans.
LEMMA OriginKept ==
  ASSUME TypeInv, PlanIds \subseteq PlanIds'
  PROVE  origin \in [Actions -> [call : Calls \cup {Think}, turn : Nat, plans : SUBSET PlanIds']]
<1> DEFINE Old == [call : Calls \cup {Think}, turn : Nat, plans : SUBSET PlanIds]
           New == [call : Calls \cup {Think}, turn : Nat, plans : SUBSET PlanIds']
<1>1. Old \subseteq New
  OBVIOUS
<1>2. origin \in [Actions -> Old]
  BY DEF TypeInv
<1> HIDE DEF Old, New
<1> QED
  BY <1>1, <1>2 DEF New

\* The plans a step leaves behind, and the types of what refers to them.
LEMMA SlotsKept ==
  ASSUME TypeInv, NEW p \in PlanIds, Reworked(plans', p)
  PROVE  plans' \in Seq(PlanObject) /\ PlanIds' = PlanIds
BY DEF Reworked, PlanIds

\* An approval only ever moves from one status to another.
LEMMA StatusTypes ==
  ASSUME TypeInv,
         \/ UNCHANGED status
         \/ \E a \in Actions :
                Approvals!Request(a) \/ Approvals!Decide(a) \/ Approvals!Execute(a)
                \/ Approvals!Refuse(a) \/ Approvals!Expire({a})
  PROVE  status' \in [Actions -> Statuses]
BY DEF TypeInv, Statuses, Approvals!Request, Approvals!Decide, Approvals!Execute,
       Approvals!Refuse, Approvals!Expire, Approvals!Move

\* A suspended step can only be tried with the action that was approved for it.
LEMMA SpendTypes ==
  ASSUME TypeInv, Approvals!Execute(given) \/ Approvals!Refuse(given)
  PROVE  status' \in [Actions -> Statuses]
BY DEF TypeInv, Statuses, Approvals!Execute, Approvals!Refuse, Approvals!Move

\* What Record leaves: the action was absent, and is pending and the turn's own.
LEMMA Recorded ==
  ASSUME TypeInv, NEW c \in Calls, NEW a \in Actions, Record(c, a)
  PROVE  /\ status[a] = "absent" /\ status' = [status EXCEPT ![a] = "pending"]
         /\ status' \in [Actions -> Statuses] /\ status'[a] = "pending"
         /\ origin'[a].turn = turn
         /\ origin'[a] = [call |-> c, turn |-> turn,
                          plans |-> IF pc = "plan" THEN {root, plan} ELSE {}]
         /\ \A b \in Actions \ {a} : origin'[b] = origin[b]
         /\ PlanIds' = PlanIds =>
                origin' \in [Actions -> [call : Calls \cup {Think}, turn : Nat, plans : SUBSET PlanIds']]
<1> DEFINE o == [call |-> c, turn |-> turn, plans |-> IF pc = "plan" THEN {root, plan} ELSE {}]
           Origins == [call : Calls \cup {Think}, turn : Nat, plans : SUBSET PlanIds]
<1>1. o \in Origins
  BY DEF TypeInv, InPlan
<1>2. origin \in [Actions -> Origins] /\ origin' = [origin EXCEPT ![a] = o]
  BY DEF TypeInv, Record
<1>3. /\ status[a] = "absent" /\ status' = [status EXCEPT ![a] = "pending"]
      /\ status' \in [Actions -> Statuses]
  BY StatusTypes DEF Record, Approvals!Request, Approvals!Move
<1>4. origin' \in [Actions -> Origins] /\ origin'[a] = o /\ \A b \in Actions \ {a} : origin'[b] = origin[b]
  <2> HIDE DEF o, Origins
  <2> QED
    BY <1>1, <1>2
<1>5. status'[a] = "pending" /\ origin'[a].turn = turn
  BY <1>3, <1>4 DEF TypeInv
<1> QED
  BY <1>3, <1>4, <1>5

------------------------------------------------------------------------------
(* Types.                                                                  *)

\* A call that returns keeps the types, if what it shares with others is in order.
LEMMA TypesReturn ==
  ASSUME TypeInv, NEW a \in Actions \cup {NoAction}, Reply(a) \/ Crash,
         status' \in [Actions -> Statuses], plans' \in Seq(PlanObject),
         origin' \in [Actions -> [call : Calls \cup {Think}, turn : Nat, plans : SUBSET PlanIds']],
         active' \in PlanIds' \cup {NoPlan}, UNCHANGED <<turn, given>>
  PROVE  TypeInv'
<1>1. /\ root' = NoPlan /\ plan' = NoPlan /\ resumed' = FALSE /\ tried' = {}
      /\ round' = 0 /\ todo' = << >>
      /\ pc' \in {"look", "idle"} /\ last' \in Actions \cup {NoAction}
  BY Returns DEF TypeInv
<1>2. todo' \in Seq(Calls) /\ round' \in 0 .. MaxRounds
  BY <1>1
<1>3. turn' \in Nat /\ given' \in Actions \cup {NoAction}
  BY DEF TypeInv
<1> QED
  BY <1>1, <1>2, <1>3 DEF TypeInv, InPlan

\* The plan that a step of the executor works on, and where the step leaves the slot.
LEMMA Concluded ==
  ASSUME TypeInv, InPlan, NEW a \in Actions \cup {NoAction}, Conclude(a),
         plans' \in Seq(PlanObject), PlanIds' = PlanIds, UNCHANGED <<turn, given>>,
         status' \in [Actions -> Statuses],
         origin' \in [Actions -> [call : Calls \cup {Think}, turn : Nat, plans : SUBSET PlanIds']]
  PROVE  TypeInv'
BY TypesReturn DEF Conclude, TypeInv

\* Every step keeps the types.
LEMMA TypeStep ==
  ASSUME TypeInv, [Next]_vars
  PROVE  TypeInv'
<1> USE DEF table, exec, loop, Goto
<1> DEFINE Origins == [Actions -> [call : Calls \cup {Think}, turn : Nat, plans : SUBSET PlanIds']]
<1>0. PlanIds' = PlanIds /\ origin' = origin => origin' \in Origins
  BY OriginKept
<1>k. UNCHANGED plans => PlanIds' = PlanIds
  BY DEF PlanIds
<1> HIDE DEF Origins
<1>u. UNCHANGED status => status' \in [Actions -> Statuses]
  BY StatusTypes
<1>1. CASE Begin
  BY <1>1, <1>0, <1>k DEF Begin, TypeInv, InPlan, Origins
<1>2. CASE Look
  BY <1>2, <1>0, <1>k DEF Look, TypeInv, InPlan, Origins
<1>3. CASE Decide
  <2>1. status' \in [Actions -> Statuses]
    BY <1>3, StatusTypes DEF Decide, TypeInv
  <2> QED
    BY <1>3, <2>1, <1>0, <1>k DEF Decide, TypeInv, InPlan, Origins
<1>4. ASSUME NEW a \in Actions, Expire(a)
      PROVE  TypeInv'
  <2>1. status' \in [Actions -> Statuses]
    BY <1>4, StatusTypes DEF Expire
  <2> QED
    BY <1>4, <2>1, <1>0, <1>k DEF Expire, TypeInv, InPlan, Origins
<1>5. CASE HearRejection
  BY <1>5, <1>0, <1>k, <1>u, TypesReturn DEF HearRejection, TypeInv, Origins
<1>6. CASE ResumePlan
  <2>1. active \in PlanIds
    BY <1>6 DEF ResumePlan, TypeInv
  <2>2. Reworked(plans', active)
    <3>1. [plans[active] EXCEPT !.status = "running"] \in PlanObject
      BY <2>1, PlanTypes DEF PlanObject
    <3>2. [plans[active] EXCEPT !.status = "running"].steps = plans[active].steps
      BY <2>1, PlanTypes DEF PlanObject
    <3>3. plans' = [plans EXCEPT ![active] = [plans[active] EXCEPT !.status = "running"]]
      BY <1>6 DEF ResumePlan
    <3> QED
      BY <2>1, <3>1, <3>2, <3>3, StepsReplaced
  <2>3. plans' \in Seq(PlanObject) /\ PlanIds' = PlanIds
    BY <2>1, <2>2, SlotsKept
  <2> QED
    BY <1>6, <2>1, <2>3, <1>0, <1>u DEF ResumePlan, TypeInv, InPlan, Origins
<1>7. CASE ResumeDirect
  <2>1. status' \in [Actions -> Statuses]
    BY <1>7, StatusTypes DEF ResumeDirect, Presents, TypeInv
  <2>2. CASE Crash
    BY <1>7, <2>1, <2>2, <1>0, <1>k, TypesReturn DEF ResumeDirect, TypeInv, Origins
  <2>3. CASE ~ Crash
    BY <1>7, <2>1, <2>3, <1>0, <1>k DEF ResumeDirect, Presents, TypeInv, InPlan, Origins
  <2> QED
    BY <2>2, <2>3
<1>8. CASE Route
  BY <1>8, <1>0, <1>k DEF Route, TypeInv, InPlan, Origins
<1>9. CASE Draft
  <2>1. PICK d \in Drafts : Adopt(d)
    BY <1>9 DEF Draft
  <2>2. /\ plans' \in Seq(PlanObject)
        /\ PlanIds' = PlanIds \cup {Len(plans')}
    BY <2>1, Adopted
  <2>3. origin' \in Origins
    BY <1>9, <2>2, OriginKept DEF Draft, Origins
  <2> QED
    BY <1>9, <2>2, <2>3 DEF Draft, TypeInv, InPlan, Origins
<1>10. CASE Fail
  BY <1>10, <1>0, <1>k, <1>u, TypesReturn DEF Fail, TypeInv, Origins
<1>11. CASE StepDone
  <2>1. plan \in PlanIds /\ Undone(plan) # {}
    BY <1>11 DEF StepDone, Working, TypeInv, InPlan
  <2>2. plans' \in Seq(PlanObject) /\ PlanIds' = PlanIds
    BY <1>11, <2>1, MarkedReworks, SlotsKept DEF StepDone, StepStates
  <2> QED
    BY <1>11, <2>1, <2>2, <1>0, <1>u DEF StepDone, TypeInv, InPlan, Origins
<1>12. CASE StepRaises
  <2>1. plan \in PlanIds /\ InPlan
    BY <1>12 DEF StepRaises, Working, TypeInv, InPlan
  <2>2. plans' \in Seq(PlanObject) /\ PlanIds' = PlanIds
    BY <1>12, <2>1, BrokenReworks, SlotsKept DEF StepRaises
  <2>3. Conclude(NoAction)
    BY <1>12 DEF StepRaises
  <2> QED
    BY <1>12, <2>1, <2>2, <2>3, <1>0, <1>u, Concluded DEF StepRaises, Origins
<1>13. ASSUME NEW a \in Actions, StepAsks(a)
       PROVE  TypeInv'
  <2>1. plan \in PlanIds /\ InPlan /\ Undone(plan) # {}
    BY <1>13 DEF StepAsks, Working, TypeInv, InPlan
  <2>2. Reworked(plans', plan)
    BY <1>13, <2>1, AskedReworks DEF StepAsks
  <2>3. plans' \in Seq(PlanObject) /\ PlanIds' = PlanIds
    BY <2>1, <2>2, SlotsKept
  <2>4. Step.do \in Calls /\ Record(Step.do, a) /\ Conclude(a)
    BY <1>13 DEF StepAsks, Working, Calls
  <2>5. status' \in [Actions -> Statuses] /\ origin' \in Origins
    BY <2>3, <2>4, Recorded DEF Origins
  <2> QED
    BY <1>13, <2>1, <2>3, <2>4, <2>5, Concluded DEF StepAsks, Origins
<1>14. CASE StepSpends
  <2>1. plan \in PlanIds /\ Undone(plan) # {}
    BY <1>14 DEF StepSpends, Working, TypeInv, InPlan
  <2>2. plans' \in Seq(PlanObject) /\ PlanIds' = PlanIds
    BY <1>14, <2>1, MarkedReworks, SlotsKept DEF StepSpends, StepStates
  <2>3. status' \in [Actions -> Statuses]
    BY <1>14, SpendTypes DEF StepSpends
  <2> QED
    BY <1>14, <2>1, <2>2, <2>3, <1>0 DEF StepSpends, TypeInv, InPlan, Origins
<1>15. CASE StepFails
  <2>1. plan \in PlanIds /\ InPlan /\ Undone(plan) # {}
    BY <1>15 DEF StepFails, Working, TypeInv, InPlan
  <2>2. plans' \in Seq(PlanObject) /\ PlanIds' = PlanIds
    BY <1>15, <2>1, MarkedReworks, BrokenReworks, SlotsKept DEF StepFails, StepStates
  <2>3. status' \in [Actions -> Statuses]
    BY <1>15, <1>u, SpendTypes DEF StepFails
  <2>4. Step.do \in Calls
    BY <1>15 DEF StepFails, Working
  <2>5. origin' \in Origins
    BY <1>15, <2>2, <1>0 DEF StepFails
  <2>6. CASE plan = root
    <3>1. /\ tried' = tried \cup {Step.do} /\ pc' = "revise"
          /\ UNCHANGED <<active, last, root, plan, resumed, loop, turn, given>>
      BY <1>15, <2>6 DEF StepFails
    <3> QED
      BY <2>1, <2>2, <2>3, <2>4, <2>5, <3>1 DEF TypeInv, InPlan, Origins
  <2>7. CASE plan # root
    <3>1. Conclude(NoAction) /\ UNCHANGED <<turn, given>>
      BY <1>15, <2>7 DEF StepFails
    <3> QED
      BY <2>1, <2>2, <2>3, <2>5, <3>1, Concluded DEF Origins
  <2> QED
    BY <2>6, <2>7
<1>16. CASE Revise
  <2>1. PICK d \in Drafts : Adopt(d)
    BY <1>16 DEF Revise
  <2>2. /\ plans' \in Seq(PlanObject)
        /\ PlanIds' = PlanIds \cup {Len(plans')}
    BY <2>1, Adopted
  <2>3. origin' \in Origins
    BY <1>16, <2>2, OriginKept DEF Revise, Origins
  <2> QED
    BY <1>16, <2>2, <2>3 DEF Revise, TypeInv, InPlan, Origins
<1>17. CASE NoRevision
  <2>1. root \in PlanIds /\ InPlan
    BY <1>17 DEF NoRevision, TypeInv, InPlan
  <2>2. plans' \in Seq(PlanObject) /\ PlanIds' = PlanIds
    BY <1>17, <2>1, BrokenReworks, SlotsKept DEF NoRevision
  <2>3. Conclude(NoAction)
    BY <1>17 DEF NoRevision
  <2> QED
    BY <1>17, <2>1, <2>2, <2>3, <1>0, <1>u, Concluded DEF NoRevision, Origins
<1>18. CASE TimeOut
  BY <1>18, <1>0, <1>k, <1>u, TypesReturn DEF TimeOut, TypeInv, Origins
<1>19. CASE PlanDone
  <2>1. plan \in PlanIds /\ InPlan
    BY <1>19 DEF PlanDone, TypeInv, InPlan
  <2>2. plans' \in Seq(PlanObject) /\ PlanIds' = PlanIds
    BY <1>19, <2>1, StatusReworks, SlotsKept DEF PlanDone
  <2>3. Conclude(NoAction)
    BY <1>19 DEF PlanDone
  <2> QED
    BY <1>19, <2>1, <2>2, <2>3, <1>0, <1>u, Concluded DEF PlanDone, Origins
<1>20. CASE Generate
  <2>1. CASE Reply(NoAction)
    BY <1>20, <2>1, <1>0, <1>k, <1>u, TypesReturn DEF Generate, TypeInv, Origins
  <2>2. CASE ~ Reply(NoAction)
    <3>1. PICK cs \in SeqOf(Calls, 2) : todo' = cs
      BY <1>20, <2>2 DEF Generate
    <3>2. PICK m \in 0 .. 2 : cs \in [1 .. m -> Calls]
      BY DEF SeqOf
    <3>3. todo' \in Seq(Calls)
      BY <3>1, <3>2
    <3>4. round' \in 0 .. MaxRounds
      BY <1>20, <2>2 DEF Generate, TypeInv
    <3> QED
      BY <1>20, <2>2, <3>3, <3>4, <1>0, <1>k, <1>u DEF Generate, TypeInv, InPlan, Origins
  <2> QED
    BY <2>1, <2>2
<1>21. CASE CallTool
  <2>1. todo' \in Seq(Calls)
    BY <1>21, HeadTailProperties DEF CallTool, TypeInv
  <2> QED
    BY <1>21, <2>1, <1>0, <1>k, <1>u DEF CallTool, TypeInv, InPlan, Origins
<1>22. ASSUME NEW a \in Actions, CallAsks(a)
       PROVE  TypeInv'
  <2>1. Head(todo) \in Calls /\ ((Record(Head(todo), a) /\ Reply(a)) \/ Crash)
    BY <1>22 DEF CallAsks, Calls
  <2>2. PlanIds' = PlanIds
    BY <1>22, <1>k DEF CallAsks
  <2>3. status' \in [Actions -> Statuses] /\ origin' \in Origins
    BY <2>1, <2>2, <1>22, Recorded DEF Origins, CallAsks, Calls
  <2> QED
    BY <1>22, <2>1, <2>2, <2>3, TypesReturn DEF CallAsks, TypeInv, Origins
<1>23. CASE UNCHANGED vars
  BY <1>23, <1>0, <1>k DEF vars, TypeInv, InPlan, Origins
<1> QED
  BY <1>1, <1>2, <1>3, <1>4, <1>5, <1>6, <1>7, <1>8, <1>9, <1>10, <1>11, <1>12, <1>13, <1>14,
     <1>15, <1>16, <1>17, <1>18, <1>19, <1>20, <1>21, <1>22, <1>23 DEF Next, Work

------------------------------------------------------------------------------
(* The question put to the user.                                           *)

\* A call that returns without asking leaves no question, and one that asks leaves its own.
LEMMA OwnReturn ==
  ASSUME TypeInv, NEW a \in Actions \cup {NoAction}, Reply(a) \/ Crash,
         a # NoAction => origin'[a].turn = turn' /\ status'[a] = "pending"
  PROVE  LastIsOwn' /\ AsksForOwnAction'
BY Returns DEF LastIsOwn, AsksForOwnAction

\* What is asked, and what the last message asks, stays the turn's own.
LEMMA OwnStep ==
  ASSUME TypeInv, LastIsOwn, AsksForOwnAction, [Next]_vars
  PROVE  LastIsOwn' /\ AsksForOwnAction'
<1> USE DEF Goto, table, exec, loop
<1>1. CASE Begin \/ ResumePlan \/ Route \/ Draft \/ Revise
  BY <1>1 DEF Begin, ResumePlan, Route, Draft, Revise, LastIsOwn, AsksForOwnAction
<1>2. CASE Look
  BY <1>2 DEF Look, LastIsOwn, AsksForOwnAction
<1>3. CASE Decide
  BY <1>3 DEF Decide, LastIsOwn, AsksForOwnAction
<1>4. ASSUME NEW a \in Actions, Expire(a)
      PROVE  LastIsOwn' /\ AsksForOwnAction'
  <2>1. /\ \A b \in Actions : status'[b] = IF b = a THEN "expired" ELSE status[b]
        /\ UNCHANGED <<origin, last, pc, turn, given>>
    BY <1>4 DEF Expire, Approvals!Expire
  <2> QED
    BY <2>1 DEF LastIsOwn, AsksForOwnAction, TypeInv
<1>5. CASE HearRejection \/ Fail \/ TimeOut
  BY <1>5, OwnReturn DEF HearRejection, Fail, TimeOut
<1>6. CASE StepRaises \/ NoRevision \/ PlanDone
  BY <1>6, OwnReturn DEF StepRaises, NoRevision, PlanDone, Conclude
<1>7. CASE StepDone \/ StepSpends \/ CallTool
  BY <1>7 DEF StepDone, StepSpends, CallTool, Working, LastIsOwn, AsksForOwnAction
<1>8. CASE StepFails
  <2>1. CASE plan = root
    BY <1>8, <2>1 DEF StepFails, LastIsOwn, AsksForOwnAction
  <2>2. CASE plan # root
    BY <1>8, <2>2, OwnReturn DEF StepFails, Conclude
  <2> QED
    BY <2>1, <2>2
<1>9. ASSUME NEW a \in Actions, StepAsks(a)
      PROVE  LastIsOwn' /\ AsksForOwnAction'
  <2>1. Step.do \in Calls /\ Record(Step.do, a) /\ (Reply(a) \/ Crash) /\ turn' = turn
    BY <1>9 DEF StepAsks, Working, Conclude, Calls
  <2>2. origin'[a].turn = turn /\ status'[a] = "pending"
    BY <2>1, Recorded
  <2> QED
    BY <2>1, <2>2, OwnReturn
<1>10. ASSUME NEW a \in Actions, CallAsks(a)
       PROVE  LastIsOwn' /\ AsksForOwnAction'
  <2>1. Head(todo) \in Calls /\ Record(Head(todo), a) /\ (Reply(a) \/ Crash) /\ turn' = turn
    BY <1>10 DEF CallAsks, Calls
  <2>2. origin'[a].turn = turn /\ status'[a] = "pending"
    BY <2>1, Recorded
  <2> QED
    BY <2>1, <2>2, OwnReturn
<1>11. CASE Generate
  <2>1. CASE Reply(NoAction)
    BY <2>1, OwnReturn
  <2>2. CASE pc' = "run"
    BY <2>2 DEF LastIsOwn, AsksForOwnAction
  <2> QED
    BY <1>11, <2>1, <2>2 DEF Generate
<1>12. CASE ResumeDirect
  <2>1. CASE Crash
    BY <2>1, OwnReturn
  <2>2. CASE pc' = "run"
    BY <2>2 DEF LastIsOwn, AsksForOwnAction
  <2> QED
    BY <1>12, <2>1, <2>2 DEF ResumeDirect
<1>13. CASE UNCHANGED vars
  BY <1>13 DEF vars, LastIsOwn, AsksForOwnAction
<1> QED
  BY <1>1, <1>2, <1>3, <1>4, <1>5, <1>6, <1>7, <1>8, <1>9, <1>10, <1>11, <1>12, <1>13 DEF Next, Work

------------------------------------------------------------------------------
(* The steps of the plans.                                                 *)

\* What a step of the session may do to a step of a plan: nothing; take it back in a plan
\* under way, leaving it to wait only if the plan is suspended; or complete the current one.
Moved(p, i) ==
    \/ plans'[p].steps[i] = plans[p].steps[i]
    \/ /\ p \in {root, plan}
       /\ plans'[p].steps[i].at # "completed"
       /\ plans'[p].steps[i].at = "waiting" => ~ InPlan'
    \/ /\ StepDone \/ StepSpends
       /\ p = plan /\ i = Current(plan)
       /\ plans'[p].steps[i] = [plans[p].steps[i] EXCEPT !.at = "completed"]

PlansMoved ==
    /\ PlanIds \subseteq PlanIds'
    /\ \A p \in PlanIds :
        /\ DOMAIN plans'[p].steps = DOMAIN plans[p].steps
        /\ \A i \in DOMAIN plans[p].steps : Moved(p, i)
    /\ \A p \in PlanIds' \ PlanIds : \A i \in DOMAIN plans'[p].steps : plans'[p].steps[i].at = "pending"

\* No plan but the one worked on, and of it no step but these.
LEMMA ReworkedMoved ==
  ASSUME TypeInv, NEW p \in PlanIds, Reworked(plans', p),
         \A i \in DOMAIN plans[p].steps : Moved(p, i)
  PROVE  PlansMoved
BY DEF Reworked, PlansMoved, Moved, PlanIds

\* A step of the session moves the steps of the plans in no other way.
LEMMA PlansStep ==
  ASSUME TypeInv, [Next]_vars
  PROVE  PlansMoved
<1> USE DEF Goto
<1>1. ASSUME UNCHANGED plans
      PROVE  PlansMoved
  BY <1>1 DEF PlansMoved, Moved, PlanIds
<1>2. CASE Draft \/ Revise
  <2>1. PICK d \in Drafts : Adopt(d)
    BY <1>2 DEF Draft, Revise
  <2> QED
    BY <2>1, Adopted DEF PlansMoved, Moved
<1>3. CASE ResumePlan
  <2>1. active \in PlanIds /\ plans' = [plans EXCEPT ![active].status = "running"]
    BY <1>3 DEF ResumePlan, TypeInv
  <2>2. Reworked(plans', active) /\ plans'[active].steps = plans[active].steps
    BY <2>1, StatusReworks
  <2> QED
    BY <2>1, <2>2, ReworkedMoved DEF Moved
<1>4. CASE StepDone \/ StepSpends
  <2>1. plan \in PlanIds /\ Undone(plan) # {} /\ plans' = Marked(plan, "completed")
    BY <1>4 DEF StepDone, StepSpends, Working, TypeInv, InPlan
  <2>2. /\ Reworked(plans', plan)
        /\ \A i \in DOMAIN plans[plan].steps : plans'[plan].steps[i] =
               IF i = Current(plan) THEN [plans[plan].steps[i] EXCEPT !.at = "completed"]
               ELSE plans[plan].steps[i]
    BY <2>1, MarkedReworks DEF StepStates
  <2>3. \A i \in DOMAIN plans[plan].steps : Moved(plan, i)
    BY <1>4, <2>2 DEF Moved
  <2> QED
    BY <2>1, <2>2, <2>3, ReworkedMoved
<1>5. ASSUME NEW p \in {root, plan}, InPlan, plans' = Broken(p)
      PROVE  PlansMoved
  <2>1. p \in PlanIds
    BY <1>5 DEF TypeInv
  <2>2. /\ Reworked(plans', p)
        /\ \A i \in DOMAIN plans[p].steps :
                \/ plans'[p].steps[i] = plans[p].steps[i]
                \/ plans'[p].steps[i].at \in {"failed", "skipped"}
    BY <1>5, <2>1, BrokenReworks
  <2>3. \A i \in DOMAIN plans[p].steps : Moved(p, i)
    BY <1>5, <2>2 DEF Moved
  <2> QED
    BY <2>1, <2>2, <2>3, ReworkedMoved
<1>6. ASSUME NEW a \in Actions, StepAsks(a)
      PROVE  PlansMoved
  <2>1. plan \in PlanIds /\ Undone(plan) # {} /\ ~ InPlan'
    BY <1>6, Returns DEF StepAsks, Working, Conclude, TypeInv, InPlan
  <2>2. /\ Reworked(plans', plan)
        /\ \A i \in DOMAIN plans[plan].steps : plans'[plan].steps[i] =
               IF i = Current(plan) THEN [plans[plan].steps[i] EXCEPT !.at = "waiting"]
               ELSE plans[plan].steps[i]
    BY <1>6, <2>1, AskedReworks DEF StepAsks
  <2>3. ASSUME NEW i \in DOMAIN plans[plan].steps
        PROVE  Moved(plan, i)
    <3>1. [plans[plan].steps[i] EXCEPT !.at = "waiting"].at = "waiting"
      BY <2>1, PlanTypes, StepMarked DEF StepStates
    <3> QED
      BY <2>1, <2>2, <3>1 DEF Moved
  <2> QED
    BY <2>1, <2>2, <2>3, ReworkedMoved
<1>7. CASE StepFails
  <2>1. plan \in PlanIds /\ Undone(plan) # {} /\ InPlan
    BY <1>7 DEF StepFails, Working, TypeInv, InPlan
  <2>2. CASE plan = root
    <3>1. plans' = Marked(plan, "running")
      BY <1>7, <2>2 DEF StepFails
    <3>2. /\ Reworked(plans', plan)
          /\ \A i \in DOMAIN plans[plan].steps : plans'[plan].steps[i] =
                 IF i = Current(plan) THEN [plans[plan].steps[i] EXCEPT !.at = "running"]
                 ELSE plans[plan].steps[i]
      BY <2>1, <3>1, MarkedReworks DEF StepStates
    <3>3. ASSUME NEW i \in DOMAIN plans[plan].steps
          PROVE  Moved(plan, i)
      <4>1. [plans[plan].steps[i] EXCEPT !.at = "running"].at = "running"
        BY <2>1, PlanTypes, StepMarked DEF StepStates
      <4> QED
        BY <2>1, <3>2, <4>1 DEF Moved
    <3> QED
      BY <2>1, <3>2, <3>3, ReworkedMoved
  <2>3. CASE plan # root
    BY <1>5, <1>7, <2>1, <2>3 DEF StepFails
  <2> QED
    BY <2>2, <2>3
<1>8. CASE StepRaises \/ NoRevision
  BY <1>5, <1>8 DEF StepRaises, NoRevision, Working, InPlan
<1>9. CASE PlanDone
  <2>1. plan \in PlanIds /\ plans' = [plans EXCEPT ![plan].status = "completed"]
    BY <1>9 DEF PlanDone, TypeInv, InPlan
  <2>2. Reworked(plans', plan) /\ plans'[plan].steps = plans[plan].steps
    BY <2>1, StatusReworks
  <2> QED
    BY <2>1, <2>2, ReworkedMoved DEF Moved
<1> QED
  BY <1>1, <1>2, <1>3, <1>4, <1>6, <1>7, <1>8, <1>9
  DEF Next, Work, vars, Begin, Look, Decide, Expire, HearRejection, ResumeDirect, Route, Fail,
      TimeOut, Generate, CallTool, CallAsks

\* A plan under way was under way, or came from the slot under an approval; a plan in the
\* slot was there, or under way.
LEMMA SlotStep ==
  ASSUME TypeInv, [Next]_vars, NEW p \in PlanIds
  PROVE  /\ p \in {root', plan'} => p \in {root, plan} \/ (p = active /\ Presents("approved"))
         /\ p = active' => p = active \/ p = root
<1> USE DEF Goto, exec
<1>0. p # NoPlan
  BY PlanTypes
<1>1. CASE Begin \/ Look \/ Decide \/ Route \/ CallTool \/ StepDone \/ StepSpends
  BY <1>1 DEF Begin, Look, Decide, Route, CallTool, StepDone, StepSpends, Working, Presents
<1>2. ASSUME Reply(NoAction) \/ Crash, active' \in {active, NoPlan}
      PROVE  /\ p \in {root', plan'} => p \in {root, plan} \/ (p = active /\ Presents("approved"))
             /\ p = active' => p = active \/ p = root
  <2>1. root' = NoPlan /\ plan' = NoPlan
    BY <1>2, Returns
  <2> QED
    BY <1>0, <1>2, <2>1
<1>3. CASE HearRejection \/ Fail \/ TimeOut
  BY <1>2, <1>3 DEF HearRejection, Fail, TimeOut, Presents
<1>4. ASSUME NEW a \in Actions \cup {NoAction}, Conclude(a), pc \in {"plan", "revise"}
      PROVE  /\ p \in {root', plan'} => p \in {root, plan} \/ (p = active /\ Presents("approved"))
             /\ p = active' => p = active \/ p = root
  BY <1>0, <1>4, Returns DEF Conclude, Presents
<1>5. CASE StepRaises \/ NoRevision \/ PlanDone
  BY <1>4, <1>5 DEF StepRaises, NoRevision, PlanDone, Working
<1>6. CASE StepFails
  <2>1. CASE plan = root
    BY <1>6, <2>1 DEF StepFails, Working, Presents
  <2>2. CASE plan # root
    BY <1>4, <1>6, <2>2 DEF StepFails, Working
  <2> QED
    BY <2>1, <2>2
<1>7. CASE \E a \in Actions : StepAsks(a)
  BY <1>4, <1>7 DEF StepAsks, Working
<1>8. CASE \E a \in Actions : CallAsks(a)
  BY <1>0, <1>8, Returns DEF CallAsks, Presents
<1>9. CASE ResumePlan
  BY <1>9 DEF ResumePlan, Presents
<1>10. CASE Draft \/ Revise
  <2>1. PICK d \in Drafts : Adopt(d)
    BY <1>10 DEF Draft, Revise
  <2>2. Len(plans') \notin PlanIds
    BY <2>1, Adopted
  <2> QED
    BY <1>10, <2>2 DEF Draft, Revise, Presents
<1>11. CASE Generate
  <2>1. CASE Reply(NoAction)
    BY <1>2, <1>11, <2>1 DEF Generate, Presents
  <2>2. CASE ~ Reply(NoAction)
    BY <1>11, <2>2 DEF Generate, Presents
  <2> QED
    BY <2>1, <2>2
<1>12. CASE UNCHANGED vars \/ \E a \in Actions : Expire(a)
  BY <1>12 DEF vars, Expire
<1>13. CASE ResumeDirect
  <2>1. CASE Crash
    BY <1>2, <1>13, <2>1 DEF ResumeDirect
  <2>2. CASE ~ Crash
    BY <1>13, <2>2 DEF ResumeDirect
  <2> QED
    BY <2>1, <2>2
<1> QED
  BY <1>1, <1>3, <1>5, <1>6, <1>7, <1>8, <1>9, <1>10, <1>11, <1>12, <1>13 DEF Next, Work

\* A plan under way that holds a waiting step was resumed under an action.
LEMMA WaitingStep ==
  ASSUME TypeInv, WaitingResumed, [Next]_vars
  PROVE  WaitingResumed'
<1> SUFFICES ASSUME InPlan', given' = NoAction,
                    NEW p \in {root', plan'}, NEW i \in DOMAIN plans'[p].steps
             PROVE  plans'[p].steps[i].at # "waiting"
  BY DEF WaitingResumed
<1>1. p \in PlanIds' /\ given = NoAction
  <2>1. TypeInv'
    BY TypeStep
  <2>2. InPlan' => given' = given
    BY DEF Next, Work, vars, Begin, Look, Decide, Expire, HearRejection, ResumePlan, ResumeDirect,
           Route, Draft, Fail, StepDone, StepRaises, StepAsks, StepSpends, StepFails, Revise,
           NoRevision, TimeOut, PlanDone, Generate, CallTool, CallAsks, InPlan, Goto
  <2> QED
    BY <2>1, <2>2 DEF TypeInv
<1>2. PlansMoved
  BY PlansStep
<1>3. CASE p \notin PlanIds
  BY <1>1, <1>2, <1>3 DEF PlansMoved
<1>4. CASE p \in PlanIds
  <2>1. p \in {root, plan}
    BY <1>1, <1>4, SlotStep DEF Presents
  <2>2. i \in DOMAIN plans[p].steps /\ Moved(p, i)
    BY <1>2, <1>4 DEF PlansMoved
  <2>3. InPlan
    BY <1>4, <2>1, PlanTypes DEF TypeInv
  <2>4. plans[p].steps[i].at # "waiting"
    BY <1>1, <2>1, <2>2, <2>3 DEF WaitingResumed
  <2>5. [plans[p].steps[i] EXCEPT !.at = "completed"].at = "completed"
    BY <1>4, <2>2, PlanTypes, StepMarked DEF StepStates
  <2> QED
    BY <2>2, <2>4, <2>5 DEF Moved
<1> QED
  BY <1>3, <1>4

------------------------------------------------------------------------------
(* Cancelled actions.                                                      *)

\* An action keeps its origin once it is recorded, and stays spent once it is.
LEMMA TableStep ==
  ASSUME TypeInv, [Next]_vars, NEW a \in Actions
  PROVE  /\ status[a] # "absent" => origin'[a] = origin[a]
         /\ status[a] # "absent" => status'[a] # "absent"
         /\ status[a] = "executed" => status'[a] = "executed"
<1> DEFINE Goal == /\ status[a] # "absent" => origin'[a] = origin[a]
                   /\ status[a] # "absent" => status'[a] # "absent"
                   /\ status[a] = "executed" => status'[a] = "executed"
<1> USE DEF table, Goto
<1>1. CASE UNCHANGED <<status, origin>>
  BY <1>1
<1>2. ASSUME NEW c \in Calls, NEW b \in Actions, Record(c, b)
      PROVE  Goal
  <2>1. status[b] = "absent" /\ status' = [status EXCEPT ![b] = "pending"]
        /\ \A d \in Actions \ {b} : origin'[d] = origin[d]
    BY <1>2, Recorded
  <2> QED
    BY <2>1 DEF TypeInv
<1>3. ASSUME Approvals!Execute(given) \/ Approvals!Refuse(given), UNCHANGED origin
      PROVE  Goal
  BY <1>3 DEF TypeInv, Approvals!Execute, Approvals!Refuse, Approvals!Refusable, Approvals!Move
<1>4. CASE Decide
  BY <1>4 DEF Decide, TypeInv, Approvals!Decide, Approvals!Decidable, Approvals!Move
<1>5. CASE \E b \in Actions : Expire(b)
  BY <1>5 DEF Expire, TypeInv, Approvals!Expire
<1>6. ASSUME NEW b \in Actions, StepAsks(b) \/ CallAsks(b)
      PROVE  Goal
  <2>1. \E c \in Calls : Record(c, b)
    BY <1>6 DEF StepAsks, CallAsks, Working, Calls
  <2> QED
    BY <1>2, <2>1
<1>7. CASE StepSpends \/ StepFails \/ ResumeDirect
  BY <1>1, <1>3, <1>7 DEF StepSpends, StepFails, ResumeDirect
<1> QED
  BY <1>1, <1>4, <1>5, <1>6, <1>7
  DEF Next, Work, vars, Begin, Look, HearRejection, ResumePlan, Route, Draft, Fail, StepDone,
      StepRaises, Revise, NoRevision, TimeOut, PlanDone, Generate, CallTool

\* The controller cancels for the action it was given, which the user has rejected; no
\* other step cancels, and none takes a cancellation back.
LEMMA CancelledStep ==
  ASSUME [Next]_vars
  PROVE  \/ UNCHANGED cancelled
         \/ HearRejection /\ cancelled' = cancelled \union {given}
BY DEF Next, Work, vars, Begin, Look, Decide, Expire, HearRejection, ResumePlan, ResumeDirect,
       Route, Draft, Fail, StepDone, StepRaises, StepAsks, StepSpends, StepFails, Revise,
       NoRevision, TimeOut, PlanDone, Generate, CallTool, CallAsks

\* The plans of a cancelled action stay where they are of no use.
LEMMA DismissedStep ==
  ASSUME TypeInv, \A a \in cancelled : Dismissed(a), [Next]_vars
  PROVE  \A a \in cancelled' : Dismissed(a)'
<1> TAKE a \in cancelled'
<1>1. CASE a \in cancelled
  <2>1. Dismissed(a)
    BY <1>1
  <2>2. status'[a] # "absent" /\ origin'[a] = origin[a]
    BY <2>1, TableStep DEF Dismissed
  <2>3. ASSUME NEW p \in origin[a].plans
        PROVE  p # root' /\ p # plan' /\ p # active'
    <3>1. p \in PlanIds /\ p # root /\ p # plan /\ p # active
      BY <2>1 DEF Dismissed, TypeInv
    <3> QED
      BY <3>1, SlotStep
  <2> QED
    BY <2>1, <2>2, <2>3 DEF Dismissed
<1>2. CASE a \notin cancelled
  <2>1. HearRejection /\ a = given
    BY <1>2, CancelledStep
  <2>2. a \in Actions /\ status[a] = "rejected"
    BY <2>1 DEF HearRejection, Presents, TypeInv
  <2>3. active' = NoPlan /\ root' = NoPlan /\ plan' = NoPlan
    BY <2>1, Returns DEF HearRejection
  <2>4. status' = status /\ origin' = origin
    BY <2>1 DEF HearRejection, table
  <2>5. \A p \in origin[a].plans : p # NoPlan
    BY <2>2, PlanTypes DEF TypeInv
  <2> QED
    BY <2>2, <2>3, <2>4, <2>5 DEF Dismissed
<1> QED
  BY <1>1, <1>2

------------------------------------------------------------------------------
(* Completed steps and spent approvals.                                    *)

Spent(c) == {a \in Actions : origin[a].call = c /\ status[a] = "executed"}

\* Both sides of the account can be counted.
LEMMA CountsFinite ==
  ASSUME TypeInv, NEW c
  PROVE  IsFiniteSet(CompletedSteps(c)) /\ IsFiniteSet(Spent(c))
<1>1. IsFiniteSet(PlanIds) /\ IsFiniteSet(1 .. MaxSteps + 1) /\ IsFiniteSet(Actions)
  <2>1. \A n \in Nat : IsFiniteSet(1 .. n)
    BY FS_Interval
  <2>2. MaxSteps + 1 \in Nat /\ MaxActions \in Nat
    OBVIOUS
  <2> QED
    BY <2>1, <2>2, PlanTypes DEF Actions
<1>2. IsFiniteSet(PlanIds \X (1 .. MaxSteps + 1))
  BY <1>1, FS_Product
<1> QED
  BY <1>1, <1>2, FS_Subset DEF CompletedSteps, Spent

\* No gated step is completed but the one whose approval is being spent.
LEMMA CompletedStep ==
  ASSUME TypeInv, [Next]_vars, NEW c \in Gated
  PROVE  /\ ~ StepSpends => CompletedSteps(c)' \subseteq CompletedSteps(c)
         /\ StepSpends /\ Step.do # c => CompletedSteps(c)' \subseteq CompletedSteps(c)
         /\ StepSpends => CompletedSteps(c)' \subseteq CompletedSteps(c) \cup {<<plan, Current(plan)>>}
<1> SUFFICES ASSUME NEW s \in CompletedSteps(c)', s \notin CompletedSteps(c)
             PROVE  StepSpends /\ Step.do = c /\ s = <<plan, Current(plan)>>
  OBVIOUS
<1> DEFINE p == s[1]
           i == s[2]
<1>1. /\ s \in PlanIds' \X (1 .. MaxSteps + 1) /\ s = <<p, i>>
      /\ i \in DOMAIN plans'[p].steps /\ plans'[p].steps[i] = [do |-> c, at |-> "completed"]
  BY DEF CompletedSteps
<1> HIDE DEF p, i
<1>2. PlansMoved
  BY PlansStep
<1>3. p \in PlanIds
  BY <1>1, <1>2 DEF PlansMoved
<1>4. i \in DOMAIN plans[p].steps /\ Moved(p, i)
  BY <1>1, <1>2, <1>3 DEF PlansMoved
<1>5. plans'[p].steps[i] # plans[p].steps[i]
  BY <1>1, <1>3, <1>4 DEF CompletedSteps, p, i
<1>6. /\ StepDone \/ StepSpends
      /\ p = plan /\ i = Current(plan)
      /\ plans'[p].steps[i] = [plans[p].steps[i] EXCEPT !.at = "completed"]
  BY <1>1, <1>4, <1>5 DEF Moved
<1>7. Step.do = c
  <2>1. [plans[p].steps[i] EXCEPT !.at = "completed"].do = plans[p].steps[i].do
    BY <1>3, <1>4, PlanTypes, StepMarked DEF StepStates
  <2> QED
    BY <1>1, <1>6, <2>1 DEF Step
<1>8. ~ StepDone
  BY <1>7, CallsAssumption DEF StepDone, Working, Calls
<1> QED
  BY <1>1, <1>6, <1>7, <1>8

\* Each step keeps the account.
LEMMA SpendStep ==
  ASSUME TypeInv, WaitingResumed, StepsSpendApprovals, [Next]_vars
  PROVE  StepsSpendApprovals'
<1> SUFFICES ASSUME NEW c \in Gated
             PROVE  Cardinality(CompletedSteps(c)') <= Cardinality(Spent(c)')
  BY DEF StepsSpendApprovals, Spent
<1>1. Cardinality(CompletedSteps(c)) <= Cardinality(Spent(c))
  BY DEF StepsSpendApprovals, Spent
<1>2. /\ IsFiniteSet(CompletedSteps(c)) /\ IsFiniteSet(Spent(c))
      /\ IsFiniteSet(CompletedSteps(c)') /\ IsFiniteSet(Spent(c)')
  <2>1. IsFiniteSet(CompletedSteps(c)) /\ IsFiniteSet(Spent(c))
    BY CountsFinite
  <2>2. IsFiniteSet(CompletedSteps(c) \cup {<<plan, Current(plan)>>})
    BY <2>1, FS_AddElement
  <2>3. CompletedSteps(c)' \subseteq CompletedSteps(c) \cup {<<plan, Current(plan)>>}
    BY CompletedStep
  <2>4. IsFiniteSet(Actions) /\ Spent(c)' \subseteq Actions
    BY FS_Interval DEF Actions, Spent
  <2> QED
    BY <2>1, <2>2, <2>3, <2>4, FS_Subset
<1>3. /\ Cardinality(CompletedSteps(c)) \in Nat /\ Cardinality(Spent(c)) \in Nat
      /\ Cardinality(CompletedSteps(c)') \in Nat /\ Cardinality(Spent(c)') \in Nat
  BY <1>2, FS_CardinalityType
<1>4. Spent(c) \subseteq Spent(c)'
  BY TableStep DEF Spent
<1>5. CASE CompletedSteps(c)' \subseteq CompletedSteps(c)
  <2>1. Cardinality(CompletedSteps(c)') <= Cardinality(CompletedSteps(c))
    BY <1>2, <1>5, FS_Subset
  <2>2. Cardinality(Spent(c)) <= Cardinality(Spent(c)')
    BY <1>2, <1>4, FS_Subset
  <2> QED
    BY <1>1, <1>3, <2>1, <2>2
<1>6. CASE StepSpends /\ Step.do = c
  <2> DEFINE k == <<plan, Current(plan)>>
  <2>1. CompletedSteps(c)' \subseteq CompletedSteps(c) \cup {k}
    BY <1>6, CompletedStep
  <2>2. given \in Actions
    <3>1. plan \in PlanIds /\ Undone(plan) # {} /\ InPlan /\ Step.at = "waiting"
      BY <1>6 DEF StepSpends, Working, TypeInv, InPlan
    <3>2. Current(plan) \in DOMAIN plans[plan].steps
      BY <3>1, CurrentUndone DEF Undone
    <3> QED
      BY <3>1, <3>2 DEF WaitingResumed, TypeInv, Step
  <2>3. /\ status[given] = "approved" /\ status'[given] = "executed"
        /\ origin'[given].call = c
    BY <1>6, <2>2 DEF StepSpends, Approvals!Execute, Approvals!Move, TypeInv
  <2>4. Spent(c) \cup {given} \subseteq Spent(c)' /\ given \notin Spent(c)
    BY <1>4, <2>2, <2>3 DEF Spent
  <2> HIDE DEF k
  <2>5. /\ IsFiniteSet(CompletedSteps(c) \cup {k})
        /\ Cardinality(CompletedSteps(c) \cup {k}) <= Cardinality(CompletedSteps(c)) + 1
    <3>1. IsFiniteSet(CompletedSteps(c) \cup {k})
      BY <1>2, FS_AddElement
    <3>2. Cardinality(CompletedSteps(c) \cup {k}) \in
            {Cardinality(CompletedSteps(c)), Cardinality(CompletedSteps(c)) + 1}
      BY <1>2, FS_AddElement
    <3> QED
      BY <1>3, <3>1, <3>2
  <2>6. Cardinality(CompletedSteps(c)') <= Cardinality(CompletedSteps(c) \cup {k})
    BY <2>1, <2>5, FS_Subset
  <2>7. Cardinality(Spent(c) \cup {given}) = Cardinality(Spent(c)) + 1
    BY <1>2, <2>4, FS_AddElement
  <2>8. Cardinality(Spent(c) \cup {given}) <= Cardinality(Spent(c)')
    BY <1>2, <2>4, FS_Subset
  <2>9. Cardinality(CompletedSteps(c) \cup {k}) \in Nat /\ Cardinality(Spent(c) \cup {given}) \in Nat
    BY <1>3, <2>5, <2>7, FS_CardinalityType
  <2> QED
    BY <1>1, <1>3, <2>5, <2>6, <2>7, <2>8, <2>9
<1> QED
  BY <1>5, <1>6, CompletedStep

------------------------------------------------------------------------------
(* The theorems.                                                           *)

\* The session starts in order ...
LEMMA SessionStarts ==
  ASSUME Init
  PROVE  SessionInv
<1> USE DEF Init, Approvals!Init
<1>1. PlanIds = {} /\ plans \in Seq(PlanObject) /\ todo \in Seq(Calls)
  BY DEF PlanIds
<1>2. TypeInv
  <2>1. status \in [Actions -> Statuses]
    BY DEF Statuses
  <2>2. origin \in [Actions -> [call : Calls \cup {Think}, turn : Nat, plans : SUBSET PlanIds]]
    OBVIOUS
  <2>3. /\ active = NoPlan /\ last = NoAction /\ given = NoAction /\ pc = "idle"
        /\ turn = 0 /\ round = 0 /\ resumed = FALSE /\ tried = {}
        /\ root = NoPlan /\ plan = NoPlan
    OBVIOUS
  <2> HIDE DEF Init, Approvals!Init
  <2>4. round \in 0 .. MaxRounds
    BY <2>3
  <2>5. turn \in Nat /\ resumed \in BOOLEAN
    BY <2>3
  <2>6. tried \in SUBSET Calls
    BY <2>3
  <2> QED
    BY <1>1, <2>1, <2>2, <2>3, <2>4, <2>5, <2>6 DEF TypeInv, InPlan
<1>3. WaitingResumed /\ LastIsOwn /\ AsksForOwnAction /\ \A a \in cancelled : Dismissed(a)
  BY DEF WaitingResumed, InPlan, LastIsOwn, AsksForOwnAction, Dismissed
<1>4. StepsSpendApprovals
  <2> SUFFICES ASSUME NEW c \in Gated
               PROVE  Cardinality(CompletedSteps(c)) <= Cardinality(Spent(c))
    BY DEF StepsSpendApprovals, Spent
  <2>1. CompletedSteps(c) = {}
    BY <1>1 DEF CompletedSteps
  <2> QED
    BY <1>2, <2>1, CountsFinite, FS_CardinalityType, FS_EmptySet
<1> QED
  BY <1>2, <1>3, <1>4 DEF SessionInv

\* ... and every step leaves it in order.
LEMMA SessionStep ==
  ASSUME SessionInv, [Next]_vars
  PROVE  SessionInv'
BY TypeStep, WaitingStep, OwnStep, DismissedStep, SpendStep DEF SessionInv

\* The inductive invariant: it holds in every reachable state.
THEOREM SessionAlways == Spec => []SessionInv
<1>1. Init => SessionInv
  BY SessionStarts
<1>2. SessionInv /\ [Next]_vars => SessionInv'
  BY SessionStep
<1> QED
  BY <1>1, <1>2, PTL DEF Spec

\* The session's variables keep their types: the slot, the executor and the approvals refer
\* to plans there are, and the tool loop keeps to its iterations.
THEOREM TypeCorrect == Spec => []TypeOK
<1>1. SessionInv => TypeOK
  BY TypeInvOK DEF SessionInv, Dismissed
<1> QED
  BY <1>1, SessionAlways, PTL

\* Across suspensions, revisions and resumptions, every completed step that needs
\* confirmation is covered by an approval of its own, spent on the same call.
THEOREM StepsAreApproved == Spec => []StepsSpendApprovals
<1>1. SessionInv => StepsSpendApprovals
  BY DEF SessionInv
<1> QED
  BY <1>1, SessionAlways, PTL

\* The front end asks about an action of the turn it serves, not decided before.
THEOREM AsksOwn == Spec => []AsksForOwnAction
<1>1. SessionInv => AsksForOwnAction
  BY DEF SessionInv
<1> QED
  BY <1>1, SessionAlways, PTL

\* A plan takes no step any more once the controller has cancelled for the rejection of an
\* action it was suspended for.
THEOREM CancelledPlansRest == Spec => CancelledForGood
<1>1. ASSUME SessionInv, [Next]_vars, NEW a \in cancelled,
             NEW p \in origin[a].plans
      PROVE  plans'[p].steps = plans[p].steps
  <2>1. TypeInv /\ TypeInv' /\ PlansMoved
    BY <1>1, TypeStep, PlansStep DEF SessionInv
  <2>2. p \in PlanIds /\ p # root /\ p # plan
    BY <1>1, <2>1 DEF SessionInv, TypeInv, Dismissed
  <2>3. p \in PlanIds' /\ DOMAIN plans'[p].steps = DOMAIN plans[p].steps
    BY <2>1, <2>2 DEF PlansMoved
  <2>4. \A i \in DOMAIN plans[p].steps : plans'[p].steps[i] = plans[p].steps[i]
    BY <2>1, <2>2 DEF PlansMoved, Moved
  <2>5. /\ plans[p].steps \in Seq(PlanStep) /\ DOMAIN plans[p].steps = 1 .. Len(plans[p].steps)
        /\ plans'[p].steps \in Seq(PlanStep) /\ DOMAIN plans'[p].steps = 1 .. Len(plans'[p].steps)
        /\ Len(plans[p].steps) \in Nat /\ Len(plans'[p].steps) \in Nat
    BY <2>1, <2>2, <2>3, ObjectTypes DEF TypeInv, PlanIds
  <2>6. Len(plans'[p].steps) = Len(plans[p].steps)
    BY <2>3, <2>5
  <2> QED
    BY <2>4, <2>5, <2>6, SeqEqual
<1>2. SessionInv /\ [Next]_vars =>
        [\A a \in cancelled : Rests(a)]_vars
  BY <1>1 DEF Rests
<1> QED
  BY <1>2, SessionAlways, PTL DEF Spec, CancelledForGood

------------------------------------------------------------------------------
(***************************************************************************)
(* VoiceTurn: the detector's invariant, for any limits and any frames      *)
(* whose times do not go back.  A recording that completes is an utterance *)
(* or was cut off, and neither the wait for speech nor an utterance        *)
(* outlasts its limit by more than the time between two frames.            *)
(***************************************************************************)
Limit == [wait : Nat, minSpeech : Nat, maxUtterance : Nat, endSilence : Nat]
Vad   == [state   : {"WAITING_FOR_SPEECH", "SPEECH_ACTIVE", "COMPLETE", "TIMEOUT"},
          start   : Nat,
          speech  : Nat \union {None},
          silence : Nat \union {None}]
Going(vad) == vad.state \in {"WAITING_FOR_SPEECH", "SPEECH_ACTIVE"}

\* A detector that was just reset satisfies the invariant.
LEMMA FreshIsOK ==
    ASSUME NEW limits \in Limit, NEW now \in Nat
    PROVE  FreshVad(now) \in Vad /\ VadOK(limits, FreshVad(now), now) /\ Going(FreshVad(now))
BY SMT DEF FreshVad, VadOK, Limit, Vad, None, Going

\* process_frame in SPEECH_ACTIVE, below the threshold and within the limit: the
\* silence begins, goes on, completes the utterance or unmasks a noise.
LEMMA SilenceKeepsInvariant ==
    ASSUME NEW limits \in Limit, NEW vad \in Vad, NEW now \in Nat, NEW before \in Nat, before <= now,
           VadOK(limits, vad, before), vad.state = "SPEECH_ACTIVE",
           now - vad.speech <= limits.maxUtterance
    PROVE  EndOfSpeech(limits, vad, now) \in Vad /\ VadOK(limits, EndOfSpeech(limits, vad, now), now)
<1> DEFINE next == EndOfSpeech(limits, vad, now)
<1>1. CASE vad.silence = None
  <2>1. next = [vad EXCEPT !.silence = now]
    BY <1>1 DEF EndOfSpeech
  <2> QED
    BY <1>1, <2>1, SMT DEF VadOK, Limit, Vad, None
<1>2. CASE vad.silence # None /\ now - vad.silence < limits.endSilence
  <2>1. next = vad
    BY <1>2 DEF EndOfSpeech
  <2> QED
    BY <1>2, <2>1, SMT DEF VadOK, Limit, Vad, None
<1>3. CASE /\ vad.silence # None /\ ~ (now - vad.silence < limits.endSilence)
           /\ vad.silence - vad.speech >= limits.minSpeech
  <2>1. next = [vad EXCEPT !.state = "COMPLETE"]
    BY <1>3 DEF EndOfSpeech
  <2> QED
    BY <1>3, <2>1, SMT DEF VadOK, Limit, Vad, None
<1>4. CASE /\ vad.silence # None /\ ~ (now - vad.silence < limits.endSilence)
           /\ ~ (vad.silence - vad.speech >= limits.minSpeech)
  <2>1. next = FreshVad(now)
    BY <1>4 DEF EndOfSpeech
  <2> QED
    BY <2>1, FreshIsOK
<1> QED
  BY <1>1, <1>2, <1>3, <1>4

\* Every frame that process_frame looks at keeps the detector's invariant.
THEOREM FrameKeepsInvariant ==
    ASSUME NEW limits \in Limit, NEW vad \in Vad, NEW before \in Nat, VadOK(limits, vad, before),
           Going(vad), NEW frame \in [at : Nat, loud : BOOLEAN], before <= frame.at
    PROVE  /\ ProcessFrame(limits, vad, frame) \in Vad
           /\ VadOK(limits, ProcessFrame(limits, vad, frame), frame.at)
<1> DEFINE next == ProcessFrame(limits, vad, frame)
           now  == frame.at
<1>1. CASE vad.state = "WAITING_FOR_SPEECH"
  <2>1. next = IF now - vad.start > limits.wait THEN [vad EXCEPT !.state = "TIMEOUT"]
               ELSE IF frame.loud THEN [vad EXCEPT !.state = "SPEECH_ACTIVE", !.speech = now]
               ELSE vad
    BY <1>1 DEF ProcessFrame
  <2>2. CASE now - vad.start > limits.wait
    BY <1>1, <2>1, <2>2, SMT DEF VadOK, Limit, Vad, None
  <2>3. CASE ~ (now - vad.start > limits.wait) /\ frame.loud
    <3>1. next = [vad EXCEPT !.state = "SPEECH_ACTIVE", !.speech = now]
      BY <2>1, <2>3
    <3>2. /\ vad.start \in 0 .. before /\ vad.silence = None /\ now \in Nat
          /\ now - vad.start <= limits.wait
      BY <1>1, <2>3, SMT DEF VadOK, Limit, Vad
    <3>3. /\ next.state = "SPEECH_ACTIVE" /\ next.speech = now /\ next.silence = None
          /\ next.start = vad.start /\ next \in Vad
      BY <3>1, <3>2 DEF Vad
    <3> HIDE DEF next
    <3> QED
      BY <3>2, <3>3, SMT DEF VadOK, Limit, Vad, next
  <2>4. CASE ~ (now - vad.start > limits.wait) /\ ~ frame.loud
    BY <1>1, <2>1, <2>4, SMT DEF VadOK, Limit, Vad, None
  <2> QED
    BY <2>2, <2>3, <2>4
<1>2. CASE vad.state = "SPEECH_ACTIVE"
  <2>1. next = IF now - vad.speech > limits.maxUtterance THEN [vad EXCEPT !.state = "COMPLETE"]
               ELSE IF frame.loud THEN [vad EXCEPT !.silence = None]
               ELSE EndOfSpeech(limits, vad, now)
    BY <1>2 DEF ProcessFrame
  <2>2. CASE now - vad.speech > limits.maxUtterance
    BY <1>2, <2>1, <2>2, SMT DEF VadOK, Limit, Vad, None
  <2>3. CASE ~ (now - vad.speech > limits.maxUtterance) /\ frame.loud
    BY <1>2, <2>1, <2>3, SMT DEF VadOK, Limit, Vad, None
  <2>4. CASE ~ (now - vad.speech > limits.maxUtterance) /\ ~ frame.loud
    <3>1. now - vad.speech <= limits.maxUtterance /\ now \in Nat
      BY <1>2, <2>4, SMT DEF VadOK, Limit, Vad, None
    <3>2. next = EndOfSpeech(limits, vad, now)
      BY <2>1, <2>4
    <3> QED
      BY <1>2, <3>1, <3>2, SilenceKeepsInvariant
  <2> QED
    BY <2>2, <2>3, <2>4
<1> QED
  BY <1>1, <1>2 DEF Going
===============================================================================
