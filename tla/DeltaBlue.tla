------------------------------ MODULE DeltaBlue -----------------------------
(***************************************************************************)
(* own/deltablue.py: an incremental planner for one-way constraints on     *)
(* variables, and the two tests that drive it, chain_test(n) and           *)
(* projection_test(n), for every n up to MaxSize.  A step is one call or   *)
(* one turn of a loop of the planner.                                      *)
(***************************************************************************)
EXTENDS Integers, Sequences, SequencesExt

CONSTANTS MaxSize, Rounds, None


\* Strength: a smaller number is stronger
REQUIRED == 0
PREFERRED == 2
STRONG_DEFAULT == 3
NORMAL == 4
WEAKEST == 6

Scale  == <<"scale", 0>>
Offset == <<"offset", 0>>
Variables == ({"v"} \X (0..MaxSize)) \union ({"src", "dst"} \X (0..(MaxSize - 1)))
               \union {Scale, Offset}

\* a constraint: its class, and the variable it is named after
Stay(v) == <<"stay", v[1], v[2]>>
Edit(v) == <<"edit", v[1], v[2]>>
Equality(i) == <<"equality", "v", i>>        \* of v(i-1) and v(i)
ScaleOf(i) == <<"scale", "src", i>>          \* of src(i) and dst(i)
Constraints == {Stay(v) : v \in Variables} \union {Edit(v) : v \in Variables}
                 \union {Equality(i) : i \in 1..MaxSize} \union {ScaleOf(i) : i \in 0..(MaxSize - 1)}
ASSUME DeltaBlueAssumption == /\ MaxSize \in Nat \ {0}
                              /\ Rounds \in Nat
                              /\ None \notin Constraints

Class(c) == c[1]
Unary(c) == Class(c) \in {"stay", "edit"}
Named(c) == <<c[2], c[3]>>

V1(c) == IF Class(c) = "equality" THEN <<"v", c[3] - 1>> ELSE <<"src", c[3]>>
V2(c) == IF Class(c) = "equality" THEN <<"v", c[3]>> ELSE <<"dst", c[3]>>

\* the variables that add_to_graph adds c to
VariablesOf(c) == CASE Unary(c) -> {Named(c)}
                    [] Class(c) = "equality" -> {V1(c), V2(c)}
                    [] Class(c) = "scale" -> {V1(c), V2(c), Scale, Offset}

Strength(c) == CASE Class(c) = "edit" -> PREFERRED
                 [] Class(c) = "stay" -> IF c[2] = "v" THEN STRONG_DEFAULT ELSE NORMAL
                 [] OTHER -> REQUIRED

-----------------------------------------------------------------------------
(* The tests: the planner's clients. *)

New(c)     == [op |-> "new", constraint |-> c, value |-> 0]
Plan(c)    == [op |-> "plan", constraint |-> c, value |-> 0]
Set(c, x)  == [op |-> "set", constraint |-> c, value |-> x]
Destroy(c) == [op |-> "destroy", constraint |-> c, value |-> 0]

Chain(n) == [i \in 1..n |-> New(Equality(i))]
              \o <<New(Stay(<<"v", n>>)), New(Edit(<<"v", 0>>)), Plan(Edit(<<"v", 0>>))>>
              \o [i \in 1..Rounds |-> Set(Edit(<<"v", 0>>), i - 1)]

Change(v, x) == <<New(Edit(v)), Plan(Edit(v)), Set(Edit(v), x), Destroy(Edit(v))>>

Projection(n) == [i \in 1..(2 * n) |-> IF i % 2 = 1 THEN New(Stay(<<"src", (i - 1) \div 2>>))
                                                  ELSE New(ScaleOf((i - 2) \div 2))]
                   \o Change(<<"src", n - 1>>, 17) \o Change(<<"dst", n - 1>>, 1050)
                   \o Change(Scale, 5) \o Change(Offset, 2000)

Tests == {"chain", "projection"}

VARIABLES test, size,   \* the test that runs and its n
          script,       \* what is left of it
          var,          \* the Variables: value, walk_strength and stay
          mark,         \* mark[v]
          determinedBy, \* determined_by
          constraints,  \* constraints[v]: those on v, in the order they came
          direction,    \* direction[c], "forward" for a unary one that is satisfied
          currentMark,
          pc,           \* where the planner is
          focus,        \* the constraint to satisfy
          overridden,   \* the one that was overridden for it, or None
          todo,         \* the list of the loop that is at work
          unsatisfied,  \* what incremental_remove has to satisfy again
          at,           \* the next of them, 0 when incremental_remove is not at work
          strength,     \* the strength it is at
          plan

client == <<test, size>>
graph == <<determinedBy, constraints, direction>>
removal == <<unsatisfied, at, strength>>
vars == <<client, script, var, mark, graph, currentMark, pc, focus, overridden, todo, removal, plan>>

InitialValue(v) == CASE v = Scale -> 10 [] v = Offset -> 1000
                     [] v[1] = "v" -> 0 [] OTHER -> v[2]

Init == /\ test \in Tests /\ size \in 1..MaxSize
        /\ script = IF test = "chain" THEN Chain(size) ELSE Projection(size)
        /\ var = [v \in Variables |-> [value |-> InitialValue(v), walk |-> WEAKEST, stay |-> TRUE]]
        /\ mark = [v \in Variables |-> 0]
        /\ determinedBy = [v \in Variables |-> None]
        /\ constraints = [v \in Variables |-> <<>>]
        /\ direction = [c \in Constraints |-> "none"]
        /\ currentMark = 0
        /\ pc = "script"
        /\ focus = None
        /\ overridden = None
        /\ todo = <<>>
        /\ unsatisfied = <<>>
        /\ at = 0
        /\ strength = REQUIRED
        /\ plan = <<>>

-----------------------------------------------------------------------------
Satisfied(c) == direction[c] # "none"

InputOf(c, d)  == IF d = "forward" THEN V1(c) ELSE V2(c)
OutputOf(c, d) == IF Unary(c) THEN Named(c) ELSE IF d = "forward" THEN V2(c) ELSE V1(c)
Input(c)  == InputOf(c, direction[c])
Output(c) == OutputOf(c, direction[c])

Stronger(s1, s2) == s1 < s2
Weaker(s1, s2) == s1 > s2
WeakestOf(s1, s2) == IF Weaker(s1, s2) THEN s1 ELSE s2

NextWeaker(s) == CASE s = 0 -> WEAKEST [] s = 1 -> 5 [] s = 2 -> NORMAL
                   [] s = 3 -> STRONG_DEFAULT [] s = 4 -> PREFERRED [] s = 5 -> REQUIRED

(* choose_method.  What the marks of a binary constraint's variables say   *)
(* is overwritten by the comparison of their strengths.                    *)
Method(c) ==
  IF Unary(c)
    THEN IF mark[Named(c)] # currentMark /\ Stronger(Strength(c), var[Named(c)].walk)
           THEN "forward" ELSE "none"
    ELSE LET walk1 == var[V1(c)].walk
             walk2 == var[V2(c)].walk
         IN  CASE Weaker(walk1, walk2) /\ Stronger(Strength(c), walk1) -> "backward"
               [] Weaker(walk1, walk2) /\ ~Stronger(Strength(c), walk1) -> "none"
               [] ~Weaker(walk1, walk2) /\ Stronger(Strength(c), walk2) -> "forward"
               [] OTHER -> "backward"

\* the variables that mark_inputs marks
InputsOf(c, d) == IF Unary(c) THEN {}
                  ELSE {InputOf(c, d)} \union (IF Class(c) = "scale" THEN {Scale, Offset} ELSE {})

(* execute, on variables x *)
Execute(x, c) ==
  CASE Unary(c) -> x
    [] Class(c) = "equality" -> [x EXCEPT ![Output(c)].value = x[Input(c)].value]
    [] Class(c) = "scale" ->
         [x EXCEPT ![Output(c)].value =
            IF direction[c] = "forward"
              THEN x[V1(c)].value * x[Scale].value + x[Offset].value
              ELSE (x[V2(c)].value - x[Offset].value) \div x[Scale].value]

\* walk_strength and stay of the output of c
Walk(x, c) == IF Unary(c) THEN Strength(c) ELSE WeakestOf(Strength(c), x[Input(c)].walk)
Stays(x, c) == IF Unary(c) THEN Class(c) # "edit"
               ELSE \A v \in InputsOf(c, direction[c]) : x[v].stay

(* Defect: a scale constraint looks at its input alone. *)
RecalculateInput(x, c) ==
  LET stays == IF Unary(c) THEN Class(c) # "edit" ELSE x[Input(c)].stay
      y == [x EXCEPT ![Output(c)].walk = Walk(x, c), ![Output(c)].stay = stays]
  IN  IF stays THEN Execute(y, c) ELSE y

(* Defect: the value is left to the plan. *)
RecalculateOnly(x, c) == [x EXCEPT ![Output(c)].walk = Walk(x, c), ![Output(c)].stay = Stays(x, c)]

Recalculate(x, c) ==
  LET y == [x EXCEPT ![Output(c)].walk = Walk(x, c), ![Output(c)].stay = Stays(x, c)]
  IN  IF Stays(x, c) THEN Execute(y, c) ELSE y

(* What s has of S, in its order. *)
Among(s, S) ==
  LET among[i \in 0..Len(s)] == CASE i = 0 -> <<>>
                                  [] i > 0 /\ s[i] \in S -> Append(among[i - 1], s[i])
                                  [] OTHER -> among[i - 1]
  IN  among[Len(s)]

(* add_constraints_consuming_to *)
Consumers(v) == Among(constraints[v], {c \in Constraints : c # determinedBy[v] /\ Satisfied(c)})

(* Each of the constraints cs is recalculated, or executed, in turn. *)
RecalculateAll(x, cs) ==
  LET after[i \in 0..Len(cs)] == IF i = 0 THEN x ELSE Recalculate(after[i - 1], cs[i])
  IN  after[Len(cs)]
ExecuteAll(x, cs) ==
  LET after[i \in 0..Len(cs)] == IF i = 0 THEN x ELSE Execute(after[i - 1], cs[i])
  IN  after[Len(cs)]

-----------------------------------------------------------------------------
Asks(op) == pc = "script" /\ script # <<>> /\ Head(script).op = op
Asked == Head(script).constraint

\* incremental_add(c) begins
StartAdd(c) == /\ currentMark' = currentMark + 1
               /\ focus' = c
               /\ pc' = "satisfy"

\* incremental_add ends: back to the test or to incremental_remove
EndAdd == pc' = IF at = 0 THEN "script" ELSE "weaker"

(* A constraint is made: add_to_graph and incremental_add. *)
NewConstraint == /\ Asks("new")
                 /\ constraints' = [v \in Variables |->
                      IF v \in VariablesOf(Asked) THEN Append(constraints[v], Asked) ELSE constraints[v]]
                 /\ direction' = [direction EXCEPT ![Asked] = "none"]
                 /\ StartAdd(Asked)
                 /\ script' = Tail(script)
                 /\ UNCHANGED <<client, var, mark, determinedBy, overridden, todo, removal, plan>>

(* satisfy, when no method is chosen *)
NotSatisfied == /\ pc = "satisfy" /\ Method(focus) = "none"
                /\ direction' = [direction EXCEPT ![focus] = "none"]
                /\ overridden' = None
                /\ EndAdd
                /\ UNCHANGED <<client, script, var, mark, determinedBy, constraints, currentMark, focus,
                               todo, removal, plan>>

(* Defect: the constraint that is overridden keeps its direction. *)
SatisfyKeeps ==
  /\ pc = "satisfy" /\ Method(focus) # "none"
  /\ LET d == Method(focus)
         out == OutputOf(focus, d)
     IN  /\ direction' = [direction EXCEPT ![focus] = d]
         /\ mark' = [v \in Variables |-> IF v \in InputsOf(focus, d) THEN currentMark ELSE mark[v]]
         /\ overridden' = determinedBy[out]
         /\ determinedBy' = [determinedBy EXCEPT ![out] = focus]
  /\ todo' = <<focus>>
  /\ pc' = "propagate"
  /\ UNCHANGED <<client, script, var, constraints, currentMark, focus, removal, plan>>

(* satisfy, up to add_propagate *)
Satisfy ==
  /\ pc = "satisfy" /\ Method(focus) # "none"
  /\ LET d == Method(focus)
         out == OutputOf(focus, d)
     IN  /\ direction' = [c \in Constraints |-> CASE c = focus -> d
                                                [] c = determinedBy[out] -> "none"
                                                [] OTHER -> direction[c]]
         /\ mark' = [v \in Variables |-> IF v \in InputsOf(focus, d) THEN currentMark ELSE mark[v]]
         /\ overridden' = determinedBy[out]
         /\ determinedBy' = [determinedBy EXCEPT ![out] = focus]
  /\ todo' = <<focus>>
  /\ pc' = "propagate"
  /\ UNCHANGED <<client, script, var, constraints, currentMark, focus, removal, plan>>

(* add_propagate: one turn.  At a cycle the model stops. *)
AddPropagate ==
  /\ pc = "propagate" /\ todo # <<>>
  /\ LET d == Head(todo)
     IN  IF mark[Output(d)] = currentMark
           THEN pc' = "cycle" /\ UNCHANGED <<var, todo>>
           ELSE /\ var' = Recalculate(var, d)
                /\ todo' = Tail(todo) \o Consumers(Output(d))
                /\ UNCHANGED pc
  /\ UNCHANGED <<client, script, mark, graph, currentMark, focus, overridden, removal, plan>>

(* the end of satisfy: the constraint that was overridden is next *)
Propagated ==
  /\ pc = "propagate" /\ todo = <<>>
  /\ mark' = [mark EXCEPT ![Output(focus)] = currentMark]
  /\ IF overridden = None THEN EndAdd /\ UNCHANGED focus
                          ELSE pc' = "satisfy" /\ focus' = overridden
  /\ UNCHANGED <<client, script, var, graph, currentMark, overridden, todo, removal, plan>>

-----------------------------------------------------------------------------
(* destroy_constraint, up to remove_propagate_from *)
DestroyConstraint ==
  /\ Asks("destroy")
  /\ direction' = [direction EXCEPT ![Asked] = "none"]
  /\ constraints' = [v \in Variables |->
       IF v \in VariablesOf(Asked) THEN RemoveFirst(constraints[v], Asked) ELSE constraints[v]]
  /\ determinedBy' = [v \in Variables |-> IF determinedBy[v] = Asked THEN None ELSE determinedBy[v]]
  /\ IF Satisfied(Asked)
       THEN /\ var' = [var EXCEPT ![Output(Asked)].walk = WEAKEST, ![Output(Asked)].stay = TRUE]
            /\ todo' = <<Output(Asked)>>
            /\ unsatisfied' = <<>>
            /\ at' = 1
            /\ strength' = REQUIRED
            /\ pc' = "remove"
       ELSE UNCHANGED <<var, todo, removal, pc>>
  /\ script' = Tail(script)
  /\ UNCHANGED <<client, mark, currentMark, focus, overridden, plan>>

(* remove_propagate_from: one turn *)
RemovePropagate ==
  /\ pc = "remove" /\ todo # <<>>
  /\ LET v == Head(todo)
     IN  /\ unsatisfied' = unsatisfied \o Among(constraints[v], {c \in Constraints : ~Satisfied(c)})
         /\ var' = RecalculateAll(var, Consumers(v))
         /\ todo' = Tail(todo) \o [i \in DOMAIN Consumers(v) |-> Output(Consumers(v)[i])]
  /\ UNCHANGED <<client, script, mark, graph, currentMark, pc, focus, overridden, at, strength, plan>>

RemovePropagated == /\ pc = "remove" /\ todo = <<>>
                    /\ pc' = "again"
                    /\ UNCHANGED <<client, script, var, mark, graph, currentMark, focus, overridden, todo,
                                   removal, plan>>

Weaken == /\ IF strength = WEAKEST
               THEN pc' = "keyError" /\ UNCHANGED <<at, strength>>
               ELSE pc' = "again" /\ at' = at + 1 /\ strength' = NextWeaker(strength)
          /\ UNCHANGED <<currentMark, focus>>

(* incremental_remove: one turn of its for loop, which satisfies a         *)
(* constraint of the strength it is at and then weakens the strength.      *)
SatisfyAgain ==
  /\ pc = "weaker" \/ (pc = "again" /\ at <= Len(unsatisfied))
  /\ IF pc = "again" /\ Strength(unsatisfied[at]) = strength
       THEN StartAdd(unsatisfied[at]) /\ UNCHANGED <<at, strength>>
       ELSE Weaken
  /\ UNCHANGED <<client, script, var, mark, graph, overridden, todo, unsatisfied, plan>>

(* Defect: repeats as long as there is a constraint to satisfy. *)
RepeatAlways == /\ pc = "again" /\ at > Len(unsatisfied)
                /\ at' = IF unsatisfied # <<>> THEN 1 ELSE 0
                /\ pc' = IF unsatisfied # <<>> THEN "again" ELSE "script"
                /\ UNCHANGED <<client, script, var, mark, graph, currentMark, focus, overridden, todo,
                               unsatisfied, strength, plan>>

(* the end of the for loop: do-while *)
Repeat == /\ pc = "again" /\ at > Len(unsatisfied)
          /\ at' = IF strength # WEAKEST THEN 1 ELSE 0
          /\ pc' = IF strength # WEAKEST THEN "again" ELSE "script"
          /\ UNCHANGED <<client, script, var, mark, graph, currentMark, focus, overridden, todo,
                         unsatisfied, strength, plan>>

-----------------------------------------------------------------------------
(* extract_plan_from_constraints, of one edit constraint *)
ExtractPlan == /\ Asks("plan")
               /\ currentMark' = currentMark + 1
               /\ todo' = IF Satisfied(Asked) THEN <<Asked>> ELSE <<>>
               /\ plan' = <<>>
               /\ pc' = "plan"
               /\ script' = Tail(script)
               /\ UNCHANGED <<client, var, mark, graph, focus, overridden, removal>>

InputsKnown(c) == Unary(c) \/ LET i == Input(c)
                              IN  mark[i] = currentMark \/ var[i].stay \/ determinedBy[i] = None

(* make_plan: one turn *)
MakePlan ==
  /\ pc = "plan" /\ todo # <<>>
  /\ LET c == Head(todo)
     IN  IF mark[Output(c)] # currentMark /\ InputsKnown(c)
           THEN /\ plan' = Append(plan, c)
                /\ mark' = [mark EXCEPT ![Output(c)] = currentMark]
                /\ todo' = Tail(todo) \o Consumers(Output(c))
           ELSE todo' = Tail(todo) /\ UNCHANGED <<plan, mark>>
  /\ UNCHANGED <<client, script, var, graph, currentMark, pc, focus, overridden, removal>>

PlanMade == /\ pc = "plan" /\ todo = <<>>
            /\ pc' = "script"
            /\ UNCHANGED <<client, script, var, mark, graph, currentMark, focus, overridden, todo, removal, plan>>

(* The test sets the edited variable and executes the plan; the ten times  *)
(* of change() are one.                                                    *)
SetValue == /\ Asks("set")
            /\ var' = ExecuteAll([var EXCEPT ![Named(Asked)].value = Head(script).value], plan)
            /\ script' = Tail(script)
            /\ UNCHANGED <<client, mark, graph, currentMark, pc, focus, overridden, todo, removal, plan>>

Next == \/ NewConstraint \/ NotSatisfied \/ Satisfy \/ AddPropagate \/ Propagated
        \/ DestroyConstraint \/ RemovePropagate \/ RemovePropagated \/ SatisfyAgain \/ Repeat
        \/ ExtractPlan \/ MakePlan \/ PlanMade \/ SetValue

Spec == Init /\ [][Next]_vars /\ WF_vars(Next)

-----------------------------------------------------------------------------
(* The two ways in which the planner records its graph agree at every      *)
(* step: a constraint is satisfied exactly if it determines its output.    *)
(* No variable has two constraints that both believe to determine it.      *)
Determined == \A c \in Constraints, v \in Variables :
  determinedBy[v] = c <=> Satisfied(c) /\ Output(c) = v

Idle == pc = "script"

(* Whenever the planner is idle, the strength that each variable shows to  *)
(* its neighbours and its stay flag are what its constraint makes of them, *)
(* although every change recalculates only what is downstream of it.       *)
AnnotationsCurrent == Idle => \A v \in Variables :
  IF determinedBy[v] = None
    THEN var[v].walk = WEAKEST /\ var[v].stay
    ELSE /\ var[v].walk = Walk(var, determinedBy[v])
         /\ var[v].stay = Stays(var, determinedBy[v])

(* Whenever the planner is idle, the equation of each satisfied constraint *)
(* holds: the plan of an edit has executed all that the edit has changed.  *)
EquationsHold == Idle => \A c \in Constraints :
  Satisfied(c) => Execute(var, c) = var

(* The planner comes to an end with every call of the tests, never at a    *)
(* cycle or a KeyError.                                                    *)
Ends == <>(Idle /\ script = <<>>)

(* incremental_remove satisfies again what the removed constraint kept     *)
(* from being satisfied: an idle planner leaves no unary constraint out    *)
(* that is stronger than what determines its variable.                     *)
SatisfiedAgain == Idle => \A v \in Variables : \A i \in DOMAIN constraints[v] :
  LET c == constraints[v][i]
  IN  Unary(c) /\ ~Satisfied(c) => ~Stronger(Strength(c), var[v].walk)
=============================================================================
