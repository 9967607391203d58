----------------------------- MODULE StartupProofs -----------------------------
(***************************************************************************)
(* A manager runs with everything set up, or not at all, for every set of  *)
(* controllers, providers, registrations and faults; the first flag that   *)
(* names a controller decides about it, in every list of flags; and the    *)
(* indexes of an MCI list what it refers to, in order.                     *)
(***************************************************************************)
EXTENDS MCStartup, FiniteSetTheorems, SequenceTheorems, WellFoundedInduction,
        TLAPS

-----------------------------------------------------------------------------
\* A set of numbers that is not empty has a least one.
LEMMA Least ==
  ASSUME NEW T \in SUBSET Nat, T # {}
  PROVE  \E x \in T : \A y \in T : x <= y
<1> DEFINE R == OpToRel(<, Nat)
<1>1. IsWellFoundedOn(R, Nat)
  BY NatLessThanWellFounded
<1>2. \A x, y \in Nat : <<y, x>> \in R <=> y < x
  BY DEF OpToRel
<1> HIDE DEF R
<1>3. PICK x \in T : \A y \in T : ~ (<<y, x>> \in R)
  BY <1>1, WFMin
<1>4. ASSUME NEW y \in T PROVE x <= y
  <2>1. x \in Nat /\ y \in Nat
    OBVIOUS
  <2>2. ~(y < x)
    BY <1>2, <1>3, <2>1
  <2> QED BY <2>1, <2>2
<1> QED BY <1>4

\* The loop of IsControllerEnabled is defined for every list of flags.
LEMMA Loop ==
  ASSUME NEW name, NEW flags, Len(flags) \in Nat
  PROVE  \E loop :
           /\ loop = [i \in 0 .. Len(flags) |->
                        IF i = 0 THEN [result |-> "none", hasStar |-> FALSE]
                        ELSE Visit(loop[i - 1], name, flags[i])]
           /\ Seen(name, flags) = loop[Len(flags)]
<1> DEFINE n == Len(flags)
           Turn(g, i) == IF i = 0 THEN [result |-> "none", hasStar |-> FALSE]
                         ELSE Visit(g[i - 1], name, flags[i])
           Run(g, m) == g = [i \in 0 .. m |-> Turn(g, i)]
           T == {m \in Nat : ~\E g : Run(g, m)}
<1>1. \E g : Run(g, 0)
  <2> DEFINE g == [i \in 0 .. 0 |-> [result |-> "none", hasStar |-> FALSE]]
  <2>1. Run(g, 0)
    OBVIOUS
  <2> QED BY <2>1
<1>2. ASSUME NEW m \in Nat, NEW g, Run(g, m) PROVE \E h : Run(h, m + 1)
  <2> DEFINE h == [i \in 0 .. m + 1 |-> IF i = m + 1 THEN Turn(g, i) ELSE g[i]]
  <2>1. ASSUME NEW i \in 0 .. m + 1 PROVE h[i] = Turn(h, i)
    <3>1. CASE i = 0
      BY <1>2, <3>1
    <3>2. CASE i # 0
      <4>1. i - 1 \in 0 .. m /\ i - 1 # m + 1 /\ i - 1 \in 0 .. m + 1
        BY <3>2
      <4>2. h[i - 1] = g[i - 1]
        BY <4>1
      <4>3. ASSUME i # m + 1 PROVE g[i] = Turn(g, i)
        <5>1. i \in 0 .. m
          BY <4>3
        <5> HIDE DEF Turn
        <5> QED BY <1>2, <5>1
      <4> QED BY <3>2, <4>2, <4>3
    <3> QED BY <3>1, <3>2
  <2>2. Run(h, m + 1)
    BY <2>1
  <2> QED BY <2>2
<1> HIDE DEF Run
<1>3. T = {}
  <2> SUFFICES ASSUME T # {} PROVE FALSE
    OBVIOUS
  <2>1. PICK x \in T : \A y \in T : x <= y
    BY Least
  <2>2. x \in Nat /\ x # 0 /\ ~\E g : Run(g, x)
    BY <1>1, <2>1
  <2>3. x - 1 \in Nat /\ x - 1 + 1 = x /\ x - 1 \notin T
    BY <2>1, <2>2
  <2> QED BY <1>2, <2>2, <2>3
<1>4. \E g : Run(g, n)
  BY <1>3
<1>5. PICK loop : loop = CHOOSE g : Run(g, n)
  OBVIOUS
<1>6. Run(loop, n)
  BY <1>4, <1>5
<1> USE DEF Run
<1>7. Seen(name, flags) = loop[n]
  BY <1>5 DEF Seen
<1> QED BY <1>6, <1>7

\* The flags among the first i that name the controller
ChoicesUpTo(name, flags, i) == {k \in 1 .. i : flags[k].name = name}

\* Flag k is the first of them.
Decides(name, flags, i, k) ==
  k \in ChoicesUpTo(name, flags, i) /\ \A j \in ChoicesUpTo(name, flags, i) : k <= j

\* What the loop knows after i flags: the first choice, or that there is none
\* and whether there was a star.
Correct(seen, name, flags, i) ==
  /\ seen.result \in {"none", "yes", "no"}
  /\ seen.result = "none" =>
       /\ ChoicesUpTo(name, flags, i) = {}
       /\ (seen.hasStar <=> \E k \in 1 .. i : flags[k] = Star)
  /\ seen.result # "none" =>
       \E k \in 1 .. i : /\ Decides(name, flags, i, k)
                         /\ (flags[k].on <=> seen.result = "yes")

Record == [result : {"none", "yes", "no"}, hasStar : BOOLEAN]

\* One turn more
LEMMA OneTurn ==
  ASSUME NEW name, NEW flags, NEW i \in Nat,
         \A k \in 1 .. i + 1 : flags[k] \in Flags,
         NEW seen \in Record, Correct(seen, name, flags, i)
  PROVE  /\ Visit(seen, name, flags[i + 1]) \in Record
         /\ Correct(Visit(seen, name, flags[i + 1]), name, flags, i + 1)
<1> DEFINE flag == flags[i + 1]
           next == Visit(seen, name, flag)
<1>1. /\ flag \in Flags /\ i + 1 \in 1 .. i + 1
      /\ \A k \in 1 .. i + 1 : k = i + 1 \/ k \in 1 .. i
      /\ \A k \in 1 .. i : k \in 1 .. i + 1 /\ k <= i + 1
  OBVIOUS
<1>2. /\ flag = On(name) => flag.name = name /\ flag.on
      /\ flag = Off(name) => flag.name = name /\ ~flag.on
      /\ flag.name = name => flag \in {On(name), Off(name)}
      /\ flag.on \in BOOLEAN
  <2> HIDE DEF flag
  <2>1. CASE flag = Star
    BY <2>1, Zenon DEF On, Off, Star
  <2>2. ASSUME NEW who, flag = On(who)
        PROVE  /\ flag = On(name) => flag.name = name /\ flag.on
               /\ flag = Off(name) => flag.name = name /\ ~flag.on
               /\ flag.name = name => flag \in {On(name), Off(name)}
               /\ flag.on \in BOOLEAN
    <3>1. flag.name = who /\ flag.on = TRUE /\ flag # Off(name)
      BY <2>2 DEF On, Off
    <3>2. flag = On(name) => flag.name = name
      BY DEF On, Off
    <3>3. who = name => flag = On(name)
      BY <2>2
    <3> QED BY <3>1, <3>2, <3>3, Zenon
  <2>3. ASSUME NEW who, flag = Off(who)
        PROVE  /\ flag = On(name) => flag.name = name /\ flag.on
               /\ flag = Off(name) => flag.name = name /\ ~flag.on
               /\ flag.name = name => flag \in {On(name), Off(name)}
               /\ flag.on \in BOOLEAN
    <3>1. flag.name = who /\ flag.on = FALSE /\ flag # On(name)
      BY <2>3 DEF On, Off
    <3>2. flag = Off(name) => flag.name = name
      BY DEF On, Off
    <3>3. who = name => flag = Off(name)
      BY <2>3
    <3> QED BY <3>1, <3>2, <3>3, Zenon
  <2>4. \/ flag = Star
        \/ \E who : flag = On(who)
        \/ \E who : flag = Off(who)
    BY <1>1 DEF Flags
  <2> QED BY <2>1, <2>2, <2>3, <2>4, Zenon
<1>3. CASE seen.result # "none"
  <2>1. next = seen
    BY <1>3 DEF Visit
  <2>2. PICK k \in 1 .. i : /\ Decides(name, flags, i, k)
                            /\ (flags[k].on <=> seen.result = "yes")
    BY <1>3, Zenon DEF Correct
  <2>3. Decides(name, flags, i + 1, k)
    BY <1>1, <2>2 DEF Decides, ChoicesUpTo
  <2> QED BY <1>1, <1>3, <2>1, <2>2, <2>3 DEF Correct
<1>4. CASE seen.result = "none" /\ flag.name = name
  <2>1. /\ next = [seen EXCEPT !.result = IF flag.on THEN "yes" ELSE "no"]
    BY <1>2, <1>4 DEF Visit, On, Off
  <2>2. /\ next \in Record
        /\ next.result = IF flag.on THEN "yes" ELSE "no"
    BY <2>1 DEF Record
  <2>3. ChoicesUpTo(name, flags, i) = {}
    BY <1>4 DEF Correct
  <2>4. Decides(name, flags, i + 1, i + 1)
    BY <1>1, <1>4, <2>3 DEF Decides, ChoicesUpTo
  <2> QED BY <1>1, <1>2, <2>2, <2>4 DEF Correct
<1>5. CASE seen.result = "none" /\ flag.name # name
  <2>1. next = IF flag = Star THEN [seen EXCEPT !.hasStar = TRUE] ELSE seen
    BY <1>2, <1>5 DEF Visit
  <2>2. /\ next \in Record /\ next.result = "none"
        /\ (next.hasStar <=> (seen.hasStar \/ flag = Star))
    BY <1>5, <2>1 DEF Record
  <2>3. ChoicesUpTo(name, flags, i + 1) = {}
    BY <1>1, <1>5 DEF Correct, ChoicesUpTo
  <2>4. next.hasStar <=> (\E k \in 1 .. i + 1 : flags[k] = Star)
    BY <1>1, <1>5, <2>2 DEF Correct
  <2> QED BY <2>2, <2>3, <2>4 DEF Correct
<1> QED BY <1>3, <1>4, <1>5

\* The loop as a whole, by the least turn after which it were wrong
LEMMA AllTurns ==
  ASSUME NEW name, NEW flags, Len(flags) \in Nat,
         \A k \in 1 .. Len(flags) : flags[k] \in Flags
  PROVE  /\ Seen(name, flags) \in Record
         /\ Correct(Seen(name, flags), name, flags, Len(flags))
<1> DEFINE n == Len(flags)
<1>1. PICK loop :
        /\ loop = [i \in 0 .. n |->
                     IF i = 0 THEN [result |-> "none", hasStar |-> FALSE]
                     ELSE Visit(loop[i - 1], name, flags[i])]
        /\ Seen(name, flags) = loop[n]
  BY Loop
<1> DEFINE Right(i) == loop[i] \in Record /\ Correct(loop[i], name, flags, i)
           Wrong == {i \in 0 .. n : ~Right(i)}
<1>2. Right(0)
  <2>1. loop[0] = [result |-> "none", hasStar |-> FALSE]
    BY <1>1
  <2> QED BY <2>1 DEF Record, Correct, ChoicesUpTo
<1>3. ASSUME NEW i \in Nat, i + 1 <= n, Right(i) PROVE Right(i + 1)
  <2>1. i + 1 \in 0 .. n /\ i + 1 # 0 /\ i + 1 - 1 = i
    BY <1>3
  <2>2. loop[i + 1] = Visit(loop[i], name, flags[i + 1])
    <3> DEFINE turn(j) == IF j = 0 THEN [result |-> "none", hasStar |-> FALSE]
                          ELSE Visit(loop[j - 1], name, flags[j])
    <3>1. loop = [j \in 0 .. n |-> turn(j)]
      BY <1>1
    <3>2. turn(i + 1) = Visit(loop[i], name, flags[i + 1])
      BY <2>1
    <3> HIDE DEF turn, n
    <3>3. loop[i + 1] = turn(i + 1)
      BY <2>1, <3>1
    <3> QED BY <3>2, <3>3
  <2>3. \A k \in 1 .. i + 1 : flags[k] \in Flags
    BY <1>3
  <2> HIDE DEF n
  <2> QED BY <1>3, <2>2, <2>3, OneTurn
<1> HIDE DEF Right
<1>4. Wrong = {}
  <2> SUFFICES ASSUME Wrong # {} PROVE FALSE
    OBVIOUS
  <2>1. PICK x \in Wrong : \A y \in Wrong : x <= y
    <3>1. Wrong \in SUBSET Nat
      OBVIOUS
    <3> HIDE DEF Wrong
    <3> QED BY <3>1, Least
  <2>2. x \in Nat /\ x <= n /\ x # 0 /\ ~Right(x)
    BY <1>2, <2>1
  <2>3. x - 1 \in Nat /\ x - 1 + 1 = x /\ x - 1 \notin Wrong
    BY <2>1, <2>2
  <2>4. Right(x - 1)
    BY <2>2, <2>3
  <2> QED BY <1>3, <2>2, <2>3, <2>4
<1>5. Right(n)
  BY <1>4
<1> QED BY <1>1, <1>5 DEF Right

\* The first choice decides, and without one the star.
LEMMA FirstChoice ==
  ASSUME NEW name, NEW flags, Len(flags) \in Nat,
         \A k \in 1 .. Len(flags) : flags[k] \in Flags, NEW off
  PROVE  LET choices == {i \in 1 .. Len(flags) : flags[i].name = name}
         IN  IsControllerEnabled(name, flags, off) <=>
               IF choices # {}
               THEN \E i \in choices : /\ flags[i].on
                                       /\ \A j \in choices : i <= j
               ELSE name \notin off /\ \E i \in 1 .. Len(flags) : flags[i] = Star
<1> DEFINE n == Len(flags)
           seen == Seen(name, flags)
           choices == {i \in 1 .. n : flags[i].name = name}
<1>1. seen \in Record /\ Correct(seen, name, flags, n)
  BY AllTurns
<1>2. choices = ChoicesUpTo(name, flags, n)
  BY DEF ChoicesUpTo
<1>3. IsControllerEnabled(name, flags, off) <=>
        IF seen.result # "none" THEN seen.result = "yes"
        ELSE seen.hasStar /\ name \notin off
  BY <1>1 DEF IsControllerEnabled, Record
<1>4. CASE seen.result = "none"
  BY <1>1, <1>2, <1>3, <1>4 DEF Correct
<1>5. CASE seen.result # "none"
  <2>1. PICK k \in 1 .. n : /\ Decides(name, flags, n, k)
                            /\ (flags[k].on <=> seen.result = "yes")
    BY <1>1, <1>5, Zenon DEF Correct
  <2>2. k \in choices /\ \A j \in choices : k <= j
    BY <1>2, <2>1 DEF Decides
  <2>3. ASSUME NEW i \in choices, \A j \in choices : i <= j PROVE i = k
    BY <2>2, <2>3
  <2> QED BY <1>3, <1>5, <2>1, <2>2, <2>3
<1> QED BY <1>4, <1>5

\* "if we get here, there was no explicit choice" (context.go:49): the first
\* flag that names a controller decides about it, for every list of flags of
\* any length, whatever the controllers are called.
THEOREM ExplicitChoice == Spec => []FirstChoiceWins
<1>1. ASSUME NEW flags \in BoundedSeq(Flags, MaxFlags)
      PROVE  Len(flags) \in Nat /\ \A k \in 1 .. Len(flags) : flags[k] \in Flags
  <2>1. PICK m \in 0 .. MaxFlags : flags \in [1 .. m -> Flags]
    BY DEF BoundedSeq, SeqOf
  <2>2. m \in Nat
    BY <2>1
  <2> QED BY <2>1, <2>2
<1>2. FirstChoiceWins
  <2> SUFFICES ASSUME NEW flags \in BoundedSeq(Flags, MaxFlags),
                      NEW name \in Names, NEW off \in SUBSET Names
               PROVE  LET choices == {i \in 1 .. Len(flags) : flags[i].name = name}
                      IN  IsControllerEnabled(name, flags, off) <=>
                            IF choices # {}
                            THEN \E i \in choices : /\ flags[i].on
                                                    /\ \A j \in choices : i <= j
                            ELSE name \notin off /\ \E i \in 1 .. Len(flags) : flags[i] = Star
    BY Zenon DEF FirstChoiceWins
  <2>1. Len(flags) \in Nat /\ \A k \in 1 .. Len(flags) : flags[k] \in Flags
    BY <1>1
  <2> QED BY <2>1, FirstChoice, Zenon
<1> QED BY <1>2, PTL

-----------------------------------------------------------------------------
\* The options name every controller without a minus, whatever order the list
\* of names has: none is skipped for want of a flag.
LEMMA AllEnabled ==
  ASSUME NEW name \in Names
  PROVE  IsControllerEnabled(name, ControllerNames, {})
<1> DEFINE S == {On(n) : n \in Names}
           m == Cardinality(S)
           flags == ControllerNames
<1>1. IsFiniteSet(S)
  <2> DEFINE f == [n \in Names |-> On(n)]
  <2>1. f \in Surjection(Names, S)
    BY DEF Surjection
  <2>2. IsFiniteSet(Names)
    BY StartupAssumption
  <2> QED BY <2>1, <2>2, FS_Surjection
<1>2. m \in Nat /\ ExistsBijection(1 .. m, S)
  BY <1>1, FS_CardinalityType
<1>3. flags \in Injection(1 .. m, S)
  <2>1. PICK g : g \in Bijection(1 .. m, S)
    BY <1>2 DEF ExistsBijection
  <2>2. g \in [1 .. m -> S] /\ IsInjective(g)
    BY <2>1 DEF Bijection, Injection
  <2> HIDE DEF S
  <2>3. flags \in [1 .. m -> S] /\ IsInjective(flags)
    BY <2>2 DEF ControllerNames, SetToSeq, S
  <2> QED BY <2>3 DEF Injection
<1> HIDE DEF flags, m
<1>4. flags \in Surjection(1 .. m, S)
  <2>1. IsFiniteSet(1 .. m) /\ Cardinality(1 .. m) = m
    BY <1>2, FS_Interval
  <2> HIDE DEF S
  <2> QED BY <1>1, <1>3, <2>1, FS_Injection DEF m
<1>5. Len(flags) = m /\ flags \in [1 .. m -> S]
  <2>1. flags \in [1 .. m -> S]
    BY <1>3 DEF Injection
  <2> QED BY <1>2, <2>1
<1>6. ASSUME NEW k \in 1 .. m PROVE flags[k] \in Flags /\ flags[k].on
  BY <1>5 DEF Flags, On
<1>7. PICK i \in 1 .. m : flags[i].name = name
  <2>1. PICK i \in 1 .. m : flags[i] = On(name)
    BY <1>4 DEF Surjection
  <2> QED BY <2>1 DEF On
<1> DEFINE choices == {k \in 1 .. Len(flags) : flags[k].name = name}
<1>8. choices # {} /\ choices \in SUBSET Nat /\ choices \subseteq 1 .. m
  BY <1>2, <1>5, <1>7
<1>9. PICK k \in choices : \A j \in choices : k <= j
  <2> HIDE DEF choices
  <2> QED BY <1>8, Least
<1>10. IsControllerEnabled(name, flags, {}) <=>
         IF choices # {}
         THEN \E j \in choices : /\ flags[j].on
                                 /\ \A h \in choices : j <= h
         ELSE name \notin {} /\ \E j \in 1 .. Len(flags) : flags[j] = Star
  BY <1>2, <1>5, <1>6, FirstChoice
<1> HIDE DEF choices
<1>11. IsControllerEnabled(name, flags, {})
  BY <1>6, <1>8, <1>9, <1>10
<1> QED BY <1>11 DEF flags

-----------------------------------------------------------------------------
\* Where the process is on its way, from the end backwards
HasIndexes == {"controllers", "start", "running"}
HasProvider == {"manager", "indexService", "indexSecret"} \cup HasIndexes
HasOptions == {"provider"} \cup HasProvider
HasRegistrations == {"validate"} \cup HasOptions

\* The registrations made have different names, and all are made before main.
RegistrationsOK ==
  /\ Len(registrations) \in Nat
  /\ done \in 0 .. Len(registrations)
  /\ \A i, j \in 1 .. done : i # j => registrations[i] # registrations[j]
  /\ pc \in HasRegistrations => done = Len(registrations)

\* What Validate checked, and what cloudInitializer chose
OptionsOK == pc \in HasOptions => opts.name # "" /\ opts.class # ""
ProviderOK ==
  pc \in HasProvider =>
    /\ opts.file # "missing"
    /\ opts.name \in Registered(done)
    /\ provider = cloud /\ cloud \in Clouds

\* One index after the other, before the first controller
IndexesOK ==
  /\ indexed \subseteq Indexes
  /\ pc = "indexSecret" => "service" \in indexed
  /\ pc \in HasIndexes => indexed = Indexes

\* The controllers visited are those started; each got past its provider. No
\* other step than the loop starts one, and the loop ends with the last.
StartedOK ==
  /\ pc \in {"register", "validate", "provider", "manager", "indexService", "indexSecret"} =>
       started = {} /\ todo = Names
  /\ pc \in HasIndexes =>
       /\ todo \subseteq Names /\ started = Names \ todo
       /\ \A name \in started : Supported(name)
  /\ pc \in {"start", "running"} => todo = {}

IInv == RegistrationsOK /\ OptionsOK /\ ProviderOK /\ IndexesOK /\ StartedOK

LEMMA Initially == Init => IInv
<1> SUFFICES ASSUME Init PROVE IInv
  OBVIOUS
<1>1. Len(registrations) \in Nat
  <2>1. PICK m \in 0 .. MaxRegistrations : registrations \in [1 .. m -> Providers]
    BY DEF Init, BoundedSeq, SeqOf
  <2>2. m \in Nat
    BY <2>1
  <2> QED BY <2>1, <2>2
<1>2. RegistrationsOK
  BY <1>1 DEF Init, RegistrationsOK, HasRegistrations, HasOptions, HasProvider, HasIndexes
<1>3. OptionsOK /\ ProviderOK
  BY DEF Init, OptionsOK, ProviderOK, HasOptions, HasProvider, HasIndexes
<1>4. IndexesOK
  BY DEF Init, IndexesOK, HasIndexes
<1>5. StartedOK
  BY DEF Init, StartedOK, HasIndexes
<1> QED BY <1>2, <1>3, <1>4, <1>5 DEF IInv

\* What a controller needs is the provider's affair alone.
LEMMA SameProvider ==
  ASSUME provider' = provider, NEW name
  PROVE  Supported(name)' <=> Supported(name)
BY DEF Supported

LEMMA Inductive == IInv /\ [Next]_vars => IInv'
<1> SUFFICES ASSUME IInv, [Next]_vars PROVE IInv'
  OBVIOUS
<1> USE DEF IInv, HasRegistrations, HasOptions, HasProvider, HasIndexes, config
<1>1. CASE RegisterMultiClusterProvider
  <2>1. RegistrationsOK'
    <3>1. CASE registrations[done + 1] \in Registered(done)
      BY <1>1, <3>1 DEF RegisterMultiClusterProvider, RegistrationsOK
    <3>2. CASE registrations[done + 1] \notin Registered(done)
      <4>1. /\ pc' = pc /\ pc = "register" /\ registrations' = registrations
            /\ done' = done + 1 /\ done < Len(registrations)
        BY <1>1, <3>2 DEF RegisterMultiClusterProvider
      <4>2. \A i \in 1 .. done : registrations[i] # registrations[done + 1]
        BY <3>2 DEF Registered
      <4>3. \A i \in 1 .. done + 1 : i = done + 1 \/ i \in 1 .. done
        BY DEF RegistrationsOK
      <4>4. \A i, j \in 1 .. done + 1 : i # j => registrations[i] # registrations[j]
        BY <4>2, <4>3 DEF RegistrationsOK
      <4> QED BY <4>1, <4>4 DEF RegistrationsOK
    <3> QED BY <3>1, <3>2
  <2>2. OptionsOK' /\ ProviderOK' /\ IndexesOK' /\ StartedOK'
    BY <1>1 DEF RegisterMultiClusterProvider, OptionsOK, ProviderOK, IndexesOK, StartedOK
  <2> QED BY <2>1, <2>2
<1>2. CASE NewControllerManagerCommand
  <2>1. RegistrationsOK'
    BY <1>2 DEF NewControllerManagerCommand, RegistrationsOK
  <2>2. OptionsOK' /\ ProviderOK' /\ IndexesOK' /\ StartedOK'
    BY <1>2 DEF NewControllerManagerCommand, OptionsOK, ProviderOK, IndexesOK, StartedOK
  <2> QED BY <2>1, <2>2
<1>3. CASE Validate
  <2>1. RegistrationsOK'
    BY <1>3 DEF Validate, RegistrationsOK
  <2>2. OptionsOK' /\ ProviderOK' /\ IndexesOK' /\ StartedOK'
    BY <1>3 DEF Validate, OptionsOK, ProviderOK, IndexesOK, StartedOK
  <2> QED BY <2>1, <2>2
<1>4. CASE cloudInitializer
  <2> DEFINE p == InitMultiClusterProvider(opts.name, opts.file)
  <2>1. RegistrationsOK'
    BY <1>4 DEF cloudInitializer, RegistrationsOK
  <2>2. OptionsOK' /\ IndexesOK' /\ StartedOK'
    BY <1>4 DEF cloudInitializer, OptionsOK, IndexesOK, StartedOK
  <2>3. ProviderOK'
    <3>1. CASE p \notin Clouds
      BY <1>4, <3>1 DEF cloudInitializer, ProviderOK
    <3>2. CASE p \in Clouds
      <4>1. p # NoProvider /\ p # FactoryError
        BY <3>2, StartupAssumption
      <4>2. opts.file # "missing" /\ opts.name \in Registered(done) /\ p = cloud
        BY <4>1 DEF InitMultiClusterProvider, createMultiClusterProvider
      <4>3. provider' = p /\ UNCHANGED <<opts, registrations, cloud, done>>
        BY <1>4, <3>2 DEF cloudInitializer
      <4>4. Registered(done)' = Registered(done)
        BY <4>3 DEF Registered
      <4> HIDE DEF p
      <4> QED BY <3>2, <4>2, <4>3, <4>4 DEF ProviderOK
    <3> QED BY <3>1, <3>2
  <2> QED BY <2>1, <2>2, <2>3
<1>5. CASE NewManager \/ SetupServiceIndexesForMCI \/ SetupSecretIndexesForMCI
  <2> USE DEF NewManager, SetupServiceIndexesForMCI, SetupSecretIndexesForMCI
  <2>1. RegistrationsOK' /\ OptionsOK'
    BY <1>5 DEF RegistrationsOK, OptionsOK
  <2>2. ProviderOK'
    BY <1>5 DEF ProviderOK, Registered
  <2>3. IndexesOK'
    BY <1>5 DEF IndexesOK, Indexes
  <2>4. StartedOK'
    BY <1>5 DEF StartedOK
  <2> QED BY <2>1, <2>2, <2>3, <2>4
<1>6. ASSUME NEW name \in Names, StartController(name) PROVE IInv'
  <2>1. /\ pc = "controllers" /\ name \in todo
        /\ UNCHANGED <<opts, registrations, cloud, done, provider, indexed>>
    BY <1>6 DEF StartController
  <2>2. \/ pc' = "fatal" /\ UNCHANGED <<todo, started>>
        \/ /\ UNCHANGED pc /\ Supported(name)
           /\ todo' = todo \ {name} /\ started' = started \cup {name}
    BY <1>6, AllEnabled DEF StartController
  <2>3. RegistrationsOK' /\ OptionsOK' /\ IndexesOK'
    BY <2>1, <2>2 DEF RegistrationsOK, OptionsOK, IndexesOK
  <2>4. ProviderOK'
    BY <2>1, <2>2 DEF ProviderOK, Registered
  <2>5. StartedOK'
    <3>1. CASE pc' = "fatal"
      BY <3>1 DEF StartedOK
    <3>2. CASE /\ UNCHANGED pc /\ Supported(name)
               /\ todo' = todo \ {name} /\ started' = started \cup {name}
      <4>1. todo' \subseteq Names /\ started' = Names \ todo'
        BY <2>1, <3>2 DEF StartedOK
      <4>2. \A n \in started' : Supported(n)'
        BY <2>1, <3>2, SameProvider DEF StartedOK
      <4> QED BY <2>1, <3>2, <4>1, <4>2 DEF StartedOK
    <3> QED BY <2>2, <3>1, <3>2
  <2> QED BY <2>3, <2>4, <2>5
<1>7. CASE ControllersStarted \/ Start
  <2> USE DEF ControllersStarted, Start
  <2>1. RegistrationsOK' /\ OptionsOK' /\ IndexesOK'
    BY <1>7 DEF RegistrationsOK, OptionsOK, IndexesOK
  <2>2. ProviderOK'
    BY <1>7 DEF ProviderOK, Registered
  <2>3. StartedOK'
    BY <1>7, SameProvider DEF StartedOK
  <2> QED BY <2>1, <2>2, <2>3
<1>8. CASE Fault
  BY <1>8 DEF Fault, RegistrationsOK, OptionsOK, ProviderOK, IndexesOK, StartedOK
<1>9. CASE Restart
  <2>1. RegistrationsOK'
    BY <1>9 DEF Restart, RegistrationsOK
  <2>2. OptionsOK' /\ ProviderOK' /\ IndexesOK' /\ StartedOK'
    BY <1>9 DEF Restart, OptionsOK, ProviderOK, IndexesOK, StartedOK
  <2> QED BY <2>1, <2>2
<1>10. CASE UNCHANGED vars
  BY <1>10, SameProvider
     DEF vars, RegistrationsOK, OptionsOK, ProviderOK, Registered, IndexesOK, StartedOK
<1> QED BY <1>1, <1>2, <1>3, <1>4, <1>5, <1>6, <1>7, <1>8, <1>9, <1>10 DEF Next, Step

\* "Any error returned will cause the controller process to `Fatal`"
\* (context.go:59): a manager that runs was started with usable flags and runs
\* every controller with the chosen provider on a cache with both indexes, for
\* any set of controllers, any registrations and any number of failures.
THEOREM NeverPartial == Spec => []NoPartialStart
<1>1. IInv => NoPartialStart
  <2> SUFFICES ASSUME IInv, pc = "running"
               PROVE  Usable /\ provider = cloud /\ started = Names /\ indexed = Indexes
    BY DEF NoPartialStart
  <2> USE DEF IInv, HasRegistrations, HasOptions, HasProvider, HasIndexes
  <2>1. provider = cloud /\ cloud \in Clouds /\ opts.file # "missing"
    BY DEF ProviderOK
  <2>2. opts.class # "" /\ opts.name # ""
    BY DEF OptionsOK
  <2>3. /\ \E i \in 1 .. Len(registrations) : registrations[i] = opts.name
        /\ \A i, j \in 1 .. Len(registrations) : i # j => registrations[i] # registrations[j]
    BY DEF RegistrationsOK, ProviderOK, Registered
  <2>4. started = Names /\ \A name \in Names : Supported(name)
    BY DEF StartedOK
  <2>5. cloud.lb = "ok" /\ cloud.mcs = "ok"
    <3>1. Supported("multiclusteringress") /\ Supported("multiclusterservice")
      BY <2>4, StartupAssumption
    <3> QED BY <2>1, <3>1 DEF Supported
  <2>6. indexed = Indexes
    BY DEF IndexesOK
  <2> QED BY <2>1, <2>2, <2>3, <2>4, <2>5, <2>6 DEF Usable
<1> QED BY <1>1, Initially, Inductive, PTL DEF Spec

-----------------------------------------------------------------------------
\* list has k of the names in S, in ascending order.
Ascending(list, k, S) ==
  /\ list \in [1 .. k -> S]
  /\ \A i, j \in 1 .. k : i < j => list[i] < list[j]

\* Every finite set of names can be listed in order: by the least size of a set
\* that could not, whose least name would go before the list of the others.
LEMMA CanBeListed ==
  ASSUME NEW S \in SUBSET Nat, IsFiniteSet(S)
  PROVE  Cardinality(S) \in Nat /\ \E list : Ascending(list, Cardinality(S), S)
<1> DEFINE Unlisted(U, k) == /\ IsFiniteSet(U) /\ Cardinality(U) = k
                             /\ ~\E list : Ascending(list, k, U)
           T == {k \in Nat : \E U \in SUBSET Nat : Unlisted(U, k)}
<1>1. ASSUME NEW U \in SUBSET Nat, NEW k \in Nat, Unlisted(U, k)
      PROVE  k # 0 /\ \E V \in SUBSET Nat : Unlisted(V, k - 1)
  <2>1. k # 0
    <3> SUFFICES ASSUME k = 0 PROVE \E list : Ascending(list, k, U)
      BY <1>1
    <3>1. Ascending(<<>>, 0, U)
      BY DEF Ascending
    <3> QED BY <3>1
  <2>2. U # {}
    BY <1>1, <2>1, FS_EmptySet
  <2>3. PICK x \in U : \A y \in U : x <= y
    BY <2>2, Least
  <2> DEFINE V == U \ {x}
  <2>4. IsFiniteSet(V) /\ Cardinality(V) = k - 1
    BY <1>1, <2>3, FS_RemoveElement
  <2>5. ASSUME NEW list, Ascending(list, k - 1, V) PROVE FALSE
    <3> DEFINE longer == [i \in 1 .. k |-> IF i = 1 THEN x ELSE list[i - 1]]
    <3>1. \A i \in 2 .. k : /\ i - 1 \in 1 .. k - 1 /\ i \in 1 .. k /\ i # 1
      OBVIOUS
    <3>2. ASSUME NEW i \in 2 .. k
          PROVE  longer[i] = list[i - 1] /\ list[i - 1] \in V
      BY <2>5, <3>1 DEF Ascending
    <3>3. longer[1] = x /\ x \in Nat
      BY <2>1
    <3>4. ASSUME NEW i \in 1 .. k PROVE longer[i] \in U
      BY <2>3, <3>2, <3>3
    <3>5. ASSUME NEW i \in 1 .. k, NEW j \in 1 .. k, i < j
          PROVE  longer[i] < longer[j]
      <4>1. j \in 2 .. k /\ (i = 1 \/ i \in 2 .. k)
        BY <3>5
      <4>2. longer[j] = list[j - 1] /\ list[j - 1] \in V
        BY <3>2, <4>1
      <4>3. CASE i = 1
        <5>1. list[j - 1] \in Nat /\ x <= list[j - 1] /\ x # list[j - 1]
          BY <2>3, <4>2
        <5> QED BY <3>3, <4>2, <4>3, <5>1
      <4>4. CASE i \in 2 .. k
        <5>1. i - 1 \in 1 .. k - 1 /\ j - 1 \in 1 .. k - 1 /\ i - 1 < j - 1
          BY <3>5, <4>1, <4>4
        <5>2. list[i - 1] < list[j - 1]
          BY <2>5, <5>1 DEF Ascending
        <5> QED BY <3>2, <4>2, <4>4, <5>2
      <4> QED BY <4>1, <4>3, <4>4
    <3>6. Ascending(longer, k, U)
      BY <3>4, <3>5 DEF Ascending
    <3> QED BY <1>1, <3>6
  <2> QED BY <2>1, <2>4, <2>5
<1>2. T = {}
  <2> SUFFICES ASSUME T # {} PROVE FALSE
    OBVIOUS
  <2>1. PICK k \in T : \A l \in T : k <= l
    <3>1. T \in SUBSET Nat
      OBVIOUS
    <3> HIDE DEF T
    <3> QED BY <3>1, Least
  <2>2. PICK U \in SUBSET Nat : Unlisted(U, k)
    BY <2>1
  <2>3. k # 0 /\ \E V \in SUBSET Nat : Unlisted(V, k - 1)
    BY <1>1, <2>2
  <2>4. k - 1 \in Nat
    BY <2>3
  <2>5. k - 1 \in T
    BY <2>3, <2>4
  <2> QED BY <2>1, <2>4, <2>5
<1>3. Cardinality(S) \in Nat
  BY FS_CardinalityType
<1> QED BY <1>2, <1>3

\* Sorted lists a finite set of names, each once and in order.
LEMMA SortedLists ==
  ASSUME NEW S \in SUBSET Nat, IsFiniteSet(S)
  PROVE  IndexOf(Sorted(S), S)
<1> DEFINE k == Cardinality(S)
           list == Sorted(S)
<1>1. k \in Nat /\ \E l : Ascending(l, k, S)
  BY CanBeListed
<1>2. Ascending(list, k, S)
  <2>1. PICK l : Ascending(l, k, S)
    BY <1>1
  <2>2. /\ l \in [1 .. k -> S] /\ DOMAIN l = 1 .. k
        /\ \A i, j \in DOMAIN l : i < j => l[i] < l[j]
    BY <2>1 DEF Ascending
  <2>3. /\ list \in [1 .. k -> S]
        /\ \A i, j \in DOMAIN list : i < j => list[i] < list[j]
    BY <2>2 DEF Sorted
  <2>4. DOMAIN list = 1 .. k
    BY <2>3
  <2> QED BY <2>3, <2>4 DEF Ascending
<1> HIDE DEF list, k
<1>3. DOMAIN list = 1 .. k /\ Len(list) = k
  BY <1>1, <1>2 DEF Ascending
<1>4. list \in Injection(1 .. k, S)
  <2>1. ASSUME NEW i \in 1 .. k, NEW j \in 1 .. k, list[i] = list[j] PROVE i = j
    <3>1. list[i] \in Nat /\ list[j] \in Nat
      BY <1>2 DEF Ascending
    <3>2. ~(i < j) /\ ~(j < i)
      BY <1>2, <2>1, <3>1 DEF Ascending
    <3> QED BY <1>1, <3>2
  <2> QED BY <1>2, <2>1 DEF Ascending, Injection, IsInjective
<1>5. ToSet(list) = S
  <2>1. IsFiniteSet(1 .. k) /\ Cardinality(1 .. k) = k
    BY <1>1, FS_Interval
  <2>2. list \in Surjection(1 .. k, S)
    BY <1>4, <2>1, FS_Injection DEF k
  <2> QED BY <1>2, <1>3, <2>2 DEF ToSet, Surjection, Ascending
<1>6. ASSUME NEW i \in 1 .. Len(list) - 1 PROVE list[i] < list[i + 1]
  <2>1. i \in 1 .. k /\ i + 1 \in 1 .. k /\ i < i + 1
    BY <1>1, <1>3
  <2> QED BY <1>2, <2>1 DEF Ascending
<1> QED BY <1>5, <1>6 DEF IndexOf, list

\* FlattenSeq is defined for every list of lists: it joins them one by one.
LEMMA JoinLoop ==
  ASSUME NEW seqs, Len(seqs) \in Nat, Len(seqs) # 0
  PROVE  \E joined :
           /\ joined[1] = seqs[1]
           /\ \A i \in 2 .. Len(seqs) : joined[i] = joined[i - 1] \o seqs[i]
           /\ FlattenSeq(seqs) = joined[Len(seqs)]
<1> DEFINE n == Len(seqs)
           Part(g, i) == IF i = 1 THEN seqs[i] ELSE g[i - 1] \o seqs[i]
           Join(g, m) == g = [i \in 1 .. m |-> Part(g, i)]
           T == {m \in Nat : m # 0 /\ ~\E g : Join(g, m)}
<1>1. \E g : Join(g, 1)
  <2> DEFINE g == [i \in 1 .. 1 |-> seqs[i]]
  <2>1. ASSUME NEW i \in 1 .. 1 PROVE i = 1
    OBVIOUS
  <2>2. Join(g, 1)
    BY <2>1
  <2> QED BY <2>2
<1>2. ASSUME NEW m \in Nat, m # 0, NEW g, Join(g, m) PROVE \E h : Join(h, m + 1)
  <2> DEFINE h == [i \in 1 .. m + 1 |-> IF i = m + 1 THEN Part(g, i) ELSE g[i]]
  <2>1. ASSUME NEW i \in 1 .. m + 1 PROVE h[i] = Part(h, i)
    <3>1. CASE i = 1
      <4>1. i # m + 1 /\ i \in 1 .. m
        BY <1>2, <3>1
      <4>2. g[i] = seqs[i]
        BY <1>2, <3>1, <4>1
      <4> QED BY <3>1, <4>1, <4>2
    <3>2. CASE i # 1
      <4>1. i - 1 \in 1 .. m /\ i - 1 # m + 1 /\ i - 1 \in 1 .. m + 1
        BY <3>2
      <4>2. h[i - 1] = g[i - 1]
        BY <4>1
      <4>3. ASSUME i # m + 1 PROVE g[i] = Part(g, i)
        <5>1. i \in 1 .. m
          BY <4>3
        <5> HIDE DEF Part
        <5> QED BY <1>2, <5>1
      <4> QED BY <3>2, <4>2, <4>3
    <3> QED BY <3>1, <3>2
  <2>2. Join(h, m + 1)
    BY <2>1
  <2> QED BY <2>2
<1> HIDE DEF Join
<1>3. T = {}
  <2> SUFFICES ASSUME T # {} PROVE FALSE
    OBVIOUS
  <2>1. PICK x \in T : \A y \in T : x <= y
    BY Least
  <2>2. x \in Nat /\ x # 0 /\ x # 1 /\ ~\E g : Join(g, x)
    BY <1>1, <2>1
  <2>3. x - 1 \in Nat /\ x - 1 # 0 /\ x - 1 + 1 = x /\ x - 1 \notin T
    BY <2>1, <2>2
  <2> QED BY <1>2, <2>2, <2>3
<1>4. \E g : Join(g, n)
  BY <1>3
<1>5. PICK joined : joined = CHOOSE g : Join(g, n)
  OBVIOUS
<1>6. Join(joined, n)
  BY <1>4, <1>5
<1> USE DEF Join
<1>7. FlattenSeq(seqs) = joined[n]
  BY <1>5 DEF FlattenSeq
<1>8. ASSUME NEW i \in 1 .. n PROVE joined[i] = Part(joined, i)
  <2> HIDE DEF Part
  <2> QED BY <1>6
<1>9. joined[1] = seqs[1]
  BY <1>8
<1>10. ASSUME NEW i \in 2 .. n PROVE joined[i] = joined[i - 1] \o seqs[i]
  <2>1. i \in 1 .. n /\ i # 1
    OBVIOUS
  <2> QED BY <1>8, <2>1
<1> QED BY <1>7, <1>9, <1>10

\* What two lists one after the other contain
LEMMA JoinTwo ==
  ASSUME NEW A, NEW s \in Seq(A), NEW t \in Seq(A)
  PROVE  /\ s \o t \in Seq(A)
         /\ \A e : Contains(s \o t, e) <=> Contains(s, e) \/ Contains(t, e)
<1>1. /\ s \o t \in Seq(A) /\ Len(s \o t) = Len(s) + Len(t)
      /\ Len(s) \in Nat /\ Len(t) \in Nat
      /\ \A i \in 1 .. Len(s) + Len(t) :
           (s \o t)[i] = IF i <= Len(s) THEN s[i] ELSE t[i - Len(s)]
  BY ConcatProperties, LenProperties
<1> DEFINE st == s \o t
<1>2. ASSUME NEW e, Contains(st, e) PROVE Contains(s, e) \/ Contains(t, e)
  <2>1. PICK i \in 1 .. Len(s) + Len(t) : st[i] = e
    BY <1>1, <1>2 DEF Contains
  <2>2. CASE i <= Len(s)
    BY <1>1, <2>1, <2>2 DEF Contains
  <2>3. CASE ~(i <= Len(s))
    <3>1. i - Len(s) \in 1 .. Len(t) /\ t[i - Len(s)] = e
      BY <1>1, <2>1, <2>3
    <3> QED BY <3>1 DEF Contains
  <2> QED BY <2>2, <2>3
<1>3. ASSUME NEW e, Contains(s, e) PROVE Contains(st, e)
  <2>1. PICK i \in 1 .. Len(s) : s[i] = e
    BY <1>3 DEF Contains
  <2>2. i \in 1 .. Len(s) + Len(t) /\ st[i] = e
    BY <1>1, <2>1
  <2> QED BY <1>1, <2>2 DEF Contains
<1>4. ASSUME NEW e, Contains(t, e) PROVE Contains(st, e)
  <2>1. PICK i \in 1 .. Len(t) : t[i] = e
    BY <1>4 DEF Contains
  <2>2. /\ Len(s) + i \in 1 .. Len(s) + Len(t)
        /\ ~(Len(s) + i <= Len(s)) /\ Len(s) + i - Len(s) = i
    BY <1>1, <2>1
  <2>3. st[Len(s) + i] = e
    BY <1>1, <2>1, <2>2
  <2> QED BY <1>1, <2>2, <2>3 DEF Contains
<1> QED BY <1>1, <1>2, <1>3, <1>4

\* FlattenSeq keeps all elements: by the least number of lists after which it
\* did not.
LEMMA Flattened ==
  ASSUME NEW A, NEW seqs \in Seq(Seq(A))
  PROVE  /\ FlattenSeq(seqs) \in Seq(A)
         /\ \A e : Contains(FlattenSeq(seqs), e) <=>
                     \E i \in 1 .. Len(seqs) : Contains(seqs[i], e)
<1> DEFINE n == Len(seqs)
<1>1. n \in Nat /\ \A i \in 1 .. n : seqs[i] \in Seq(A)
  BY LenProperties, ElementOfSeq
<1>2. CASE n = 0
  <2>1. FlattenSeq(seqs) = seqs
    BY <1>2 DEF FlattenSeq
  <2>2. seqs = <<>>
    BY <1>2, EmptySeq
  <2>3. Len(seqs) = 0 /\ 1 .. 0 = {}
    BY <1>2
  <2>4. FlattenSeq(seqs) \in Seq(A)
    BY <2>1, <2>2, EmptySeq
  <2> HIDE DEF n
  <2> QED BY <2>1, <2>3, <2>4 DEF Contains
<1>3. CASE n # 0
  <2>1. PICK joined :
          /\ joined[1] = seqs[1]
          /\ \A i \in 2 .. n : joined[i] = joined[i - 1] \o seqs[i]
          /\ FlattenSeq(seqs) = joined[n]
    BY <1>1, <1>3, JoinLoop
  <2> DEFINE Right(i) ==
               /\ joined[i] \in Seq(A)
               /\ \A e : Contains(joined[i], e) <=>
                           \E j \in 1 .. i : Contains(seqs[j], e)
             Wrong == {i \in 1 .. n : ~Right(i)}
  <2>2. Right(1)
    <3>1. 1 \in 1 .. n /\ \A j \in 1 .. 1 : j = 1
      BY <1>1, <1>3
    <3> QED BY <1>1, <2>1, <3>1
  <2>3. ASSUME NEW i \in Nat, i # 0, i + 1 <= n, Right(i) PROVE Right(i + 1)
    <3>1. i + 1 \in 1 .. n /\ i + 1 # 1 /\ i + 1 - 1 = i
      BY <1>1, <2>3
    <3>4. joined[i + 1] = joined[i] \o seqs[i + 1]
      <4>1. PICK k \in 2 .. n : k = i + 1
        BY <1>1, <2>3
      <4>2. joined[k] = joined[k - 1] \o seqs[k]
        BY <2>1, Zenon
      <4>3. k - 1 = i
        BY <2>3, <4>1
      <4> QED BY <4>1, <4>2, <4>3, Zenon
    <3> DEFINE s == joined[i]
               t == seqs[i + 1]
    <3>5. s \in Seq(A) /\ t \in Seq(A)
      BY <1>1, <2>3, <3>1
    <3>6. /\ s \o t \in Seq(A)
          /\ \A e : Contains(s \o t, e) <=> Contains(s, e) \/ Contains(t, e)
      <4> HIDE DEF s, t
      <4> QED BY <3>5, JoinTwo
    <3>7. \A j : j \in 1 .. i + 1 <=> j \in 1 .. i \/ j = i + 1
      BY <2>3
    <3> QED BY <2>3, <3>4, <3>6, <3>7
  <2> HIDE DEF Right
  <2>4. Wrong = {}
    <3> SUFFICES ASSUME Wrong # {} PROVE FALSE
      OBVIOUS
    <3>1. PICK x \in Wrong : \A y \in Wrong : x <= y
      <4>1. Wrong \in SUBSET Nat
        OBVIOUS
      <4> HIDE DEF Wrong
      <4> QED BY <4>1, Least
    <3>2. x \in Nat /\ x <= n /\ x # 0 /\ x # 1 /\ ~Right(x)
      BY <1>1, <2>2, <3>1
    <3>3. x - 1 \in Nat /\ x - 1 # 0 /\ x - 1 + 1 = x /\ x - 1 \notin Wrong
      BY <3>1, <3>2
    <3>4. Right(x - 1)
      BY <1>1, <3>2, <3>3
    <3> HIDE DEF Wrong, n
    <3>5. PICK i \in Nat : i = x - 1
      BY <3>3
    <3>6. i # 0 /\ i + 1 <= n /\ i + 1 = x /\ Right(i)
      BY <3>2, <3>3, <3>4, <3>5
    <3>7. Right(i + 1)
      BY <2>3, <3>6
    <3> QED BY <3>2, <3>6, <3>7, Zenon
  <2>5. Right(n)
    <3>1. n \in 1 .. n
      BY <1>1, <1>3
    <3> HIDE DEF n
    <3> QED BY <2>4, <3>1
  <2> QED BY <2>1, <2>5 DEF Right
<1> QED BY <1>2, <1>3

\* The index made from a list of names is one of the names in the list.
LEMMA ListIndexed ==
  ASSUME NEW A \in SUBSET Nat, NEW s \in Seq(A)
  PROVE  IndexOf(Sorted(ToSet(s)), {e \in A : Contains(s, e)})
<1>1. Len(s) \in Nat /\ DOMAIN s = 1 .. Len(s) /\ s \in [1 .. Len(s) -> A]
  BY LenProperties
<1>2. ToSet(s) = {e \in A : Contains(s, e)}
  BY <1>1 DEF ToSet, Contains
<1>3. s \in Surjection(1 .. Len(s), ToSet(s))
  BY <1>1 DEF ToSet, Surjection
<1>4. IsFiniteSet(1 .. Len(s))
  BY <1>1, FS_Interval
<1>5. IsFiniteSet(ToSet(s))
  BY <1>3, <1>4, FS_Surjection
<1>6. ToSet(s) \in SUBSET Nat
  BY <1>2
<1> QED BY <1>2, <1>5, <1>6, SortedLists

\* The walk over the rules keeps every backend, wherever rules without HTTP
\* part stand.
LEMMA Walked ==
  ASSUME NEW A, NEW rules, Len(rules) \in Nat,
         \A i \in 1 .. Len(rules) : rules[i] = NilHTTP \/ rules[i] \in Seq(A)
  PROVE  /\ Paths(rules) \in Seq(A)
         /\ \A e : Contains(Paths(rules), e) <=>
                     \E i \in 1 .. Len(rules) :
                       rules[i] # NilHTTP /\ Contains(rules[i], e)
<1> DEFINE n == Len(rules)
           part(i) == IF rules[i] = NilHTTP THEN <<>> ELSE rules[i]
           parts == [i \in 1 .. n |-> part(i)]
<1>1. ASSUME NEW i \in 1 .. n
      PROVE  /\ part(i) \in Seq(A)
             /\ \A e : Contains(part(i), e) <=> rules[i] # NilHTTP /\ Contains(rules[i], e)
  <2>1. CASE rules[i] = NilHTTP
    <3>1. part(i) = <<>> /\ <<>> \in Seq(A)
      BY <2>1, EmptySeq
    <3>2. Len(part(i)) = 0
      BY <3>1, EmptySeq
    <3>3. 1 .. 0 = {}
      OBVIOUS
    <3> QED BY <2>1, <3>1, <3>2, <3>3, Zenon DEF Contains
  <2>2. CASE rules[i] # NilHTTP
    BY <2>2
  <2> QED BY <2>1, <2>2
<1> HIDE DEF part
<1>2. parts \in Seq(Seq(A)) /\ Len(parts) = n /\ \A i \in 1 .. n : parts[i] = part(i)
  BY <1>1
<1>3. Paths(rules) = FlattenSeq(parts)
  BY DEF Paths, part
<1> HIDE DEF parts
<1>4. /\ FlattenSeq(parts) \in Seq(A)
      /\ \A e : Contains(FlattenSeq(parts), e) <=>
                  \E i \in 1 .. n : Contains(parts[i], e)
  BY <1>2, Flattened
<1> QED BY <1>1, <1>2, <1>3, <1>4

\* BoundedSeq(S, n) has sequences over S.
LEMMA BoundedSequences ==
  ASSUME NEW S, NEW n, NEW s \in BoundedSeq(S, n)
  PROVE  Len(s) \in Nat /\ s \in Seq(S) /\ \A i \in 1 .. Len(s) : s[i] \in S
<1>1. PICK m \in 0 .. n : s \in [1 .. m -> S]
  BY DEF BoundedSeq, SeqOf
<1>2. m \in Nat
  BY <1>1
<1> QED BY <1>1, <1>2

\* The default backend and those of the walk together
LEMMA ServicesIndexed ==
  ASSUME NEW mci \in MCIs
  PROVE  IndexOf(BuildServiceRefIndexes(mci), {s \in Services : Refers(mci, s)})
<1> DEFINE rules == mci.rules
           head == IF mci.default = NilBackend THEN <<>> ELSE <<mci.default>>
           backends == head \o Paths(rules)
<1>1. /\ mci.default \in Services \cup {NilBackend}
      /\ rules \in BoundedSeq(BoundedSeq(Services, MaxPaths) \cup {NilHTTP}, MaxRules)
  BY DEF MCIs
<1>2. /\ Len(rules) \in Nat
      /\ \A i \in 1 .. Len(rules) : rules[i] = NilHTTP \/ rules[i] \in Seq(Services)
  <2>1. /\ Len(rules) \in Nat
        /\ \A i \in 1 .. Len(rules) : rules[i] \in BoundedSeq(Services, MaxPaths) \cup {NilHTTP}
    BY <1>1, BoundedSequences
  <2> QED BY <2>1, BoundedSequences
<1>3. /\ Paths(rules) \in Seq(Services)
      /\ \A e : Contains(Paths(rules), e) <=>
                  \E i \in 1 .. Len(rules) :
                    rules[i] # NilHTTP /\ Contains(rules[i], e)
  BY <1>2, Walked
<1>4. /\ head \in Seq(Services)
      /\ \A e \in Services : Contains(head, e) <=> mci.default = e
  <2>1. CASE mci.default = NilBackend
    <3>1. head = <<>> /\ <<>> \in Seq(Services) /\ Len(<<>>) = 0
      BY <2>1, EmptySeq
    <3>2. 1 .. 0 = {}
      OBVIOUS
    <3>3. \A e \in Services : e # mci.default
      BY <2>1, IndexAssumption
    <3>4. \A e : ~Contains(<<>>, e)
      BY <3>1, <3>2, Zenon DEF Contains
    <3> QED BY <3>1, <3>3, <3>4, Zenon
  <2>2. CASE mci.default # NilBackend
    <3>1. mci.default \in Services /\ head = <<mci.default>>
      BY <1>1, <2>2
    <3> DEFINE d == mci.default
    <3>2. /\ <<d>> \in Seq(Services) /\ Len(<<d>>) = 1 /\ <<d>>[1] = d
          /\ 1 .. 1 = {1}
      BY <3>1
    <3>3. \A e : Contains(<<d>>, e) <=> d = e
      BY <3>2, Zenon DEF Contains
    <3> QED BY <3>1, <3>2, <3>3, Zenon
  <2> QED BY <2>1, <2>2
<1> HIDE DEF head
<1>5. /\ backends \in Seq(Services)
      /\ \A e : Contains(backends, e) <=> Contains(head, e) \/ Contains(Paths(rules), e)
  BY <1>3, <1>4, JoinTwo
<1>6. ~Contains(backends, ResourceBackend)
  BY <1>5, IndexAssumption, LenProperties DEF Contains
<1>7. BuildServiceRefIndexes(mci) = Sorted(ToSet(backends))
  BY <1>6, Zenon DEF BuildServiceRefIndexes, head
<1> HIDE DEF backends
<1>8. \A s \in Services : Contains(backends, s) <=> Refers(mci, s)
  BY <1>3, <1>4, <1>5, Zenon DEF Refers
<1>9. {e \in Services : Contains(backends, e)} = {s \in Services : Refers(mci, s)}
  BY <1>8
<1>10. IndexOf(Sorted(ToSet(backends)), {e \in Services : Contains(backends, e)})
  BY <1>5, IndexAssumption, ListIndexed
<1> QED BY <1>7, <1>9, <1>10

\* BuildServiceRefIndexes and BuildSecretRefIndexes list each Service and each
\* Secret that an MCI refers to, once and in order, for any number of rules,
\* paths and names.
THEOREM IndexesComplete == Spec => []IndexesExact
<1>1. ASSUME NEW mci \in MCIs
      PROVE  IndexOf(BuildSecretRefIndexes(mci), {s \in Secrets : Contains(mci.tls, s)})
  <2>1. mci.tls \in Seq(Secrets)
    BY BoundedSequences DEF MCIs
  <2> QED BY <2>1, IndexAssumption, ListIndexed DEF BuildSecretRefIndexes
<1>2. IndexesExact
  BY <1>1, ServicesIndexed DEF IndexesExact
<1> QED BY <1>2, PTL
=============================================================================
