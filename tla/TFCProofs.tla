----------------------------- MODULE TFCProofs -----------------------------
(***************************************************************************)
(* Proofs about the construction of T, F and C, for every set of programs, *)
(* actions and domain states that satisfies the assumptions of             *)
(* TFCProperties.                                                          *)
(***************************************************************************)
EXTENDS TFCProperties, FiniteSetTheorems, TLAPS

-----------------------------------------------------------------------------
(* Sequences used as a stack and as a queue.                               *)

\* Calling pushes one frame in front and keeps the callers, shifted by one.
LEMMA PushProperties ==
  ASSUME NEW S, NEW x \in S, NEW s \in Seq(S)
  PROVE  /\ <<x>> \o s \in Seq(S)
         /\ Len(<<x>> \o s) = Len(s) + 1
         /\ (<<x>> \o s)[1] = x
         /\ \A i \in 1 .. Len(s) : (<<x>> \o s)[i + 1] = s[i]
  OBVIOUS

\* Returning drops the front and shifts the rest back.
LEMMA TailProperties ==
  ASSUME NEW S, NEW s \in Seq(S), s # <<>>
  PROVE  /\ Head(s) \in S
         /\ Head(s) = s[1]
         /\ 1 \in DOMAIN s
         /\ Tail(s) \in Seq(S)
         /\ Len(Tail(s)) = Len(s) - 1
         /\ \A i \in 1 .. Len(s) - 1 : Tail(s)[i] = s[i + 1]
  OBVIOUS

\* Appending keeps the elements of both parts.
LEMMA AppendedElements ==
  ASSUME NEW S, NEW s \in Seq(S), NEW t \in Seq(S)
  PROVE  /\ s \o t \in Seq(S)
         /\ Len(s \o t) = Len(s) + Len(t)
         /\ \A i \in 1 .. Len(s) : (s \o t)[i] = s[i]
         /\ \A i \in 1 .. Len(t) : (s \o t)[i + Len(s)] = t[i]
  OBVIOUS

-----------------------------------------------------------------------------
(* Argument lists and frames.                                              *)

\* An order of a set of programs is a sequence of exactly its elements.
LEMMA OrdersType ==
  ASSUME NEW S \in SUBSET Programs, NEW o \in Orders(S)
  PROVE  /\ o \in Seq(S)
         /\ o \in Seq(Programs)
         /\ {o[i] : i \in DOMAIN o} = S
<1>1. Cardinality(S) \in Nat
  BY FS_Subset, FS_CardinalityType, SpaceAssumption
<1>2. o \in [1 .. Cardinality(S) -> S]
  BY DEF Orders
<1>3. o \in Seq(S) /\ o \in Seq(Programs)
  BY <1>1, <1>2
<1>. QED
  BY <1>2, <1>3 DEF Orders

\* The loop of a visit method runs over the arguments of the program, all of
\* them and nothing else.
LEMMA ArgListsType ==
  ASSUME NEW p \in Programs, NEW args \in ArgLists(p)
  PROVE  /\ args \in Seq(Programs)
         /\ {args[i] : i \in DOMAIN args} = Args(p)
         /\ IsSequence(p) => args = p[2]
         /\ IsIteration(p) => args = <<p[2]>>
         /\ IsLeaf(p) => args = <<>>
<1>1. CASE IsSequence(p)
  BY <1>1, SyntaxAssumption DEF ArgLists, Args, IsSequence, IsIteration, IsLeaf, IsChoice
<1>2. CASE IsChoice(p)
  <2>1. p[2] \in SUBSET Programs /\ args \in Orders(p[2])
    BY <1>2, SyntaxAssumption DEF ArgLists, IsSequence, IsIteration, IsLeaf, IsChoice
  <2>. QED
    BY <1>2, <2>1, OrdersType DEF Args, IsSequence, IsIteration, IsLeaf, IsChoice
<1>3. CASE IsIteration(p)
  <2>1. args = <<p[2]>> /\ p[2] \in Programs
    BY <1>3, SyntaxAssumption DEF ArgLists, IsSequence, IsIteration, IsLeaf, IsChoice
  <2>. QED
    BY <1>3, <2>1 DEF Args, IsSequence, IsIteration, IsLeaf, IsChoice
<1>4. CASE ~ IsSequence(p) /\ ~ IsChoice(p) /\ ~ IsIteration(p)
  <2>1. args = <<>> /\ Args(p) = {}
    BY <1>4 DEF ArgLists, Args
  <2>. QED
    BY <1>4, <2>1
<1>. QED
  BY <1>1, <1>2, <1>3, <1>4

\* A program's arguments belong to the space and are smaller than it.
LEMMA ArgsSmaller ==
  ASSUME NEW p \in Programs, NEW q \in Args(p)
  PROVE  q \in Programs /\ Depth[q] < Depth[p] /\ Depth[q] \in Nat /\ Depth[p] \in Nat
<1>1. q \in Programs
  BY SyntaxAssumption DEF Args, IsSequence, IsIteration, IsChoice
<1>. QED
  BY <1>1, DepthAssumption

\* A call of visit on a program starts with a frame for it.
LEMMA FramesType ==
  ASSUME NEW p \in Programs, NEW fr \in Frames(p)
  PROVE  /\ fr \in FrameType
         /\ fr.prog = p /\ fr.next = 1 /\ fr.args \in ArgLists(p)
         /\ fr.f = IF IsChoice(p) THEN {} ELSE States
<1>1. PICK args \in ArgLists(p) :
        fr = [prog |-> p, args |-> args, next |-> 1, f |-> IF IsChoice(p) THEN {} ELSE States]
  BY DEF Frames
<1>2. args \in Seq(Programs)
  BY ArgListsType
<1>. QED
  BY <1>1, <1>2 DEF FrameType

\* The argument an active call is at.
LEMMA CurrentArgType ==
  ASSUME NEW fr \in FrameType, NEW i \in DOMAIN fr.args
  PROVE  /\ fr.args[i] \in Args(fr.prog)
         /\ fr.args[i] \in Programs
         /\ Depth[fr.args[i]] < Depth[fr.prog]
<1>1. fr.prog \in Programs /\ fr.args \in ArgLists(fr.prog)
  BY DEF FrameType
<1>2. fr.args[i] \in Args(fr.prog)
  BY <1>1, ArgListsType
<1>. QED
  BY <1>1, <1>2, ArgsSmaller

-----------------------------------------------------------------------------
(* What a step leaves alone.                                               *)

\* Every value that is published, and T of its program, stays as it is.
Stable ==
  /\ \A q \in DOMAIN final :
       /\ q \in DOMAIN final'
       /\ final'[q] = final[q]
       /\ cont'[q] = cont[q]
       /\ TransOf(trans', q) = TransOf(trans, q)
  /\ trans \subseteq trans'

\* The innermost call is well typed and its program counts as visited.
LEMMA TopType ==
  ASSUME IInv, stack # <<>>
  PROVE  /\ Top = stack[1] /\ 1 \in DOMAIN stack
         /\ Top \in FrameType
         /\ Top.prog \in Programs /\ Top.prog \in visited
         /\ Top.args \in Seq(Programs) /\ Top.args \in ArgLists(Top.prog)
         /\ Top.next \in Nat \ {0} /\ Top.next <= Len(Top.args) + 1
         /\ Top.f \in SUBSET States
<1>1. stack \in Seq(FrameType)
  BY DEF IInv, TypeOK
<1>2. Top = stack[1] /\ 1 \in DOMAIN stack /\ Top \in FrameType
  BY <1>1, TailProperties DEF Top
<1>. QED
  BY <1>2 DEF IInv, VisitedIsDoneOrActive, FrameType

\* The argument a call is at: a smaller program of the space.
LEMMA AtArgType ==
  ASSUME IInv, AtArg
  PROVE  /\ Top.next \in DOMAIN Top.args
         /\ CurrentArg \in Args(Top.prog)
         /\ CurrentArg \in Programs
         /\ Depth[CurrentArg] < Depth[Top.prog]
         /\ Depth[CurrentArg] \in Nat /\ Depth[Top.prog] \in Nat
<1>1. stack # <<>> /\ Top.next <= Len(Top.args)
  BY DEF AtArg
<1>2. Top.next \in DOMAIN Top.args
  BY <1>1, TopType
<1>. QED
  BY <1>1, <1>2, TopType, CurrentArgType, DepthAssumption DEF CurrentArg

\* An argument that counts as visited is not in an active call: the active
\* calls are on larger programs.  So it has its values.
LEMMA ArgHasFinal ==
  ASSUME IInv, AtArg, CurrentArg \in visited
  PROVE  CurrentArg \in DOMAIN final
<1>1. SUFFICES ASSUME NEW i \in DOMAIN stack, stack[i].prog = CurrentArg
               PROVE  FALSE
  BY DEF IInv, VisitedIsDoneOrActive
<1>2. stack # <<>> /\ Top = stack[1] /\ 1 \in DOMAIN stack
  BY TopType DEF AtArg
<1>3. Depth[CurrentArg] < Depth[Top.prog] /\ Depth[CurrentArg] \in Nat /\ Depth[Top.prog] \in Nat
  BY AtArgType
<1>4. i \in Nat /\ i >= 1
  BY DEF IInv, TypeOK
<1>5. CASE i = 1
  BY <1>1, <1>2, <1>3, <1>5
<1>6. CASE i > 1
  <2>1. Depth[stack[1].prog] < Depth[stack[i].prog]
    BY <1>2, <1>6 DEF IInv, CallsNested
  <2>. QED
    BY <2>1, <1>1, <1>2, <1>3
<1>. QED
  BY <1>4, <1>5, <1>6

\* Entries that the equation of their program justifies do not change T of a
\* program that has its values: T of such a program already has them.
LEMMA AddedEntriesStable ==
  ASSUME IInv, NEW x \in Programs, NEW E,
         \A t \in E : t.prog = x,
         E \subseteq TransEquation(trans, final, x)
  PROVE  \A q \in DOMAIN final : TransOf(trans \cup E, q) = TransOf(trans, q)
<1>. SUFFICES ASSUME NEW q \in DOMAIN final
              PROVE  TransOf(trans \cup E, q) = TransOf(trans, q)
  OBVIOUS
<1>1. CASE q = x
  <2>1. TransOf(trans, x) = TransEquation(trans, final, x)
    BY <1>1 DEF IInv, DoneIsSolved, Solved
  <2>. QED
    BY <1>1, <2>1 DEF TransOf
<1>2. CASE q # x
  BY <1>2 DEF TransOf
<1>. QED
  BY <1>1, <1>2

\* The entries a sequence takes from its i-th argument.
LEMMA SequenceEntriesType ==
  ASSUME IInv, NEW p \in Programs, IsSequence(p), NEW i \in DOMAIN p[2]
  PROVE  /\ \A t \in SequenceEntries(trans, final, p, p[2], i) :
              t \in Entry /\ t.prog = p /\ t.succ \in Succs[p]
         /\ SequenceEntries(trans, final, p, p[2], i) \subseteq TransEquation(trans, final, p)
<1>1. SUFFICES ASSUME NEW t \in SequenceEntries(trans, final, p, p[2], i)
               PROVE  t \in Entry /\ t.prog = p /\ t.succ \in Succs[p]
  BY DEF TransEquation, IsSequence, IsChoice, IsIteration
<1>2. PICK u \in TransOf(trans, p[2][i]) :
        t = [prog |-> p, act |-> u.act,
             guard |-> SkippedBefore(final, p[2], i) \cap u.guard, succ |-> Rest(p[2], i, u.succ)]
  BY <1>1 DEF SequenceEntries
<1>3. u \in Entry /\ u.prog = p[2][i] /\ u.succ \in Succs[u.prog]
  BY <1>2 DEF TransOf, IInv, TypeOK, EntriesJustified
<1>4. Rest(p[2], i, u.succ) \in Succs[p]
  BY <1>3, SuccsAssumption
<1>5. Rest(p[2], i, u.succ) \in Programs
  BY <1>4, SpaceAssumption
<1>. QED
  BY <1>2, <1>3, <1>4, <1>5 DEF Entry, SkippedBefore

\* The entries a choice takes over from a branch.
LEMMA ChoiceEntriesType ==
  ASSUME IInv, NEW p \in Programs, IsChoice(p), NEW q \in p[2]
  PROVE  /\ \A t \in ChoiceEntries(trans, p, q) :
              t \in Entry /\ t.prog = p /\ t.succ \in Succs[p]
         /\ ChoiceEntries(trans, p, q) \subseteq TransEquation(trans, final, p)
<1>1. SUFFICES ASSUME NEW t \in ChoiceEntries(trans, p, q)
               PROVE  t \in Entry /\ t.prog = p /\ t.succ \in Succs[p]
  BY DEF TransEquation, IsChoice, IsSequence, IsIteration
<1>2. PICK u \in TransOf(trans, q) : t = [u EXCEPT !.prog = p]
  BY <1>1 DEF ChoiceEntries
<1>3. u \in Entry /\ u.prog = q /\ u.succ \in Succs[q]
  BY <1>2 DEF TransOf, IInv, TypeOK, EntriesJustified
<1>4. u.succ \in Succs[p]
  BY <1>3, SuccsAssumption
<1>. QED
  BY <1>2, <1>3, <1>4 DEF Entry

\* The entries an iteration makes from those of its body.
LEMMA IterationEntriesType ==
  ASSUME IInv, NEW p \in Programs, IsIteration(p)
  PROVE  /\ \A t \in IterationEntries(trans, p) :
              t \in Entry /\ t.prog = p /\ t.succ \in Succs[p]
         /\ IterationEntries(trans, p) \subseteq TransEquation(trans, final, p)
<1>1. SUFFICES ASSUME NEW t \in IterationEntries(trans, p)
               PROVE  t \in Entry /\ t.prog = p /\ t.succ \in Succs[p]
  BY DEF TransEquation, IsChoice, IsSequence, IsIteration
<1>2. PICK u \in TransOf(trans, p[2]) :
        t = [prog |-> p, act |-> u.act, guard |-> u.guard, succ |-> Sequence(<<u.succ, p>>)]
  BY <1>1 DEF IterationEntries
<1>3. u \in Entry /\ u.prog = p[2] /\ u.succ \in Succs[p[2]]
  BY <1>2 DEF TransOf, IInv, TypeOK, EntriesJustified
<1>4. Sequence(<<u.succ, p>>) \in Succs[p]
  BY <1>3, SuccsAssumption
<1>5. Sequence(<<u.succ, p>>) \in Programs
  BY <1>4, SpaceAssumption
<1>. QED
  BY <1>2, <1>3, <1>4, <1>5 DEF Entry

-----------------------------------------------------------------------------
(* Stability: the equations of a program whose arguments have their values *)
(* give the same result after a stable step.                               *)

\* What a sequence makes of its i-th argument depends on the first i only.
LEMMA SequenceEntriesStable ==
  ASSUME Stable, NEW p, NEW args, NEW i \in Nat,
         \A j \in 1 .. i : args[j] \in DOMAIN final, i >= 1
  PROVE  /\ SkippedBefore(final', args, i) = SkippedBefore(final, args, i)
         /\ SequenceEntries(trans', final', p, args, i) = SequenceEntries(trans, final, p, args, i)
<1>1. \A j \in 1 .. i - 1 : final'[args[j]] = final[args[j]]
  BY DEF Stable
<1>2. SkippedBefore(final', args, i) = SkippedBefore(final, args, i)
  BY <1>1 DEF SkippedBefore
<1>3. TransOf(trans', args[i]) = TransOf(trans, args[i])
  BY DEF Stable
<1>. QED
  BY <1>2, <1>3 DEF SequenceEntries

\* A stable step does not change the equations of a program whose arguments
\* have their values.
LEMMA EquationsStable ==
  ASSUME Stable, NEW p \in Programs, Args(p) \subseteq DOMAIN final
  PROVE  /\ TransEquation(trans', final', p) = TransEquation(trans, final, p)
         /\ FinalEquation(final', p) = FinalEquation(final, p)
<1>1. CASE IsSequence(p)
  <2>1. p[2] \in Seq(Programs) /\ \A i \in DOMAIN p[2] : p[2][i] \in DOMAIN final
    BY <1>1, SyntaxAssumption DEF Args, IsSequence, IsChoice, IsIteration
  <2>2. \A i \in DOMAIN p[2] :
          SequenceEntries(trans', final', p, p[2], i) = SequenceEntries(trans, final, p, p[2], i)
    <3>. TAKE i \in DOMAIN p[2]
    <3>1. i \in Nat /\ i >= 1 /\ \A j \in 1 .. i : p[2][j] \in DOMAIN final
      BY <2>1
    <3>. QED
      BY <3>1, SequenceEntriesStable
  <2>3. \A i \in DOMAIN p[2] : final'[p[2][i]] = final[p[2][i]]
    BY <2>1 DEF Stable
  <2>4. TransEquation(trans', final', p) = TransEquation(trans, final, p)
    <3>1. \A T, F : TransEquation(T, F, p) =
                      UNION {SequenceEntries(T, F, p, p[2], i) : i \in DOMAIN p[2]}
      BY <1>1 DEF TransEquation, IsSequence, IsChoice, IsIteration
    <3>2. {SequenceEntries(trans', final', p, p[2], i) : i \in DOMAIN p[2]} =
          {SequenceEntries(trans, final, p, p[2], i) : i \in DOMAIN p[2]}
      BY <2>2
    <3>. QED
      BY <3>1, <3>2
  <2>5. FinalEquation(final', p) = FinalEquation(final, p)
    <3>1. FinalEquation(final', p) = {s \in States : \A i \in DOMAIN p[2] : s \in final'[p[2][i]]}
      BY <1>1 DEF FinalEquation, IsSequence, IsChoice, IsIteration
    <3>2. FinalEquation(final, p) = {s \in States : \A i \in DOMAIN p[2] : s \in final[p[2][i]]}
      BY <1>1 DEF FinalEquation, IsSequence, IsChoice, IsIteration
    <3>. QED
      BY <2>3, <3>1, <3>2
  <2>. QED
    BY <2>4, <2>5
<1>2. CASE IsChoice(p)
  <2>1. \A q \in p[2] : q \in DOMAIN final
    BY <1>2 DEF Args, IsSequence, IsChoice, IsIteration
  <2>2. \A q \in p[2] : final'[q] = final[q] /\ TransOf(trans', q) = TransOf(trans, q)
    BY <2>1 DEF Stable
  <2>3. \A q \in p[2] : ChoiceEntries(trans', p, q) = ChoiceEntries(trans, p, q)
    BY <2>2 DEF ChoiceEntries
  <2>4. TransEquation(trans', final', p) = TransEquation(trans, final, p)
    <3>1. \A T, F : TransEquation(T, F, p) = UNION {ChoiceEntries(T, p, q) : q \in p[2]}
      BY <1>2 DEF TransEquation, IsSequence, IsChoice, IsIteration
    <3>2. {ChoiceEntries(trans', p, q) : q \in p[2]} = {ChoiceEntries(trans, p, q) : q \in p[2]}
      BY <2>3
    <3>. QED
      BY <3>1, <3>2
  <2>5. FinalEquation(final', p) = FinalEquation(final, p)
    <3>1. \A F : FinalEquation(F, p) = UNION {F[q] : q \in p[2]}
      BY <1>2 DEF FinalEquation, IsSequence, IsChoice, IsIteration
    <3>2. {final'[q] : q \in p[2]} = {final[q] : q \in p[2]}
      BY <2>2
    <3>. QED
      BY <3>1, <3>2
  <2>. QED
    BY <2>4, <2>5
<1>3. CASE IsIteration(p)
  <2>1. p[2] \in DOMAIN final
    BY <1>3 DEF Args, IsSequence, IsChoice, IsIteration
  <2>2. TransOf(trans', p[2]) = TransOf(trans, p[2])
    BY <2>1 DEF Stable
  <2>. QED
    BY <1>3, <2>2 DEF TransEquation, FinalEquation, IterationEntries, IsSequence, IsChoice, IsIteration
<1>4. CASE ~ IsSequence(p) /\ ~ IsChoice(p) /\ ~ IsIteration(p)
  BY <1>4 DEF TransEquation, FinalEquation
<1>. QED
  BY <1>1, <1>2, <1>3, <1>4

\* A solved program stays solved.
LEMMA SolvedStable ==
  ASSUME IInv, Stable, NEW p \in DOMAIN final
  PROVE  Solved(p)'
<1>1. p \in Programs /\ Solved(p)
  BY DEF IInv, TypeOK, DoneIsSolved
<1>2. Args(p) \subseteq DOMAIN final'
  BY <1>1 DEF Solved, Stable
<1>3. TransEquation(trans', final', p) = TransEquation(trans, final, p)
      /\ FinalEquation(final', p) = FinalEquation(final, p)
  BY <1>1, EquationsStable DEF Solved
<1>4. TransOf(trans', p) = TransOf(trans, p) /\ final'[p] = final[p] /\ cont'[p] = cont[p]
  BY DEF Stable
<1>. QED
  BY <1>1, <1>2, <1>3, <1>4 DEF Solved, Continuation

\* A justified entry stays justified.
LEMMA JustifiedStable ==
  ASSUME Stable, NEW t, t.prog \in Programs, Justified(t)
  PROVE  Justified(t)'
<1>1. t.prog \in Programs /\ Justified(t)
  OBVIOUS
<1>2. CASE IsSequence(t.prog)
  <2>1. PICK i \in DOMAIN t.prog[2] :
          /\ \A j \in 1 .. i : t.prog[2][j] \in DOMAIN final
          /\ t \in SequenceEntries(trans, final, t.prog, t.prog[2], i)
    BY <1>1, <1>2 DEF Justified, IsSequence, IsChoice, IsIteration
  <2>2. i \in Nat /\ i >= 1
    BY <1>1, <1>2, SyntaxAssumption
  <2>3. t \in SequenceEntries(trans', final', t.prog, t.prog[2], i)
    BY <2>1, <2>2, SequenceEntriesStable
  <2>4. \A j \in 1 .. i : t.prog[2][j] \in DOMAIN final'
    BY <2>1 DEF Stable
  <2>. QED
    BY <1>2, <2>3, <2>4 DEF Justified, IsSequence, IsChoice, IsIteration
<1>3. CASE IsChoice(t.prog)
  <2>1. PICK q \in t.prog[2] \cap DOMAIN final : t \in ChoiceEntries(trans, t.prog, q)
    BY <1>1, <1>3 DEF Justified, IsSequence, IsChoice, IsIteration
  <2>2. q \in DOMAIN final' /\ TransOf(trans', q) = TransOf(trans, q)
    BY <2>1 DEF Stable
  <2>3. t \in ChoiceEntries(trans', t.prog, q)
    BY <2>1, <2>2 DEF ChoiceEntries
  <2>. QED
    BY <1>3, <2>1, <2>2, <2>3 DEF Justified, IsSequence, IsChoice, IsIteration
<1>4. CASE IsIteration(t.prog)
  <2>1. t.prog[2] \in DOMAIN final /\ t \in IterationEntries(trans, t.prog)
    BY <1>1, <1>4 DEF Justified, IsSequence, IsChoice, IsIteration
  <2>2. t.prog[2] \in DOMAIN final' /\ TransOf(trans', t.prog[2]) = TransOf(trans, t.prog[2])
    BY <2>1 DEF Stable
  <2>. QED
    BY <1>4, <2>1, <2>2 DEF Justified, IterationEntries, IsSequence, IsChoice, IsIteration
<1>5. CASE ~ IsSequence(t.prog) /\ ~ IsChoice(t.prog) /\ ~ IsIteration(t.prog)
  BY <1>1, <1>5 DEF Justified, TransEquation
<1>. QED
  BY <1>2, <1>3, <1>4, <1>5

-----------------------------------------------------------------------------
(* The updates of the partial maps.                                        *)

\* The end of a visit publishes F and C of its program.  The step is stable
\* when T of the published programs is kept and F is what it was.
LEMMA PublishStable ==
  ASSUME IInv, NEW p \in Programs, NEW F,
         trans \subseteq trans',
         \A q \in DOMAIN final : TransOf(trans', q) = TransOf(trans, q),
         DOMAIN F = DOMAIN final \cup {p},
         \A q \in DOMAIN final : F[q] = final[q],
         final' = F,
         cont' = Store(cont, p, Continuation(trans', p, F[p]))
  PROVE  Stable
<1>. SUFFICES ASSUME NEW q \in DOMAIN final
              PROVE  q \in DOMAIN final' /\ final'[q] = final[q] /\ cont'[q] = cont[q]
  BY DEF Stable
<1>1. DOMAIN cont = DOMAIN final
  BY DEF IInv, TypeOK
<1>2. CASE q = p
  <2>1. cont'[p] = Continuation(trans', p, F[p])
    BY DEF Store
  <2>2. cont[p] = Continuation(trans, p, final[p])
    BY <1>2 DEF IInv, DoneIsSolved, Solved
  <2>. QED
    BY <1>2, <2>1, <2>2 DEF Continuation
<1>3. CASE q # p
  BY <1>1, <1>3 DEF Store
<1>. QED
  BY <1>2, <1>3

\* C of a program is a state set.
LEMMA ContinuationType ==
  ASSUME NEW T \in SUBSET Entry, NEW p, NEW fp \in SUBSET States
  PROVE  Continuation(T, p, fp) \in SUBSET States
<1>1. \A t \in TransOf(T, p) : t.guard \in SUBSET States
  BY DEF TransOf, Entry
<1>. SUFFICES ASSUME NEW s \in Continuation(T, p, fp)
              PROVE  s \in States
  OBVIOUS
<1>2. s \in fp \/ \E t \in TransOf(T, p) : s \in t.guard
  BY DEF Continuation
<1>. QED
  BY <1>1, <1>2

\* The published values are state sets over the published programs.
LEMMA PublishType ==
  ASSUME IInv, NEW p \in Programs, NEW F,
         trans' \subseteq Entry,
         DOMAIN F = DOMAIN final \cup {p}, F \in [DOMAIN F -> SUBSET States],
         \A q \in DOMAIN final : F[q] = final[q],
         final' = F,
         cont' = Store(cont, p, Continuation(trans', p, F[p]))
  PROVE  /\ DOMAIN final' \subseteq Programs
         /\ final' \in [DOMAIN final' -> SUBSET States]
         /\ cont' \in [DOMAIN final' -> SUBSET States]
<1>1. DOMAIN final \subseteq Programs /\ final \in [DOMAIN final -> SUBSET States]
      /\ cont \in [DOMAIN final -> SUBSET States]
  BY DEF IInv, TypeOK
<1>2. final' \in [DOMAIN final' -> SUBSET States]
  BY <1>1
<1>3. Continuation(trans', p, F[p]) \in SUBSET States
  BY ContinuationType
<1>4. cont' \in [DOMAIN final' -> SUBSET States]
  <2>1. DOMAIN cont' = DOMAIN final' /\ cont' = [q \in DOMAIN cont' |-> cont'[q]]
    BY <1>1 DEF Store
  <2>2. ASSUME NEW q \in DOMAIN final' PROVE cont'[q] \in SUBSET States
    BY <1>1, <1>3 DEF Store
  <2>. QED
    BY <2>1, <2>2
<1>. QED
  BY <1>1, <1>2, <1>4

-----------------------------------------------------------------------------
(* The call stack.                                                         *)

\* A call that has just begun has combined nothing.
LEMMA NewFrameCombined ==
  ASSUME NEW p \in Programs, NEW fr \in Frames(p)
  PROVE  FrameCombined(fr)'
<1>1. fr.prog = p /\ fr.next = 1 /\ fr.f = IF IsChoice(p) THEN {} ELSE States
  BY FramesType
<1>2. 1 .. fr.next - 1 = {}
  BY <1>1
<1>3. IsSequence(p) => fr.f = States
  BY <1>1 DEF IsSequence, IsChoice
<1>4. IsIteration(p) => fr.f = States
  BY <1>1 DEF IsIteration, IsChoice
<1>5. SkippedBefore(final', fr.args, fr.next) = States
  BY <1>2 DEF SkippedBefore
<1>6. UNION {final'[fr.args[j]] : j \in 1 .. fr.next - 1} = {}
  BY <1>2
<1>7. \A j \in 1 .. fr.next - 1 : FALSE
  BY <1>2
<1>. QED
  BY <1>1, <1>2, <1>3, <1>4, <1>5, <1>6, <1>7 DEF FrameCombined

\* What an active call has combined stays combined.
LEMMA FrameCombinedStable ==
  ASSUME Stable, NEW fr \in FrameType, FrameCombined(fr)
  PROVE  FrameCombined(fr)'
<1>. DEFINE before == 1 .. fr.next - 1
<1>1. /\ fr.next \in Nat \ {0} /\ fr.prog \in Programs
      /\ fr.args \in ArgLists(fr.prog) /\ before \subseteq DOMAIN fr.args
  BY DEF FrameType
<1>2. \A j \in before : /\ fr.args[j] \in DOMAIN final /\ fr.args[j] \in DOMAIN final'
                        /\ final'[fr.args[j]] = final[fr.args[j]]
                        /\ TransOf(trans', fr.args[j]) = TransOf(trans, fr.args[j])
  BY DEF FrameCombined, Stable
<1>3. trans \subseteq trans'
  BY DEF Stable
<1>4. ASSUME IsSequence(fr.prog)
      PROVE  /\ fr.f = SkippedBefore(final', fr.args, fr.next)
             /\ \A j \in before :
                  SequenceEntries(trans', final', fr.prog, fr.args, j) \subseteq trans'
  <2>1. SkippedBefore(final', fr.args, fr.next) = SkippedBefore(final, fr.args, fr.next)
    BY <1>2 DEF SkippedBefore
  <2>2. ASSUME NEW j \in before
        PROVE  SequenceEntries(trans', final', fr.prog, fr.args, j) =
               SequenceEntries(trans, final, fr.prog, fr.args, j)
    <3>1. j \in Nat /\ j >= 1 /\ \A k \in 1 .. j : k \in before
      BY <1>1
    <3>. QED
      BY <1>2, <3>1, SequenceEntriesStable
  <2>. QED
    BY <1>3, <1>4, <2>1, <2>2 DEF FrameCombined
<1>5. ASSUME IsChoice(fr.prog)
      PROVE  /\ fr.f = UNION {final'[fr.args[j]] : j \in before}
             /\ \A j \in before : ChoiceEntries(trans', fr.prog, fr.args[j]) \subseteq trans'
  <2>1. {final'[fr.args[j]] : j \in before} = {final[fr.args[j]] : j \in before}
    BY <1>2
  <2>2. \A j \in before : ChoiceEntries(trans', fr.prog, fr.args[j]) =
                          ChoiceEntries(trans, fr.prog, fr.args[j])
    BY <1>2 DEF ChoiceEntries
  <2>. QED
    BY <1>3, <1>5, <2>1, <2>2 DEF FrameCombined
<1>6. ASSUME IsIteration(fr.prog)
      PROVE  /\ fr.f = States
             /\ before # {} => IterationEntries(trans', fr.prog) \subseteq trans'
  <2>1. fr.args = <<fr.prog[2]>>
    BY <1>1, <1>6, ArgListsType
  <2>2. before # {} => TransOf(trans', fr.prog[2]) = TransOf(trans, fr.prog[2])
    BY <1>1, <1>2, <2>1
  <2>. QED
    BY <1>3, <1>6, <2>2 DEF FrameCombined, IterationEntries
<1>. QED
  BY <1>2, <1>4, <1>5, <1>6 DEF FrameCombined

\* A call begins: its frame is pushed in front of its caller's.
LEMMA PushedStack ==
  ASSUME IInv, NEW p \in Programs, NEW fr \in Frames(p), stack' = <<fr>> \o stack, Stable,
         \A i \in DOMAIN stack : Depth[p] < Depth[stack[i].prog],
         stack # <<>> => Top.next <= Len(Top.args) /\ p = Top.args[Top.next]
  PROVE  /\ stack' \in Seq(FrameType)
         /\ DOMAIN stack' = 1 .. Len(stack) + 1
         /\ stack'[1] = fr /\ \A i \in 1 .. Len(stack) : stack'[i + 1] = stack[i]
         /\ CallsNested' /\ CallsCombined'
<1>1. stack \in Seq(FrameType) /\ fr \in FrameType /\ fr.prog = p
  BY FramesType DEF IInv, TypeOK
<1>2. /\ stack' \in Seq(FrameType) /\ Len(stack') = Len(stack) + 1
      /\ stack'[1] = fr /\ \A i \in 1 .. Len(stack) : stack'[i + 1] = stack[i]
  BY <1>1, PushProperties
<1>3. DOMAIN stack' = 1 .. Len(stack) + 1 /\ Len(stack) \in Nat
  BY <1>1, <1>2
<1>4. \A i \in 1 .. Len(stack) + 1 : i = 1 \/ (i - 1 \in 1 .. Len(stack) /\ stack'[i] = stack[i - 1])
  BY <1>2, <1>3
<1>5. CallsNested'
  <2>1. ASSUME NEW i \in 1 .. Len(stack')  - 1
        PROVE  /\ stack'[i + 1].next <= Len(stack'[i + 1].args)
               /\ stack'[i].prog = stack'[i + 1].args[stack'[i + 1].next]
    <3>1. CASE i = 1
      <4>1. stack # <<>> /\ Top = stack[1]
        BY <1>1, <1>2, <3>1, TailProperties DEF Top
      <4>2. stack'[2] = stack[1]
        BY <1>2, <1>3, <3>1
      <4>. QED
        BY <1>1, <1>2, <3>1, <4>1, <4>2
    <3>2. CASE i # 1
      <4>1. i - 1 \in 1 .. Len(stack) - 1 /\ stack'[i] = stack[i - 1] /\ stack'[i + 1] = stack[i]
        BY <1>2, <1>3, <3>2
      <4>2. (i - 1) + 1 = i
        OBVIOUS
      <4>. QED
        BY <4>1, <4>2 DEF IInv, CallsNested
    <3>. QED
      BY <3>1, <3>2
  <2>2. ASSUME NEW i \in DOMAIN stack', NEW j \in DOMAIN stack', i < j
        PROVE  Depth[stack'[i].prog] < Depth[stack'[j].prog]
    <3>1. j - 1 \in DOMAIN stack /\ stack'[j] = stack[j - 1]
      BY <1>1, <1>3, <1>4, <2>2
    <3>2. CASE i = 1
      BY <1>1, <1>2, <3>1, <3>2
    <3>3. CASE i # 1
      <4>1. i - 1 \in DOMAIN stack /\ stack'[i] = stack[i - 1] /\ i - 1 < j - 1
        BY <1>1, <1>3, <1>4, <2>2, <3>3
      <4>. QED
        BY <3>1, <4>1 DEF IInv, CallsNested
    <3>. QED
      BY <3>2, <3>3
  <2>. QED
    BY <2>1, <2>2 DEF CallsNested
<1>6. CallsCombined'
  <2>1. ASSUME NEW i \in DOMAIN stack' PROVE FrameCombined(stack[i])'
    <3>1. CASE i = 1
      BY <1>2, <3>1, NewFrameCombined
    <3>2. CASE i # 1
      <4>1. i - 1 \in DOMAIN stack /\ stack'[i] = stack[i - 1]
        BY <1>1, <1>3, <1>4, <3>2
      <4>2. PICK g \in FrameType : g = stack[i - 1] /\ FrameCombined(g)
        BY <1>1, <4>1 DEF IInv, CallsCombined
      <4>3. FrameCombined(g)'
        BY <4>2, FrameCombinedStable
      <4>. QED
        BY <4>1, <4>2, <4>3
    <3>. QED
      BY <3>1, <3>2
  <2>. QED
    BY <2>1 DEF CallsCombined
<1>. QED
  BY <1>2, <1>3, <1>5, <1>6

\* A call returns: the callers stay as they were.
LEMMA PoppedStack ==
  ASSUME IInv, stack # <<>>, stack' = Tail(stack), Stable
  PROVE  /\ stack' \in Seq(FrameType)
         /\ DOMAIN stack' = 1 .. Len(stack) - 1
         /\ \A i \in 1 .. Len(stack) - 1 : stack'[i] = stack[i + 1]
         /\ CallsNested' /\ CallsCombined'
<1>1. stack \in Seq(FrameType)
  BY DEF IInv, TypeOK
<1>2. /\ stack' \in Seq(FrameType) /\ Len(stack') = Len(stack) - 1
      /\ \A i \in 1 .. Len(stack) - 1 : stack'[i] = stack[i + 1]
  BY <1>1, TailProperties
<1>3. DOMAIN stack' = 1 .. Len(stack) - 1 /\ Len(stack) \in Nat /\ DOMAIN stack = 1 .. Len(stack)
  BY <1>1, <1>2
<1>4. CallsNested'
  <2>1. ASSUME NEW i \in 1 .. Len(stack')  - 1
        PROVE  /\ stack'[i + 1].next <= Len(stack'[i + 1].args)
               /\ stack'[i].prog = stack'[i + 1].args[stack'[i + 1].next]
    <3>1. i + 1 \in 1 .. Len(stack) - 1 /\ stack'[i] = stack[i + 1] /\ stack'[i + 1] = stack[(i + 1) + 1]
      BY <1>2, <1>3
    <3>. QED
      BY <3>1 DEF IInv, CallsNested
  <2>2. ASSUME NEW i \in DOMAIN stack', NEW j \in DOMAIN stack', i < j
        PROVE  Depth[stack'[i].prog] < Depth[stack'[j].prog]
    <3>1. i + 1 \in DOMAIN stack /\ j + 1 \in DOMAIN stack /\ i + 1 < j + 1
          /\ stack'[i] = stack[i + 1] /\ stack'[j] = stack[j + 1]
      BY <1>2, <1>3, <2>2
    <3>. QED
      BY <3>1 DEF IInv, CallsNested
  <2>. QED
    BY <2>1, <2>2 DEF CallsNested
<1>5. CallsCombined'
  <2>1. ASSUME NEW i \in DOMAIN stack' PROVE FrameCombined(stack[i])'
    <3>1. i + 1 \in DOMAIN stack /\ stack'[i] = stack[i + 1]
      BY <1>2, <1>3
    <3>2. PICK g \in FrameType : g = stack[i + 1] /\ FrameCombined(g)
      BY <1>1, <3>1 DEF IInv, CallsCombined
    <3>3. FrameCombined(g)'
      BY <3>2, FrameCombinedStable
    <3>. QED
      BY <3>1, <3>2, <3>3
  <2>. QED
    BY <2>1 DEF CallsCombined
<1>. QED
  BY <1>2, <1>3, <1>4, <1>5

\* A call moves to its next argument: only its own frame changes.
LEMMA AdvancedStack ==
  ASSUME IInv, stack # <<>>, NEW fr \in FrameType, fr.prog = Top.prog,
         stack' = <<fr>> \o Tail(stack), Stable, FrameCombined(fr)'
  PROVE  /\ stack' \in Seq(FrameType)
         /\ DOMAIN stack' = DOMAIN stack
         /\ stack'[1] = fr /\ \A i \in DOMAIN stack : i # 1 => stack'[i] = stack[i]
         /\ \A i \in DOMAIN stack : stack'[i].prog = stack[i].prog
         /\ CallsNested' /\ CallsCombined'
<1>1. stack \in Seq(FrameType) /\ Top = stack[1]
  BY TailProperties DEF IInv, TypeOK, Top
<1>2. /\ Tail(stack) \in Seq(FrameType) /\ Len(Tail(stack)) = Len(stack) - 1
      /\ \A i \in 1 .. Len(stack) - 1 : Tail(stack)[i] = stack[i + 1]
  BY <1>1, TailProperties
<1>3. /\ stack' \in Seq(FrameType) /\ Len(stack') = Len(stack)
      /\ stack'[1] = fr
      /\ \A i \in 1 .. Len(stack) - 1 : stack'[i + 1] = Tail(stack)[i]
  BY <1>1, <1>2, PushProperties
<1>4. DOMAIN stack' = 1 .. Len(stack) /\ Len(stack) \in Nat /\ DOMAIN stack = 1 .. Len(stack)
  BY <1>1, <1>3
<1>5. \A i \in DOMAIN stack : i # 1 => stack'[i] = stack[i]
  <2>. SUFFICES ASSUME NEW i \in DOMAIN stack, i # 1 PROVE stack'[i] = stack[i]
    OBVIOUS
  <2>1. i - 1 \in 1 .. Len(stack) - 1 /\ (i - 1) + 1 = i
    BY <1>4
  <2>. QED
    BY <1>2, <1>3, <2>1
<1>6. \A i \in DOMAIN stack : stack'[i].prog = stack[i].prog
  BY <1>1, <1>3, <1>5
<1>7. CallsNested'
  <2>1. ASSUME NEW i \in 1 .. Len(stack')  - 1
        PROVE  /\ stack'[i + 1].next <= Len(stack'[i + 1].args)
               /\ stack'[i].prog = stack'[i + 1].args[stack'[i + 1].next]
    <3>1. i + 1 \in DOMAIN stack /\ i + 1 # 1 /\ i \in 1 .. Len(stack) - 1 /\ i \in DOMAIN stack
      BY <1>3, <1>4
    <3>. QED
      BY <3>1, <1>5, <1>6 DEF IInv, CallsNested
  <2>2. ASSUME NEW i \in DOMAIN stack', NEW j \in DOMAIN stack', i < j
        PROVE  Depth[stack'[i].prog] < Depth[stack'[j].prog]
    BY <1>4, <1>6, <2>2 DEF IInv, CallsNested
  <2>. QED
    BY <2>1, <2>2 DEF CallsNested
<1>8. CallsCombined'
  <2>1. ASSUME NEW i \in DOMAIN stack' PROVE FrameCombined(stack[i])'
    <3>1. CASE i = 1
      BY <1>3, <3>1
    <3>2. CASE i # 1
      <4>1. PICK g \in FrameType : g = stack[i] /\ FrameCombined(g)
        BY <1>1, <1>4 DEF IInv, CallsCombined
      <4>2. FrameCombined(g)' /\ stack'[i] = g
        BY <1>4, <1>5, <3>2, <4>1, FrameCombinedStable
      <4>. QED
        BY <4>2
    <3>. QED
      BY <3>1, <3>2
  <2>. QED
    BY <2>1 DEF CallsCombined
<1>. QED
  BY <1>3, <1>4, <1>5, <1>6, <1>7, <1>8

-----------------------------------------------------------------------------
(* The conjuncts about T, F and C after a stable step.                     *)

\* T gains justified entries of visited programs only.
LEMMA EntriesStayJustified ==
  ASSUME IInv, Stable, visited \subseteq visited', NEW E, trans' = trans \cup E,
         \A t \in E : t.prog \in visited' /\ t.succ \in Succs[t.prog] /\ Justified(t)'
  PROVE  EntriesJustified'
<1>1. ASSUME NEW t \in trans
      PROVE  t.prog \in visited' /\ t.succ \in Succs[t.prog] /\ Justified(t)'
  BY JustifiedStable DEF IInv, TypeOK, Entry, EntriesJustified
<1>. QED
  BY <1>1 DEF EntriesJustified

\* T is unchanged.
LEMMA EntriesKept ==
  ASSUME IInv, Stable, visited \subseteq visited', trans' = trans
  PROVE  EntriesJustified'
<1>1. ASSUME NEW t \in trans
      PROVE  t.prog \in visited' /\ t.succ \in Succs[t.prog] /\ Justified(t)'
  BY JustifiedStable DEF IInv, TypeOK, Entry, EntriesJustified
<1>. QED
  BY <1>1 DEF EntriesJustified

\* Nothing new is published: the solved programs stay solved.
LEMMA DoneStaysSolved ==
  ASSUME IInv, Stable, DOMAIN final' = DOMAIN final
  PROVE  DoneIsSolved'
BY SolvedStable DEF DoneIsSolved

\* The program of the returning call is published and solved.
LEMMA PublishedIsSolved ==
  ASSUME IInv, Stable, NEW p \in Programs, DOMAIN final' = DOMAIN final \cup {p}, Solved(p)'
  PROVE  DoneIsSolved'
<1>1. ASSUME NEW q \in DOMAIN final' PROVE Solved(q)'
  BY SolvedStable
<1>. QED
  BY <1>1 DEF DoneIsSolved

-----------------------------------------------------------------------------
(* The end of the loop over the arguments.                                 *)

\* T never exceeds its equation.
LEMMA TransSound ==
  ASSUME IInv, NEW p \in Programs
  PROVE  TransOf(trans, p) \subseteq TransEquation(trans, final, p)
<1>. SUFFICES ASSUME NEW t \in trans, t.prog = p
              PROVE  t \in TransEquation(trans, final, p)
  BY DEF TransOf
<1>1. Justified(t)
  BY DEF IInv, EntriesJustified
<1>2. CASE IsSequence(p)
  BY <1>1, <1>2 DEF Justified, TransEquation, IsSequence, IsChoice, IsIteration
<1>3. CASE IsChoice(p)
  BY <1>1, <1>3 DEF Justified, TransEquation, IsSequence, IsChoice, IsIteration
<1>4. CASE IsIteration(p)
  BY <1>1, <1>4 DEF Justified, TransEquation, IsSequence, IsChoice, IsIteration
<1>5. CASE ~ IsSequence(p) /\ ~ IsChoice(p) /\ ~ IsIteration(p)
  BY <1>1, <1>5 DEF Justified
<1>. QED
  BY <1>2, <1>3, <1>4, <1>5

\* A call whose loop is over has combined every argument: its f is F of its
\* program and T holds all of its entries.
LEMMA LoopResult ==
  ASSUME IInv, stack # <<>>, ~ IsLeaf(Top.prog), Top.next > Len(Top.args)
  PROVE  /\ Args(Top.prog) \subseteq DOMAIN final
         /\ Top.f = FinalEquation(final, Top.prog)
         /\ TransOf(trans, Top.prog) = TransEquation(trans, final, Top.prog)
<1>. DEFINE p == Top.prog
            args == Top.args
<1>1. /\ p \in Programs /\ args \in ArgLists(p) /\ args \in Seq(Programs)
      /\ Top = stack[1] /\ 1 \in DOMAIN stack
      /\ Top.next \in Nat /\ Top.next <= Len(args) + 1
  BY TopType
<1>2. Top.next - 1 = Len(args) /\ 1 .. Top.next - 1 = DOMAIN args
  BY <1>1
<1>3. FrameCombined(Top)
  BY <1>1 DEF IInv, CallsCombined
<1>4. /\ {args[i] : i \in DOMAIN args} = Args(p)
      /\ IsSequence(p) => args = p[2]
      /\ IsIteration(p) => args = <<p[2]>>
  BY <1>1, ArgListsType
<1>5. Args(p) \subseteq DOMAIN final
  BY <1>2, <1>3, <1>4 DEF FrameCombined
<1>6. \A t \in trans : t.prog = p => t \in TransOf(trans, p)
  BY DEF TransOf
<1>7. TransOf(trans, p) \subseteq TransEquation(trans, final, p)
  BY <1>1, TransSound
<1>8. CASE IsSequence(p)
  <2>1. p[2] = args
    BY <1>4, <1>8
  <2>2. Top.f = FinalEquation(final, p)
    BY <1>2, <1>3, <1>8, <2>1
    DEF FrameCombined, SkippedBefore, FinalEquation, IsSequence, IsChoice, IsIteration
  <2>3. \A i \in DOMAIN args : SequenceEntries(trans, final, p, args, i) \subseteq trans
    BY <1>2, <1>3, <1>8 DEF FrameCombined
  <2>4. \A i \in DOMAIN args : SequenceEntries(trans, final, p, args, i) \subseteq TransOf(trans, p)
    <3>. SUFFICES ASSUME NEW i \in DOMAIN args, NEW t \in SequenceEntries(trans, final, p, args, i)
                  PROVE  t.prog = p
      BY <1>6, <2>3
    <3>. QED
      BY <1>1, <1>8, <2>1, SequenceEntriesType
  <2>5. TransEquation(trans, final, p) =
          UNION {SequenceEntries(trans, final, p, args, i) : i \in DOMAIN args}
    BY <1>8, <2>1 DEF TransEquation, IsSequence, IsChoice, IsIteration
  <2>. QED
    BY <1>5, <1>7, <2>2, <2>4, <2>5
<1>9. CASE IsChoice(p)
  <2>1. p[2] = Args(p)
    BY <1>9 DEF Args, IsSequence, IsChoice, IsIteration
  <2>2. /\ Top.f = UNION {final[args[j]] : j \in DOMAIN args}
        /\ \A j \in DOMAIN args : ChoiceEntries(trans, p, args[j]) \subseteq trans
    BY <1>2, <1>3, <1>9 DEF FrameCombined
  <2>3. UNION {final[args[j]] : j \in DOMAIN args} = UNION {final[q] : q \in p[2]}
    <3>1. {final[args[j]] : j \in DOMAIN args} = {final[q] : q \in p[2]}
      BY <1>4, <2>1
    <3>. QED
      BY <3>1
  <2>4. Top.f = FinalEquation(final, p)
    BY <1>9, <2>2, <2>3 DEF FinalEquation, IsSequence, IsChoice, IsIteration
  <2>5. \A q \in p[2] : ChoiceEntries(trans, p, q) \subseteq trans
    BY <1>4, <2>1, <2>2
  <2>6. \A q \in p[2] : ChoiceEntries(trans, p, q) \subseteq TransOf(trans, p)
    <3>. SUFFICES ASSUME NEW q \in p[2], NEW t \in ChoiceEntries(trans, p, q)
                  PROVE  t.prog = p
      BY <1>6, <2>5
    <3>. QED
      BY <1>1, <1>9, ChoiceEntriesType
  <2>7. TransEquation(trans, final, p) = UNION {ChoiceEntries(trans, p, q) : q \in p[2]}
    BY <1>9 DEF TransEquation, IsSequence, IsChoice, IsIteration
  <2>. QED
    BY <1>5, <1>7, <2>4, <2>6, <2>7
<1>10. CASE IsIteration(p)
  <2>1. Top.f = FinalEquation(final, p)
    BY <1>3, <1>10 DEF FrameCombined, FinalEquation, IsSequence, IsChoice, IsIteration
  <2>2. IterationEntries(trans, p) \subseteq trans
    <3>1. args = <<p[2]>>
      BY <1>4, <1>10
    <3>2. 1 .. Top.next - 1 # {}
      BY <1>2, <3>1
    <3>. QED
      BY <1>3, <1>10, <3>2 DEF FrameCombined
  <2>3. IterationEntries(trans, p) \subseteq TransOf(trans, p)
    BY <1>6, <2>2 DEF IterationEntries
  <2>4. TransEquation(trans, final, p) = IterationEntries(trans, p)
    BY <1>10 DEF TransEquation, IsSequence, IsChoice, IsIteration
  <2>. QED
    BY <1>5, <1>7, <2>1, <2>3, <2>4
<1>. QED
  BY <1>1, <1>8, <1>9, <1>10, SyntaxAssumption DEF IsLeaf, IsSequence, IsChoice, IsIteration

-----------------------------------------------------------------------------
(* The steps.                                                              *)

\* The elements of a queue are its head and those of its tail.
LEMMA QueueElements ==
  ASSUME NEW S, NEW s \in Seq(S), s # <<>>
  PROVE  \A i \in DOMAIN s : s[i] = Head(s) \/ \E j \in DOMAIN Tail(s) : s[i] = Tail(s)[j]
<1>1. /\ Head(s) = s[1] /\ Len(Tail(s)) = Len(s) - 1 /\ Tail(s) \in Seq(S)
      /\ \A i \in 1 .. Len(s) - 1 : Tail(s)[i] = s[i + 1]
  BY TailProperties
<1>. SUFFICES ASSUME NEW i \in DOMAIN s, i # 1
              PROVE  \E j \in DOMAIN Tail(s) : s[i] = Tail(s)[j]
  BY <1>1
<1>2. i - 1 \in 1 .. Len(s) - 1 /\ (i - 1) + 1 = i
  OBVIOUS
<1>3. i - 1 \in DOMAIN Tail(s) /\ Tail(s)[i - 1] = s[i]
  BY <1>1, <1>2
<1>. QED
  BY <1>3

\* The invariant holds when apply has queued nil and the root.
LEMMA InitStep == Init => IInv
<1>. SUFFICES ASSUME Init PROVE IInv
  OBVIOUS
<1>. USE DEF Init
<1>1. root \in Programs /\ Nil \in Programs
  BY SpaceAssumption
<1>2. TypeOK
  BY <1>1 DEF TypeOK
<1>3. CallsNested /\ CallsCombined /\ VisitedIsDoneOrActive /\ EntriesJustified /\ DoneIsSolved
  BY DEF CallsNested, CallsCombined, VisitedIsDoneOrActive, EntriesJustified, DoneIsSolved
<1>4. queue[1] = Nil /\ queue[2] = root /\ DOMAIN queue = 1 .. 2
  OBVIOUS
<1>5. WorklistCovers
  BY <1>4 DEF WorklistCovers
<1>. QED
  BY <1>2, <1>3, <1>5 DEF IInv

\* Popping the head of the queue begins a call with nothing combined yet.
LEMMA PopStep ==
  ASSUME IInv, Pop
  PROVE  Stable /\ IInv'
<1>. USE DEF Pop
<1>. DEFINE p == Head(queue)
<1>1. queue \in Seq(Programs) /\ stack \in Seq(FrameType)
  BY DEF IInv, TypeOK
<1>2. p \in Programs /\ queue' \in Seq(Programs)
  BY <1>1, TailProperties
<1>3. Stable
  BY DEF Stable
<1>4. PICK fr \in Frames(p) : stack' = <<fr>>
  OBVIOUS
<1>5. stack' = <<fr>> \o stack
  <2>1. stack = <<>> /\ <<fr>> \in Seq({fr})
    OBVIOUS
  <2>2. <<fr>> \o <<>> = <<fr>>
    BY <2>1
  <2>. QED
    BY <1>4, <2>1, <2>2
<1>6. /\ stack' \in Seq(FrameType)
      /\ DOMAIN stack' = 1 .. Len(stack) + 1
      /\ stack'[1] = fr
      /\ CallsNested' /\ CallsCombined'
  <2>1. \A i \in DOMAIN stack : FALSE
    BY <1>1
  <2>. QED
    BY <1>2, <1>3, <1>5, <2>1, PushedStack
<1>7. fr.prog = p /\ DOMAIN stack' = {1}
  BY <1>2, <1>6, FramesType
<1>8. TypeOK'
  BY <1>2, <1>6 DEF IInv, TypeOK
<1>9. VisitedIsDoneOrActive'
  BY <1>6, <1>7 DEF IInv, VisitedIsDoneOrActive
<1>10. EntriesJustified'
  BY <1>3, EntriesKept
<1>11. DoneIsSolved'
  BY <1>3, DoneStaysSolved
<1>12. WorklistCovers'
  <2>1. added' \subseteq visited' \cup {queue'[i] : i \in DOMAIN queue'}
    BY <1>1, QueueElements DEF IInv, WorklistCovers
  <2>. QED
    BY <2>1 DEF IInv, WorklistCovers
<1>. QED
  BY <1>3, <1>6, <1>8, <1>9, <1>10, <1>11, <1>12 DEF IInv

\* A step that changes nothing but the outcome, after the worklist has run dry,
\* or nothing at all.
LEMMA IdleStep ==
  ASSUME IInv, UNCHANGED <<root, queue, added, visited, stack, trans, final, cont>>,
         outcome' = outcome \/ (outcome' = "done" /\ stack = <<>> /\ queue = <<>>)
  PROVE  Stable /\ IInv'
<1>1. Stable
  BY DEF Stable
<1>2. TypeOK' /\ outcome' \in {"running", "done"}
  BY DEF IInv, TypeOK
<1>3. CallsNested' /\ VisitedIsDoneOrActive'
  BY DEF IInv, CallsNested, VisitedIsDoneOrActive
<1>4. CallsCombined'
  BY DEF IInv, CallsCombined, FrameCombined
<1>5. EntriesJustified'
  BY <1>1, EntriesKept
<1>6. DoneIsSolved'
  BY <1>1, DoneStaysSolved
<1>7. WorklistCovers'
  BY DEF IInv, WorklistCovers
<1>. QED
  BY <1>1, <1>2, <1>3, <1>4, <1>5, <1>6, <1>7 DEF IInv

\* The end of a visit: F and C of the program of the innermost call are
\* published, with T complete for it, and the call returns.  E is what a visit
\* of an action inserts in T at the same time.
LEMMA PublishStep ==
  ASSUME IInv, stack # <<>>, NEW p \in Programs, p = Top.prog, NEW E, NEW F,
         trans' = trans \cup E, E \subseteq Entry,
         E # {} => Kind(p) = "action",
         \A t \in E : t.prog = p /\ t.succ \in Succs[p] /\ t.succ \in added,
         TransOf(trans \cup E, p) = TransEquation(trans, final, p),
         E \subseteq TransEquation(trans, final, p),
         Args(p) \subseteq DOMAIN final,
         DOMAIN F = DOMAIN final \cup {p}, F \in [DOMAIN F -> SUBSET States],
         \A q \in DOMAIN final : F[q] = final[q],
         F[p] = FinalEquation(final, p),
         final' = F,
         cont' = Store(cont, p, Continuation(trans', p, F[p])),
         stack' = Tail(stack),
         UNCHANGED <<root, queue, added, visited, outcome>>
  PROVE  Stable /\ IInv'
<1>1. p \in Programs /\ p \in visited /\ Top = stack[1] /\ 1 \in DOMAIN stack
  BY TopType
<1>2. \A q \in DOMAIN final : TransOf(trans \cup E, q) = TransOf(trans, q)
  BY <1>1, AddedEntriesStable
<1>3. Stable
  BY <1>1, <1>2, PublishStable
<1>4. /\ stack' \in Seq(FrameType)
      /\ DOMAIN stack' = 1 .. Len(stack) - 1
      /\ \A i \in 1 .. Len(stack) - 1 : stack'[i] = stack[i + 1]
      /\ CallsNested' /\ CallsCombined'
  BY <1>3, PoppedStack
<1>5. trans' \subseteq Entry
  BY DEF IInv, TypeOK
<1>6. /\ DOMAIN final' \subseteq Programs
      /\ final' \in [DOMAIN final' -> SUBSET States]
      /\ cont' \in [DOMAIN final' -> SUBSET States]
  BY <1>1, <1>5, PublishType
<1>7. TypeOK'
  BY <1>4, <1>5, <1>6 DEF IInv, TypeOK
<1>8. VisitedIsDoneOrActive'
  <2>1. ASSUME NEW q \in visited
        PROVE  q \in DOMAIN final' \/ \E i \in DOMAIN stack' : stack'[i].prog = q
    <3>1. CASE q \in DOMAIN final \/ q = p
      BY <3>1
    <3>2. CASE ~ (q \in DOMAIN final \/ q = p)
      <4>1. PICK i \in DOMAIN stack : stack[i].prog = q
        BY <3>2 DEF IInv, VisitedIsDoneOrActive
      <4>2. i # 1 /\ stack \in Seq(FrameType)
        BY <1>1, <3>2, <4>1 DEF IInv, TypeOK
      <4>3. i - 1 \in 1 .. Len(stack) - 1 /\ (i - 1) + 1 = i
        BY <4>2
      <4>. QED
        BY <1>4, <4>1, <4>3
    <3>. QED
      BY <3>1, <3>2
  <2>2. DOMAIN final' \subseteq visited
    BY <1>1 DEF IInv, VisitedIsDoneOrActive
  <2>3. ASSUME NEW i \in DOMAIN stack' PROVE stack'[i].prog \in visited
    <3>1. i + 1 \in DOMAIN stack /\ stack'[i] = stack[i + 1]
      BY <1>4 DEF IInv, TypeOK
    <3>. QED
      BY <3>1 DEF IInv, VisitedIsDoneOrActive
  <2>. QED
    BY <2>1, <2>2, <2>3 DEF VisitedIsDoneOrActive
<1>9. /\ TransEquation(trans', final', p) = TransEquation(trans, final, p)
      /\ FinalEquation(final', p) = FinalEquation(final, p)
  BY <1>1, <1>3, EquationsStable
<1>10. EntriesJustified'
  <2>1. ASSUME NEW t \in E PROVE Justified(t)'
    <3>1. Kind(t.prog) = "action" /\ t \in TransEquation(trans', final', t.prog)
      BY <1>9
    <3>. QED
      BY <3>1 DEF Justified, IsSequence, IsChoice, IsIteration
  <2>. QED
    BY <1>1, <1>3, <2>1, EntriesStayJustified
<1>11. DoneIsSolved'
  <2>1. Args(p) \subseteq DOMAIN final'
    BY <1>3 DEF Stable
  <2>2. cont'[p] = Continuation(trans', p, final'[p])
    BY DEF Store
  <2>3. Solved(p)'
    BY <1>9, <2>1, <2>2 DEF Solved
  <2>. QED
    BY <1>1, <1>3, <2>3, PublishedIsSolved
<1>12. WorklistCovers'
  BY DEF IInv, WorklistCovers
<1>. QED
  BY <1>3, <1>4, <1>7, <1>8, <1>10, <1>11, <1>12 DEF IInv

\* The end of a loop over arguments.
LEMMA ReturnStep ==
  ASSUME IInv, Return
  PROVE  Stable /\ IInv'
<1>1. stack # <<>> /\ ~ IsLeaf(Top.prog) /\ Top.next > Len(Top.args)
  BY DEF Return
<1>2. PICK p \in Programs : p = Top.prog
  BY <1>1, TopType
<1>3. /\ Args(p) \subseteq DOMAIN final
      /\ Top.f = FinalEquation(final, p)
      /\ TransOf(trans, p) = TransEquation(trans, final, p)
  BY <1>1, <1>2, LoopResult
<1>4. PICK F : F = Store(final, p, Top.f)
  OBVIOUS
<1>5. Top.f \in SUBSET States
  BY <1>1, TopType
<1>6. DOMAIN F = DOMAIN final \cup {p} /\ F[p] = Top.f
  BY <1>4 DEF Store
<1>7. \A q \in DOMAIN final : F[q] = final[q]
  <2>. SUFFICES ASSUME NEW q \in DOMAIN final PROVE F[q] = final[q]
    OBVIOUS
  <2>1. q = p => final[q] = Top.f
    BY <1>3 DEF IInv, DoneIsSolved, Solved
  <2>. QED
    BY <1>4, <2>1 DEF Store
<1>8. F \in [DOMAIN F -> SUBSET States]
  BY <1>4, <1>5 DEF Store, IInv, TypeOK
<1>9. /\ trans' = trans
      /\ final' = F
      /\ cont' = Store(cont, p, Continuation(trans', p, F[p]))
      /\ stack' = Tail(stack)
      /\ UNCHANGED <<root, queue, added, visited, outcome>>
  BY <1>2, <1>4, <1>6 DEF Return
<1>10. PICK E : E = {}
  OBVIOUS
<1>11. trans' = trans \cup E /\ E \subseteq Entry /\ E = {} /\ \A t \in E : FALSE
  BY <1>9, <1>10
<1>12. TransOf(trans \cup E, p) = TransEquation(trans, final, p)
  BY <1>3, <1>9, <1>11
<1>. QED
  BY <1>1, <1>2, <1>3, <1>6, <1>7, <1>8, <1>9, <1>11, <1>12, PublishStep

\* The visit of a leaf other than und.
LEMMA LeafStep ==
  ASSUME IInv, stack # <<>>, NEW p \in Programs, p = Top.prog, IsLeaf(p),
         NEW E, E = TransEquation(trans, final, p), E # {} => Kind(p) = "action",
         E \subseteq Entry,
         \A t \in E : t.prog = p /\ t.succ = Nil /\ Nil \in Succs[p],
         NEW fp \in SUBSET States, fp = FinalEquation(final, p),
         ReturnLeaf(trans \cup E, fp)
  PROVE  Stable /\ IInv'
<1>1. Args(p) = {}
  BY DEF Args, IsLeaf, IsSequence, IsChoice, IsIteration
<1>2. TransOf(trans \cup E, p) = E
  <2>1. TransOf(trans, p) \subseteq E
    BY TransSound
  <2>. QED
    BY <2>1 DEF TransOf
<1>3. PICK F : F = Emplace(final, p, fp)
  OBVIOUS
<1>4. /\ DOMAIN F = DOMAIN final \cup {p}
      /\ F[p] = fp
      /\ \A q \in DOMAIN final : F[q] = final[q]
      /\ F \in [DOMAIN F -> SUBSET States]
  <2>1. CASE p \in DOMAIN final
    <3>1. F = final /\ final[p] = fp
      BY <1>3, <2>1 DEF Emplace, IInv, DoneIsSolved, Solved
    <3>. QED
      BY <2>1, <3>1 DEF IInv, TypeOK
  <2>2. CASE p \notin DOMAIN final
    BY <1>3, <2>2 DEF Emplace, Store, IInv, TypeOK
  <2>. QED
    BY <2>1, <2>2
<1>5. /\ trans' = trans \cup E
      /\ final' = F
      /\ cont' = Store(cont, p, Continuation(trans', p, F[p]))
      /\ stack' = Tail(stack)
      /\ UNCHANGED <<root, queue, added, visited, outcome>>
  BY <1>3 DEF ReturnLeaf
<1>6. \A t \in E : t.prog = p /\ t.succ \in Succs[p] /\ t.succ \in added
  BY DEF IInv, WorklistCovers
<1>7. /\ TransOf(trans \cup E, p) = TransEquation(trans, final, p)
      /\ E \subseteq TransEquation(trans, final, p)
      /\ Args(p) \subseteq DOMAIN final
      /\ F[p] = FinalEquation(final, p)
  BY <1>1, <1>2, <1>4
<1>. QED
  BY <1>4, <1>5, <1>6, <1>7, PublishStep, ZenonT(60)

\* The visits of the leaves: und and unknown actions are not in the space.
LEMMA VisitLeafStep ==
  ASSUME IInv, VisitLeaf
  PROVE  Stable /\ IInv'
<1>1. stack # <<>> /\ Top.prog \in Programs
  BY TopType DEF VisitLeaf, VisitNil, VisitUnd, VisitAction, VisitUnknownAction, VisitTest, InCall
<1>2. PICK p \in Programs : p = Top.prog
  BY <1>1
<1>3. CASE VisitNil \/ VisitTest
  <2>1. Kind(p) \in {"nil", "test"} /\ IsLeaf(p)
    BY <1>2, <1>3 DEF VisitNil, VisitTest, InCall, IsLeaf
  <2>2. PICK E : E = {}
    OBVIOUS
  <2>3. TransEquation(trans, final, p) = {}
    BY <2>1 DEF TransEquation, IsSequence, IsChoice, IsIteration
  <2>4. PICK fp : fp = IF Kind(p) = "nil" THEN States ELSE Sat[p[2]]
    OBVIOUS
  <2>5. fp \in SUBSET States /\ fp = FinalEquation(final, p)
    BY <2>1, <2>4, SyntaxAssumption, GuardsAreStateSets
    DEF FinalEquation, IsSequence, IsChoice, IsIteration
  <2>6. trans = trans \cup E
    BY <2>2
  <2>7. ReturnLeaf(trans \cup E, fp)
    BY <1>2, <1>3, <2>4, <2>6 DEF VisitNil, VisitTest, InCall
  <2>8. E = TransEquation(trans, final, p) /\ E \subseteq Entry /\ E = {}
        /\ \A t \in E : t.prog = p /\ t.succ = Nil /\ Nil \in Succs[p]
    BY <2>2, <2>3
  <2>. QED
    BY <1>1, <1>2, <2>1, <2>5, <2>7, <2>8, LeafStep
<1>4. CASE VisitAction
  <2>1. Kind(p) = "action" /\ IsLeaf(p) /\ p[2] \in ActionNames /\ Nil \in Succs[p]
    BY <1>2, <1>4, SuccsAssumption DEF VisitAction, InCall, IsLeaf
  <2>2. PICK E : E = {[prog |-> p, act |-> p[2], guard |-> Pre[p[2]], succ |-> Nil]}
    OBVIOUS
  <2>3. E = TransEquation(trans, final, p)
    BY <2>1, <2>2 DEF TransEquation, IsSequence, IsChoice, IsIteration
  <2>4. PICK fp : fp = {}
    OBVIOUS
  <2>5. fp \in SUBSET States /\ fp = FinalEquation(final, p)
    BY <2>1, <2>4 DEF FinalEquation, IsSequence, IsChoice, IsIteration
  <2>6. /\ E \subseteq Entry
        /\ \A t \in E : t.prog = p /\ t.succ = Nil /\ Nil \in Succs[p]
    BY <2>1, <2>2, SpaceAssumption, GuardsAreStateSets DEF Entry
  <2>7. ReturnLeaf(trans \cup E, fp)
    BY <1>2, <1>4, <2>2, <2>4 DEF VisitAction, InCall
  <2>. QED
    BY <1>1, <1>2, <2>1, <2>3, <2>5, <2>6, <2>7, LeafStep
<1>5. ~ VisitUnd /\ ~ VisitUnknownAction
  BY <1>2, SyntaxAssumption DEF VisitUnd, VisitUnknownAction, InCall
<1>. QED
  BY <1>3, <1>4, <1>5 DEF VisitLeaf

\* No argument is read before its visit has ended.
LEMMA MissingFinalNeverUsed == IInv => ~ UseMissingFinal
BY ArgHasFinal DEF UseMissingFinal

\* The recursive call: the argument becomes visited and its frame innermost.
LEMMA VisitArgStep ==
  ASSUME IInv, VisitArg
  PROVE  Stable /\ IInv'
<1>. USE DEF VisitArg
<1>1. PICK p \in Programs : p = CurrentArg
  BY AtArgType
<1>2. /\ Depth[p] < Depth[Top.prog] /\ Depth[p] \in Nat /\ Depth[Top.prog] \in Nat
      /\ stack # <<>> /\ Top = stack[1] /\ 1 \in DOMAIN stack /\ stack \in Seq(FrameType)
  BY <1>1, AtArgType, TopType DEF AtArg, IInv, TypeOK
<1>3. Stable
  BY DEF Stable
<1>4. PICK fr \in Frames(p) : stack' = <<fr>> \o stack
  BY <1>1
<1>5. ASSUME NEW i \in DOMAIN stack PROVE Depth[p] < Depth[stack[i].prog]
  <2>1. CASE i = 1
    BY <1>2, <2>1
  <2>2. CASE i # 1
    <3>1. 1 < i
      BY <1>2, <2>2
    <3>2. Depth[stack[1].prog] < Depth[stack[i].prog]
      BY <1>2, <3>1 DEF IInv, CallsNested
    <3>3. stack[i].prog \in Programs
      BY <1>2 DEF FrameType
    <3>4. Depth[stack[i].prog] \in Nat
      BY <3>3, DepthAssumption
    <3>. QED
      BY <1>2, <3>2, <3>4
  <2>. QED
    BY <2>1, <2>2
<1>6. Top.next <= Len(Top.args) /\ p = Top.args[Top.next]
  BY <1>1 DEF AtArg, CurrentArg
<1>7. /\ stack' \in Seq(FrameType)
      /\ DOMAIN stack' = 1 .. Len(stack) + 1
      /\ stack'[1] = fr /\ \A i \in 1 .. Len(stack) : stack'[i + 1] = stack[i]
      /\ CallsNested' /\ CallsCombined'
  BY <1>3, <1>4, <1>5, <1>6, PushedStack
<1>8. fr.prog = p /\ visited' = visited \cup {p}
  BY <1>1, FramesType
<1>9. TypeOK'
  BY <1>7, <1>8 DEF IInv, TypeOK
<1>10. VisitedIsDoneOrActive'
  <2>1. 1 \in DOMAIN stack' /\ stack'[1].prog = p
    BY <1>2, <1>7, <1>8
  <2>2. ASSUME NEW i \in DOMAIN stack PROVE i + 1 \in DOMAIN stack' /\ stack'[i + 1] = stack[i]
    BY <1>2, <1>7
  <2>3. ASSUME NEW q \in visited'
        PROVE  q \in DOMAIN final \/ \E i \in DOMAIN stack' : stack'[i].prog = q
    <3>1. CASE q = p
      BY <2>1, <3>1
    <3>2. CASE q # p
      <4>1. q \in DOMAIN final \/ \E i \in DOMAIN stack : stack[i].prog = q
        BY <1>8, <3>2 DEF IInv, VisitedIsDoneOrActive
      <4>. QED
        BY <2>2, <4>1
    <3>. QED
      BY <3>1, <3>2
  <2>4. ASSUME NEW i \in DOMAIN stack' PROVE stack'[i].prog \in visited'
    <3>1. CASE i = 1
      BY <1>8, <2>1, <3>1
    <3>2. CASE i # 1
      <4>1. i - 1 \in 1 .. Len(stack) /\ (i - 1) + 1 = i
        BY <1>2, <1>7, <3>2
      <4>2. stack'[i] = stack[i - 1] /\ i - 1 \in DOMAIN stack
        BY <1>2, <1>7, <4>1
      <4>. QED
        BY <1>8, <4>2 DEF IInv, VisitedIsDoneOrActive
    <3>. QED
      BY <3>1, <3>2
  <2>. QED
    BY <1>8, <2>3, <2>4 DEF IInv, VisitedIsDoneOrActive
<1>11. EntriesJustified'
  BY <1>3, EntriesKept
<1>12. DoneIsSolved'
  BY <1>3, DoneStaysSolved
<1>13. WorklistCovers'
  BY <1>2, <1>8 DEF IInv, WorklistCovers, AtArg
<1>. QED
  BY <1>3, <1>7, <1>9, <1>10, <1>11, <1>12, <1>13 DEF IInv

-----------------------------------------------------------------------------
(* The steps that combine an argument.                                     *)

\* Queueing the new successors keeps the worklist in order.
LEMMA AddEntriesType ==
  ASSUME IInv, NEW E, \A t \in E : t.succ \in Programs, AddEntries(E)
  PROVE  /\ trans' = trans \cup E
         /\ queue' \in Seq(Programs)
         /\ added \subseteq added' /\ added' \subseteq Programs
         /\ added' \subseteq visited \cup {queue'[i] : i \in DOMAIN queue'}
         /\ \A t \in E : t.succ \in added' \cup visited
<1>1. PICK new : new = {t.succ : t \in E} \ (visited \cup added)
  OBVIOUS
<1>2. PICK order \in Orders(new) : queue' = queue \o order
  BY <1>1 DEF AddEntries
<1>3. trans' = trans \cup E /\ added' = added \cup new
  BY <1>1 DEF AddEntries
<1>4. new \in SUBSET Programs
  BY <1>1
<1>5. order \in Seq(Programs) /\ {order[i] : i \in DOMAIN order} = new
  BY <1>2, <1>4, OrdersType
<1>6. queue \in Seq(Programs) /\ added \in SUBSET Programs
  BY DEF IInv, TypeOK
<1>7. /\ queue' \in Seq(Programs)
      /\ \A i \in DOMAIN queue : \E j \in DOMAIN queue' : queue'[j] = queue[i]
      /\ \A i \in DOMAIN order : \E j \in DOMAIN queue' : queue'[j] = order[i]
  <2>1. /\ queue' \in Seq(Programs)
        /\ Len(queue') = Len(queue) + Len(order)
        /\ \A i \in 1 .. Len(queue) : queue'[i] = queue[i]
        /\ \A i \in 1 .. Len(order) : queue'[i + Len(queue)] = order[i]
    BY <1>2, <1>5, <1>6, AppendedElements
  <2>2. /\ Len(queue) \in Nat /\ DOMAIN queue = 1 .. Len(queue)
        /\ Len(order) \in Nat /\ DOMAIN order = 1 .. Len(order)
        /\ DOMAIN queue' = 1 .. Len(queue) + Len(order)
    BY <1>5, <1>6, <2>1
  <2>3. ASSUME NEW i \in DOMAIN queue PROVE i \in DOMAIN queue' /\ queue'[i] = queue[i]
    BY <2>1, <2>2
  <2>4. ASSUME NEW i \in DOMAIN order
        PROVE  i + Len(queue) \in DOMAIN queue' /\ queue'[i + Len(queue)] = order[i]
    BY <2>1, <2>2
  <2>. QED
    BY <2>1, <2>3, <2>4
<1>8. ASSUME NEW q \in added'
      PROVE  q \in visited \/ \E j \in DOMAIN queue' : queue'[j] = q
  <2>1. CASE q \in added
    BY <1>7, <2>1 DEF IInv, WorklistCovers
  <2>2. CASE q \in new
    BY <1>5, <1>7, <2>2
  <2>. QED
    BY <1>3, <2>1, <2>2
<1>. QED
  BY <1>1, <1>3, <1>4, <1>6, <1>7, <1>8

\* A call combines one more argument: entries E, which the equation of its
\* program justifies, and the new value f of its local variable.
LEMMA CombineStep ==
  ASSUME IInv, ArgReady, NEW p \in Programs, p = Top.prog,
         NEW E, trans' = trans \cup E, E \subseteq Entry,
         \A t \in E : t.prog = p /\ t.succ \in Succs[p] /\ Justified(t),
         \A t \in E : t.succ \in added' \cup visited,
         UNCHANGED <<root, visited, final, cont, outcome>>,
         queue' \in Seq(Programs), added \subseteq added', added' \subseteq Programs,
         added' \subseteq visited \cup {queue'[i] : i \in DOMAIN queue'},
         NEW fr \in FrameType, fr.prog = p, stack' = <<fr>> \o Tail(stack),
         FrameCombined(fr)', Stable
  PROVE  IInv'
<1>1. stack # <<>> /\ outcome = "running" /\ p \in visited
  BY TopType DEF ArgReady, AtArg
<1>2. /\ stack' \in Seq(FrameType)
      /\ DOMAIN stack' = DOMAIN stack
      /\ \A i \in DOMAIN stack : stack'[i].prog = stack[i].prog
      /\ CallsNested' /\ CallsCombined'
  BY <1>1, AdvancedStack
<1>3. TypeOK'
  BY <1>2 DEF IInv, TypeOK
<1>4. VisitedIsDoneOrActive'
  BY <1>2 DEF IInv, VisitedIsDoneOrActive
<1>5. EntriesJustified'
  <2>1. ASSUME NEW t \in E PROVE Justified(t)'
    BY JustifiedStable
  <2>. QED
    BY <1>1, <2>1, EntriesStayJustified
<1>6. DoneIsSolved'
  BY DoneStaysSolved
<1>7. WorklistCovers'
  BY <1>1 DEF IInv, WorklistCovers
<1>. QED
  BY <1>2, <1>3, <1>4, <1>5, <1>6, <1>7 DEF IInv

\* Entries of one program that its equation justifies make a stable step.
LEMMA CombineStable ==
  ASSUME IInv, NEW p \in Programs, NEW E, trans' = trans \cup E,
         \A t \in E : t.prog = p, E \subseteq TransEquation(trans, final, p),
         UNCHANGED <<final, cont>>
  PROVE  Stable
BY AddedEntriesStable DEF Stable

\* The frame of a call that moves to its next argument.
LEMMA NextFrame ==
  ASSUME IInv, ArgReady, NEW top, top = Top, NEW f \in SUBSET States,
         NEW fr, fr = Advanced(top, f)
  PROVE  /\ fr \in FrameType
         /\ fr.prog = top.prog /\ fr.args = top.args /\ fr.f = f
         /\ fr.next = top.next + 1
         /\ \A j \in 1 .. fr.next - 1 : j \in 1 .. top.next - 1 \/ j = top.next
         /\ top.next \in 1 .. fr.next - 1
         /\ FrameCombined(top)
<1>1. /\ top \in FrameType /\ top.next <= Len(top.args)
      /\ top = stack[1] /\ 1 \in DOMAIN stack
  BY TopType DEF ArgReady, AtArg
<1>2. FrameCombined(top)
  BY <1>1 DEF IInv, CallsCombined
<1>3. /\ top \in [prog : Programs, args : Seq(Programs), next : Nat \ {0}, f : SUBSET States]
      /\ top.args \in ArgLists(top.prog)
  BY <1>1 DEF FrameType
<1>4. /\ fr \in [prog : Programs, args : Seq(Programs), next : Nat \ {0}, f : SUBSET States]
      /\ fr.prog = top.prog /\ fr.args = top.args /\ fr.f = f
      /\ fr.next = top.next + 1
  BY <1>3 DEF Advanced
<1>5. Len(top.args) \in Nat /\ top.next \in Nat \ {0}
  BY <1>3
<1>6. fr.next <= Len(fr.args) + 1
  BY <1>1, <1>4, <1>5
<1>7. fr \in FrameType
  BY <1>3, <1>4, <1>6 DEF FrameType
<1>. QED
  BY <1>2, <1>4, <1>5, <1>7

\* One round of the loop over a sequence.
LEMMA SequenceArgStep ==
  ASSUME IInv, SequenceArg
  PROVE  Stable /\ IInv'
<1>1. PICK top \in FrameType : top = Top
  BY TopType DEF SequenceArg, ArgReady, AtArg
<1>2. PICK p \in Programs : p = top.prog
  BY <1>1 DEF FrameType
<1>3. /\ ArgReady /\ IsSequence(p)
      /\ AddEntries(SequenceEntries(trans, final, p, top.args, top.next))
      /\ NextArg(top.f \cap final[CurrentArg])
      /\ UNCHANGED <<root, visited, final, cont, outcome>>
  BY <1>1, <1>2 DEF SequenceArg
<1>4. PICK i \in Nat : i = top.next
  BY <1>1 DEF FrameType
<1>5. /\ top.args = p[2] /\ p[2] \in Seq(Programs)
      /\ i \in DOMAIN p[2]
      /\ CurrentArg = p[2][i] /\ CurrentArg \in DOMAIN final
  <2>1. top.args \in ArgLists(p) /\ i \in DOMAIN top.args
    BY <1>1, <1>2, <1>3, <1>4, AtArgType DEF FrameType, ArgReady
  <2>2. CurrentArg = top.args[i] /\ CurrentArg \in DOMAIN final
    BY <1>1, <1>2, <1>3, <1>4, ArgHasFinal DEF CurrentArg, ArgReady
  <2>. QED
    BY <1>2, <1>3, <2>1, <2>2, ArgListsType, SyntaxAssumption
<1>6. PICK E : E = SequenceEntries(trans, final, p, p[2], i)
  OBVIOUS
<1>7. PICK f : f = top.f \cap final[CurrentArg]
  OBVIOUS
<1>8. f \in SUBSET States
  BY <1>1, <1>7 DEF FrameType
<1>9. PICK fr : fr = Advanced(top, f)
  OBVIOUS
<1>10. /\ fr \in FrameType /\ fr.prog = p /\ fr.args = p[2] /\ fr.f = f
       /\ fr.next = i + 1
       /\ \A j \in 1 .. fr.next - 1 : j \in 1 .. i - 1 \/ j = i
       /\ FrameCombined(top)
  BY <1>1, <1>2, <1>3, <1>4, <1>5, <1>8, <1>9, NextFrame
<1>11. /\ \A t \in E : t \in Entry /\ t.prog = p /\ t.succ \in Succs[p]
       /\ E \subseteq TransEquation(trans, final, p)
  BY <1>3, <1>5, <1>6, SequenceEntriesType
<1>12. E \subseteq Entry /\ \A t \in E : t.succ \in Programs
  BY <1>11 DEF Entry
<1>13. AddEntries(E)
  BY <1>3, <1>4, <1>5, <1>6
<1>14. /\ trans' = trans \cup E
       /\ queue' \in Seq(Programs)
       /\ added \subseteq added' /\ added' \subseteq Programs
       /\ added' \subseteq visited \cup {queue'[k] : k \in DOMAIN queue'}
       /\ \A t \in E : t.succ \in added' \cup visited
  BY <1>12, <1>13, AddEntriesType
<1>15. Stable
  BY <1>3, <1>11, <1>14, CombineStable
<1>16. /\ \A j \in 1 .. i - 1 : p[2][j] \in DOMAIN final
       /\ top.f = SkippedBefore(final, p[2], i)
       /\ \A j \in 1 .. i - 1 : SequenceEntries(trans, final, p, p[2], j) \subseteq trans
  BY <1>2, <1>3, <1>4, <1>5, <1>10 DEF FrameCombined
<1>17. /\ i >= 1 /\ \A j \in 1 .. i : j \in 1 .. i - 1 \/ j = i
       /\ \A j \in 1 .. i : p[2][j] \in DOMAIN final
  BY <1>5, <1>16
<1>18. ASSUME NEW t \in E PROVE Justified(t)
  <2>1. t \in SequenceEntries(trans, final, p, p[2], i) /\ t.prog = p
    BY <1>6, <1>11
  <2>. QED
    BY <1>3, <1>5, <1>17, <2>1 DEF Justified, IsSequence, IsChoice, IsIteration
<1>19. FrameCombined(fr)'
  <2>1. ASSUME NEW j \in 1 .. fr.next - 1
        PROVE  p[2][j] \in DOMAIN final /\ SequenceEntries(trans', final', p, p[2], j) \subseteq trans'
    <3>1. j \in Nat /\ j >= 1 /\ \A k \in 1 .. j : p[2][k] \in DOMAIN final
      BY <1>10, <1>17
    <3>2. SequenceEntries(trans', final', p, p[2], j) = SequenceEntries(trans, final, p, p[2], j)
      BY <1>15, <3>1, SequenceEntriesStable
    <3>3. SequenceEntries(trans, final, p, p[2], j) \subseteq trans'
      BY <1>6, <1>10, <1>14, <1>16
    <3>. QED
      BY <3>1, <3>2, <3>3
  <2>2. final[p[2][i]] \subseteq States
    BY <1>5 DEF IInv, TypeOK
  <2>3. fr.f = SkippedBefore(final, p[2], i + 1)
    <3>1. (i + 1) - 1 = i /\ 1 .. (i + 1) - 1 = 1 .. i /\ i \in 1 .. i
      BY <1>17
    <3>2. \A j \in 1 .. i - 1 : j \in 1 .. i
      OBVIOUS
    <3>3. SkippedBefore(final, p[2], i + 1) = {s \in States : \A j \in 1 .. i : s \in final[p[2][j]]}
      BY <3>1 DEF SkippedBefore
    <3>4. fr.f = SkippedBefore(final, p[2], i) \cap final[p[2][i]]
      BY <1>5, <1>7, <1>10, <1>16
    <3>. QED
      BY <1>17, <2>2, <3>1, <3>2, <3>3, <3>4 DEF SkippedBefore
  <2>4. final' = final
    BY <1>3
  <2>5. IsSequence(fr.prog) /\ ~ IsChoice(fr.prog) /\ ~ IsIteration(fr.prog)
    BY <1>3, <1>10 DEF IsSequence, IsChoice, IsIteration
  <2>. QED
    BY <1>10, <2>1, <2>3, <2>4, <2>5 DEF FrameCombined
<1>20. stack' = <<fr>> \o Tail(stack)
  BY <1>1, <1>3, <1>7, <1>9 DEF NextArg
<1>. QED
  BY <1>1, <1>2, <1>3, <1>10, <1>11, <1>12, <1>14, <1>15, <1>18, <1>19, <1>20, CombineStep

\* One round of the loop over a choice.
LEMMA ChoiceArgStep ==
  ASSUME IInv, ChoiceArg
  PROVE  Stable /\ IInv'
<1>1. PICK top \in FrameType : top = Top
  BY TopType DEF ChoiceArg, ArgReady, AtArg
<1>2. PICK p \in Programs : p = top.prog
  BY <1>1 DEF FrameType
<1>3. PICK q : q = CurrentArg
  OBVIOUS
<1>4. /\ ArgReady /\ IsChoice(p)
      /\ trans' = trans \cup ChoiceEntries(trans, p, q)
      /\ NextArg(top.f \cup final[q])
      /\ UNCHANGED <<root, queue, added, visited, final, cont, outcome>>
  BY <1>1, <1>2, <1>3 DEF ChoiceArg
<1>5. PICK i \in Nat : i = top.next
  BY <1>1 DEF FrameType
<1>6. q = top.args[i] /\ q \in DOMAIN final /\ q \in p[2]
  <2>1. q \in DOMAIN final
    BY <1>3, <1>4, ArgHasFinal, SyntaxAssumption DEF ArgReady
  <2>2. q \in Args(p)
    BY <1>1, <1>2, <1>3, <1>4, AtArgType DEF ArgReady
  <2>. QED
    BY <1>1, <1>3, <1>4, <1>5, <2>1, <2>2
    DEF CurrentArg, Args, IsSequence, IsChoice, IsIteration
<1>7. PICK E : E = ChoiceEntries(trans, p, q)
  OBVIOUS
<1>8. final[q] \subseteq States
  BY <1>6 DEF IInv, TypeOK
<1>9. PICK f : f = top.f \cup final[q]
  OBVIOUS
<1>10. f \in SUBSET States
  BY <1>1, <1>8, <1>9 DEF FrameType
<1>11. PICK fr : fr = Advanced(top, f)
  OBVIOUS
<1>12. /\ fr \in FrameType /\ fr.prog = p /\ fr.args = top.args /\ fr.f = f
       /\ \A j \in 1 .. fr.next - 1 : j \in 1 .. i - 1 \/ j = i
       /\ fr.next = i + 1 /\ i \in 1 .. fr.next - 1
       /\ FrameCombined(top)
  BY <1>1, <1>2, <1>4, <1>5, <1>10, <1>11, NextFrame
<1>13. /\ \A t \in E : t \in Entry /\ t.prog = p /\ t.succ \in Succs[p]
       /\ E \subseteq TransEquation(trans, final, p)
  BY <1>4, <1>6, <1>7, ChoiceEntriesType
<1>14. Stable
  BY <1>4, <1>7, <1>13, CombineStable
<1>15. \A t \in E : t.succ \in added' \cup visited
  <2>. SUFFICES ASSUME NEW t \in E PROVE t.succ \in added \cup visited
    BY <1>4
  <2>1. PICK u \in TransOf(trans, q) : t = [u EXCEPT !.prog = p]
    BY <1>7 DEF ChoiceEntries
  <2>2. u \in trans /\ u \in Entry
    BY <2>1 DEF TransOf, IInv, TypeOK
  <2>3. t.succ = u.succ
    BY <2>1, <2>2 DEF Entry
  <2>. QED
    BY <2>2, <2>3 DEF IInv, WorklistCovers
<1>16. ASSUME NEW t \in E PROVE Justified(t)
  <2>1. t \in ChoiceEntries(trans, p, q) /\ t.prog = p
    BY <1>7, <1>13
  <2>. QED
    BY <1>4, <1>6, <2>1 DEF Justified, IsSequence, IsChoice, IsIteration
<1>17. FrameCombined(fr)'
  <2>1. /\ \A j \in 1 .. i - 1 : top.args[j] \in DOMAIN final
        /\ top.f = UNION {final[top.args[j]] : j \in 1 .. i - 1}
        /\ \A j \in 1 .. i - 1 : ChoiceEntries(trans, p, top.args[j]) \subseteq trans
    BY <1>2, <1>4, <1>5, <1>12 DEF FrameCombined
  <2>2. \A j \in 1 .. fr.next - 1 : top.args[j] \in DOMAIN final
    BY <1>6, <1>12, <2>1
  <2>3. ASSUME NEW j \in 1 .. fr.next - 1
        PROVE  ChoiceEntries(trans', p, top.args[j]) \subseteq trans'
    <3>1. TransOf(trans', top.args[j]) = TransOf(trans, top.args[j])
      BY <1>14, <2>2 DEF Stable
    <3>2. ChoiceEntries(trans', p, top.args[j]) = ChoiceEntries(trans, p, top.args[j])
      BY <3>1 DEF ChoiceEntries
    <3>. QED
      BY <1>4, <1>6, <1>12, <2>1, <3>2
  <2>4. f = UNION {final[top.args[j]] : j \in 1 .. fr.next - 1}
    <3>1. \A j \in 1 .. i - 1 : j \in 1 .. fr.next - 1
      BY <1>12
    <3>2. ASSUME NEW s \in f
          PROVE  s \in UNION {final[top.args[j]] : j \in 1 .. fr.next - 1}
      BY <1>6, <1>9, <1>12, <2>1, <3>1
    <3>3. ASSUME NEW j \in 1 .. fr.next - 1 PROVE final[top.args[j]] \subseteq f
      BY <1>6, <1>9, <1>12, <2>1
    <3>. QED
      BY <3>2, <3>3
  <2>5. IsChoice(fr.prog) /\ ~ IsSequence(fr.prog) /\ ~ IsIteration(fr.prog)
    BY <1>4, <1>12 DEF IsSequence, IsChoice, IsIteration
  <2>6. final' = final
    BY <1>4
  <2>. QED
    BY <1>12, <2>2, <2>3, <2>4, <2>5, <2>6 DEF FrameCombined
<1>18. stack' = <<fr>> \o Tail(stack)
  BY <1>1, <1>4, <1>9, <1>11 DEF NextArg
<1>19. /\ trans' = trans \cup E /\ E \subseteq Entry
       /\ queue' \in Seq(Programs) /\ added \subseteq added' /\ added' \subseteq Programs
       /\ added' \subseteq visited \cup {queue'[k] : k \in DOMAIN queue'}
       /\ UNCHANGED <<root, visited, final, cont, outcome>>
  BY <1>4, <1>7, <1>13 DEF IInv, TypeOK, WorklistCovers
<1>. QED
  BY <1>1, <1>2, <1>4, <1>12, <1>13, <1>14, <1>15, <1>16, <1>17, <1>18, <1>19, CombineStep

\* The body of an iteration is combined.
LEMMA IterationArgStep ==
  ASSUME IInv, IterationArg
  PROVE  Stable /\ IInv'
<1>1. PICK top \in FrameType : top = Top
  BY TopType DEF IterationArg, ArgReady, AtArg
<1>2. PICK p \in Programs : p = top.prog
  BY <1>1 DEF FrameType
<1>3. /\ ArgReady /\ IsIteration(p)
      /\ AddEntries(IterationEntries(trans, p))
      /\ NextArg(top.f)
      /\ UNCHANGED <<root, visited, final, cont, outcome>>
  BY <1>1, <1>2 DEF IterationArg
<1>4. p[2] \in DOMAIN final /\ top.args = <<p[2]>>
  <2>1. top.args = <<p[2]>>
    BY <1>1, <1>2, <1>3, ArgListsType DEF FrameType
  <2>2. CurrentArg \in DOMAIN final /\ CurrentArg \in Args(p)
    BY <1>1, <1>2, <1>3, AtArgType, ArgHasFinal DEF ArgReady
  <2>. QED
    BY <1>3, <2>1, <2>2 DEF Args, IsSequence, IsChoice, IsIteration
<1>5. PICK E : E = IterationEntries(trans, p)
  OBVIOUS
<1>6. PICK f \in SUBSET States : f = top.f
  BY <1>1 DEF FrameType
<1>7. PICK fr : fr = Advanced(top, f)
  OBVIOUS
<1>8. /\ fr \in FrameType /\ fr.prog = p /\ fr.args = top.args /\ fr.f = f
      /\ FrameCombined(top)
  BY <1>1, <1>2, <1>3, <1>6, <1>7, NextFrame
<1>9. /\ \A t \in E : t \in Entry /\ t.prog = p /\ t.succ \in Succs[p]
      /\ E \subseteq TransEquation(trans, final, p)
  BY <1>3, <1>5, IterationEntriesType
<1>10. E \subseteq Entry /\ \A t \in E : t.succ \in Programs
  BY <1>9 DEF Entry
<1>11. AddEntries(E)
  BY <1>3, <1>5
<1>12. /\ trans' = trans \cup E
       /\ queue' \in Seq(Programs)
       /\ added \subseteq added' /\ added' \subseteq Programs
       /\ added' \subseteq visited \cup {queue'[k] : k \in DOMAIN queue'}
       /\ \A t \in E : t.succ \in added' \cup visited
  BY <1>10, <1>11, AddEntriesType
<1>13. Stable
  BY <1>3, <1>9, <1>12, CombineStable
<1>14. ASSUME NEW t \in E PROVE Justified(t)
  <2>1. t \in IterationEntries(trans, p) /\ t.prog = p
    BY <1>5, <1>9
  <2>. QED
    BY <1>3, <1>4, <2>1 DEF Justified, IsSequence, IsChoice, IsIteration
<1>15. FrameCombined(fr)'
  <2>1. f = States
    BY <1>2, <1>3, <1>6, <1>8 DEF FrameCombined
  <2>2. \A j \in 1 .. fr.next - 1 : fr.args[j] \in DOMAIN final
    <3>. SUFFICES ASSUME NEW j \in 1 .. fr.next - 1 PROVE fr.args[j] \in DOMAIN final
      OBVIOUS
    <3>1. fr.next \in Nat /\ fr.next <= Len(fr.args) + 1 /\ fr.args = <<p[2]>>
      BY <1>4, <1>8 DEF FrameType
    <3>2. Len(fr.args) = 1 /\ fr.args[1] = p[2]
      BY <3>1
    <3>3. j = 1
      BY <3>1, <3>2
    <3>. QED
      BY <1>4, <3>2, <3>3
  <2>3. TransOf(trans', p[2]) = TransOf(trans, p[2])
    BY <1>4, <1>13 DEF Stable
  <2>4. IterationEntries(trans', p) \subseteq trans'
    <3>1. IterationEntries(trans', p) = IterationEntries(trans, p)
      BY <2>3 DEF IterationEntries
    <3>. QED
      BY <1>5, <1>12, <3>1
  <2>5. IsIteration(fr.prog) /\ ~ IsSequence(fr.prog) /\ ~ IsChoice(fr.prog)
    BY <1>3, <1>8 DEF IsSequence, IsChoice, IsIteration
  <2>6. final' = final
    BY <1>3
  <2>. QED
    BY <1>8, <2>1, <2>2, <2>4, <2>5, <2>6 DEF FrameCombined
<1>16. stack' = <<fr>> \o Tail(stack)
  BY <1>1, <1>3, <1>6, <1>7 DEF NextArg
<1>. QED
  BY <1>1, <1>2, <1>3, <1>8, <1>9, <1>10, <1>12, <1>13, <1>14, <1>15, <1>16, CombineStep

-----------------------------------------------------------------------------
(* The theorems.                                                           *)

\* Every step keeps the inductive invariant and the published values.
LEMMA InductiveStep == IInv /\ [Next \/ Ended]_tfcVars => Stable /\ IInv'
<1>. SUFFICES ASSUME IInv, [Next \/ Ended]_tfcVars
              PROVE  Stable /\ IInv'
  OBVIOUS
<1>1. CASE Pop
  BY <1>1, PopStep
<1>2. CASE Finish
  BY <1>2, IdleStep DEF Finish
<1>3. CASE VisitLeaf
  BY <1>3, VisitLeafStep
<1>4. CASE VisitArg
  BY <1>4, VisitArgStep
<1>5. CASE UseMissingFinal
  BY <1>5, MissingFinalNeverUsed
<1>6. CASE SequenceArg
  BY <1>6, SequenceArgStep
<1>7. CASE ChoiceArg
  BY <1>7, ChoiceArgStep
<1>8. CASE IterationArg
  BY <1>8, IterationArgStep
<1>9. CASE Return
  BY <1>9, ReturnStep
<1>10. CASE Ended \/ UNCHANGED tfcVars
  BY <1>10, IdleStep DEF Ended, tfcVars
<1>. QED
  BY <1>1, <1>2, <1>3, <1>4, <1>5, <1>6, <1>7, <1>8, <1>9, <1>10 DEF Next, CombineArg

\* The construction keeps its inductive invariant.
THEOREM InvariantHolds == TFCSpec => []IInv
<1>1. Init => IInv
  BY InitStep
<1>2. IInv /\ [Next \/ Ended]_tfcVars => IInv'
  BY InductiveStep
<1>. QED
  BY <1>1, <1>2, PTL DEF TFCSpec

\* The queue, the program sets, the call stack and the three functions keep
\* their types, whatever the program.
THEOREM TypeCorrect == TFCSpec => []TypeOK
<1>1. IInv => TypeOK
  BY DEF IInv
<1>. QED
  BY <1>1, InvariantHolds, PTL

\* A visit never reads the F of a program that has none yet.
THEOREM NoMissingFinal == TFCSpec => []NeverCrashes
<1>1. IInv => NeverCrashes
  BY DEF IInv, NeverCrashes
<1>. QED
  BY <1>1, InvariantHolds, PTL

LEMMA DoneIsComplete == IInv => ResultIsComplete
<1>. SUFFICES ASSUME IInv, outcome = "done" PROVE
       /\ root \in DOMAIN final
       /\ \A t \in trans : {t.prog, t.succ} \subseteq DOMAIN final
       /\ \A p \in DOMAIN final : Solved(p)
  BY DEF ResultIsComplete
<1>1. stack = <<>> /\ queue = <<>>
  BY DEF IInv, WorklistCovers
<1>2. \A i \in DOMAIN stack : FALSE
  BY <1>1
<1>3. visited \subseteq DOMAIN final
  BY <1>2 DEF IInv, VisitedIsDoneOrActive
<1>4. added \subseteq visited
  BY <1>1 DEF IInv, WorklistCovers
<1>5. root \in DOMAIN final
  BY <1>3, <1>4 DEF IInv, WorklistCovers
<1>6. \A t \in trans : {t.prog, t.succ} \subseteq DOMAIN final
  BY <1>3, <1>4 DEF IInv, WorklistCovers, EntriesJustified
<1>. QED
  BY <1>5, <1>6 DEF IInv, DoneIsSolved

\* When the worklist is empty the functions are total on what they mention and
\* solve their equations.
THEOREM ResultCorrect == TFCSpec => []ResultIsComplete
  BY DoneIsComplete, InvariantHolds, PTL

\* A value of F or C that some visit may have read is never changed by a
\* later visit.
THEOREM PublishedValuesKept == TFCSpec => PublishedValuesAreStable
<1>1. IInv /\ [Next \/ Ended]_tfcVars
        => [\A p \in DOMAIN final :
              p \in DOMAIN final' /\ final'[p] = final[p] /\ cont'[p] = cont[p]]_tfcVars
  BY InductiveStep DEF Stable
<1>. QED
  BY <1>1, InvariantHolds, PTL DEF TFCSpec, PublishedValuesAreStable

-----------------------------------------------------------------------------
(* The queue holds no program twice.                                       *)

\* An order of a set of programs has no repetition.
LEMMA OrdersInjective ==
  ASSUME NEW S \in SUBSET Programs, NEW o \in Orders(S)
  PROVE  \A i, j \in DOMAIN o : o[i] = o[j] => i = j
<1>1. IsFiniteSet(S) /\ Cardinality(S) \in Nat
  BY FS_Subset, FS_CardinalityType, SpaceAssumption
<1>2. IsFiniteSet(1 .. Cardinality(S)) /\ Cardinality(1 .. Cardinality(S)) = Cardinality(S)
  BY <1>1, FS_Interval
<1>3. o \in Surjection(1 .. Cardinality(S), S)
  BY DEF Orders, Surjection
<1>4. o \in Injection(1 .. Cardinality(S), S)
  BY <1>2, <1>3, FS_SurjSameCardinalityImpliesInj
<1>. QED
  BY <1>4 DEF Injection, IsInjective

\* Dropping the head of a queue leaves each program at most once.
LEMMA TailQueuedOnce ==
  ASSUME NEW s \in Seq(Programs), s # <<>>,
         \A i, j \in DOMAIN s : s[i] = s[j] => i = j
  PROVE  \A i, j \in DOMAIN Tail(s) : Tail(s)[i] = Tail(s)[j] => i = j
<1>1. /\ Tail(s) \in Seq(Programs) /\ Len(Tail(s)) = Len(s) - 1
      /\ \A i \in 1 .. Len(s) - 1 : Tail(s)[i] = s[i + 1]
  BY TailProperties
<1>. SUFFICES ASSUME NEW i \in DOMAIN Tail(s), NEW j \in DOMAIN Tail(s), Tail(s)[i] = Tail(s)[j]
              PROVE  i = j
  OBVIOUS
<1>2. i \in 1 .. Len(s) - 1 /\ j \in 1 .. Len(s) - 1
  BY <1>1
<1>3. i + 1 \in DOMAIN s /\ j + 1 \in DOMAIN s
  BY <1>2
<1>4. s[i + 1] = s[j + 1]
  BY <1>1, <1>2
<1>5. i + 1 = j + 1
  BY <1>3, <1>4
<1>. QED
  BY <1>2, <1>5

\* The elements of the tail are elements of the queue.
LEMMA TailElements ==
  ASSUME NEW s \in Seq(Programs), s # <<>>, NEW i \in DOMAIN Tail(s)
  PROVE  \E j \in DOMAIN s : Tail(s)[i] = s[j]
<1>1. /\ Tail(s) \in Seq(Programs) /\ Len(Tail(s)) = Len(s) - 1
      /\ \A k \in 1 .. Len(s) - 1 : Tail(s)[k] = s[k + 1]
  BY TailProperties
<1>2. i \in 1 .. Len(s) - 1 /\ i + 1 \in DOMAIN s
  BY <1>1
<1>. QED
  BY <1>1, <1>2

\* The successors a sequence queues are programs of the space.
LEMMA SequenceCallEntries ==
  ASSUME IInv, ArgReady, IsSequence(Top.prog)
  PROVE  \A t \in SequenceEntries(trans, final, Top.prog, Top.args, Top.next) : t.succ \in Programs
<1>1. PICK top \in FrameType : top = Top
  BY TopType DEF ArgReady, AtArg
<1>2. PICK p \in Programs : p = top.prog
  BY <1>1 DEF FrameType
<1>3. PICK i \in Nat : i = top.next
  BY <1>1 DEF FrameType
<1>4. top.args \in ArgLists(p) /\ i \in DOMAIN top.args
  BY <1>1, <1>2, <1>3, AtArgType DEF FrameType, ArgReady
<1>5. top.args = p[2] /\ i \in DOMAIN p[2]
  BY <1>1, <1>2, <1>4, ArgListsType, SyntaxAssumption
<1>6. \A t \in SequenceEntries(trans, final, p, p[2], i) : t \in Entry
  BY <1>1, <1>2, <1>5, SequenceEntriesType
<1>. QED
  BY <1>1, <1>2, <1>3, <1>5, <1>6 DEF Entry

\* The successors an iteration queues are programs of the space.
LEMMA IterationCallEntries ==
  ASSUME IInv, ArgReady, IsIteration(Top.prog)
  PROVE  \A t \in IterationEntries(trans, Top.prog) : t.succ \in Programs
<1>1. PICK top \in FrameType : top = Top
  BY TopType DEF ArgReady, AtArg
<1>2. Top.prog \in Programs
  BY <1>1 DEF FrameType
<1>. QED
  BY <1>2, IterationEntriesType DEF Entry

\* Queueing successors that were not added before keeps the queue free of
\* repetitions.
LEMMA AppendQueuedOnce ==
  ASSUME TypeOK, QueuedOnce, NEW entries, \A t \in entries : t.succ \in Programs,
         AddEntries(entries), root' = root
  PROVE  QueuedOnce'
<1>1. PICK new \in SUBSET Programs : new = {t.succ : t \in entries} \ (visited \cup added)
  OBVIOUS
<1>2. PICK order \in Orders(new) : queue' = queue \o order
  BY <1>1 DEF AddEntries
<1>3. added' = added \cup new /\ new \cap added = {}
  BY <1>1 DEF AddEntries
<1>4. /\ order \in Seq(Programs)
      /\ \A i \in DOMAIN order : order[i] \in new
      /\ \A i, j \in DOMAIN order : order[i] = order[j] => i = j
  <2>1. order \in Seq(Programs) /\ {order[i] : i \in DOMAIN order} = new
    BY <1>2, OrdersType
  <2>2. \A i, j \in DOMAIN order : order[i] = order[j] => i = j
    BY <1>2, OrdersInjective
  <2>. QED
    BY <2>1, <2>2
<1>5. queue \in Seq(Programs) /\ Len(queue) \in Nat /\ Len(order) \in Nat
  BY <1>4 DEF TypeOK
<1>6. /\ queue' \in Seq(Programs) /\ Len(queue') = Len(queue) + Len(order)
      /\ \A i \in 1 .. Len(queue) : queue'[i] = queue[i]
      /\ \A i \in 1 .. Len(order) : queue'[i + Len(queue)] = order[i]
  BY <1>2, <1>4, <1>5, AppendedElements
<1>7. \A i \in DOMAIN queue' :
        \/ i \in DOMAIN queue /\ queue'[i] = queue[i]
        \/ /\ i - Len(queue) \in DOMAIN order
           /\ queue'[i] = order[i - Len(queue)]
           /\ i \in Nat
  <2>. SUFFICES ASSUME NEW i \in DOMAIN queue', i \notin DOMAIN queue
                PROVE  /\ i - Len(queue) \in DOMAIN order
                       /\ queue'[i] = order[i - Len(queue)]
                       /\ i \in Nat
    BY <1>5, <1>6
  <2>1. i \in 1 .. Len(queue) + Len(order) /\ i \notin 1 .. Len(queue)
    BY <1>5, <1>6
  <2>2. i - Len(queue) \in 1 .. Len(order) /\ (i - Len(queue)) + Len(queue) = i
    BY <1>5, <2>1
  <2>3. DOMAIN order = 1 .. Len(order)
    BY <1>4
  <2>4. queue'[(i - Len(queue)) + Len(queue)] = order[i - Len(queue)]
    BY <1>6, <2>2
  <2>. QED
    BY <2>1, <2>2, <2>3, <2>4
<1>8. \A i \in DOMAIN queue : queue[i] \in added
  BY DEF QueuedOnce
<1>9. \A i \in DOMAIN queue' : queue'[i] \in added'
  BY <1>3, <1>4, <1>7, <1>8
<1>10. ASSUME root # Nil, NEW i \in DOMAIN queue', NEW j \in DOMAIN queue', queue'[i] = queue'[j]
       PROVE  i = j
  <2>1. \A k, l \in DOMAIN queue : queue[k] = queue[l] => k = l
    BY <1>10 DEF QueuedOnce
  <2>2. CASE i \in DOMAIN queue /\ j \in DOMAIN queue
    <3>1. queue[i] = queue[j]
      BY <1>5, <1>6, <1>10, <2>2
    <3>. QED
      BY <2>1, <2>2, <3>1
  <2>3. CASE i \notin DOMAIN queue /\ j \notin DOMAIN queue
    <3>1. /\ i - Len(queue) \in DOMAIN order /\ j - Len(queue) \in DOMAIN order
          /\ order[i - Len(queue)] = order[j - Len(queue)]
          /\ i \in Nat /\ j \in Nat
      BY <1>7, <1>10, <2>3
    <3>2. i - Len(queue) = j - Len(queue)
      BY <1>4, <3>1
    <3>. QED
      BY <1>5, <3>1, <3>2
  <2>4. CASE (i \in DOMAIN queue) # (j \in DOMAIN queue)
    BY <1>3, <1>4, <1>7, <1>8, <1>10, <2>4
  <2>. QED
    BY <2>2, <2>3, <2>4
<1>11. root' = root
  OBVIOUS
<1>. QED
  BY <1>9, <1>10, <1>11 DEF QueuedOnce

\* However many transitions lead to a program, it waits at most once in the
\* queue.
THEOREM NoProgramQueuedTwice == TFCSpec => []QueuedOnce
<1>1. Init => QueuedOnce
  <2>. SUFFICES ASSUME Init PROVE QueuedOnce
    OBVIOUS
  <2>1. queue = <<Nil, root>> /\ added = {Nil, root}
    BY DEF Init
  <2>2. DOMAIN queue = 1 .. 2 /\ queue[1] = Nil /\ queue[2] = root
    BY <2>1
  <2>. QED
    BY <2>1, <2>2 DEF QueuedOnce
<1>2. IInv /\ QueuedOnce /\ [Next \/ Ended]_tfcVars => QueuedOnce'
  <2>. SUFFICES ASSUME IInv, QueuedOnce, [Next \/ Ended]_tfcVars PROVE QueuedOnce'
    OBVIOUS
  <2>1. TypeOK
    BY DEF IInv
  <2>2. CASE Pop
    <3>1. queue' = Tail(queue) /\ queue # <<>> /\ added' = added /\ root' = root
      BY <2>2 DEF Pop
    <3>2. queue \in Seq(Programs)
      BY <2>1 DEF TypeOK
    <3>3. \A i \in DOMAIN queue' : queue'[i] \in added'
      BY <3>1, <3>2, TailElements DEF QueuedOnce
    <3>4. root # Nil => \A i, j \in DOMAIN queue' : queue'[i] = queue'[j] => i = j
      BY <3>1, <3>2, TailQueuedOnce DEF QueuedOnce
    <3>. QED
      BY <3>1, <3>3, <3>4 DEF QueuedOnce
  <2>3. CASE SequenceArg
    <3>1. /\ AddEntries(SequenceEntries(trans, final, Top.prog, Top.args, Top.next))
          /\ root' = root /\ ArgReady /\ IsSequence(Top.prog)
      BY <2>3 DEF SequenceArg
    <3>2. \A t \in SequenceEntries(trans, final, Top.prog, Top.args, Top.next) : t.succ \in Programs
      BY <3>1, SequenceCallEntries
    <3>. QED
      BY <2>1, <3>1, <3>2, AppendQueuedOnce
  <2>4. CASE IterationArg
    <3>1. /\ AddEntries(IterationEntries(trans, Top.prog))
          /\ root' = root /\ ArgReady /\ IsIteration(Top.prog)
      BY <2>4 DEF IterationArg
    <3>2. \A t \in IterationEntries(trans, Top.prog) : t.succ \in Programs
      BY <3>1, IterationCallEntries
    <3>. QED
      BY <2>1, <3>1, <3>2, AppendQueuedOnce
  <2>5. CASE UNCHANGED <<root, queue, added>>
    BY <2>5 DEF QueuedOnce
  <2>. QED
    BY <2>2, <2>3, <2>4, <2>5
       DEF Next, Finish, VisitLeaf, VisitNil, VisitUnd, VisitAction, VisitUnknownAction, VisitTest,
           ReturnLeaf, VisitArg, UseMissingFinal, CombineArg, ChoiceArg, Return, Ended, tfcVars
<1>. QED
  BY <1>1, <1>2, InvariantHolds, PTL DEF TFCSpec
=============================================================================
