---------------------------- MODULE RspWalkProofs ----------------------------
(***************************************************************************)
(* Proofs about RspWalk: for every image, every set of roots and every     *)
(* call depth, the walk makes a leader of every block that the emission    *)
(* names, so compile never fails on an image.                              *)
(***************************************************************************)
EXTENDS RspWalk, RspImageProofs

-----------------------------------------------------------------------------
(* The invariant. *)

\* Every step of compile keeps its bookkeeping consistent.
LEMMA WalkStep == WalkInv /\ [Next]_vars => WalkInv'
<1> SUFFICES ASSUME WalkInv, [Next]_vars
             PROVE  WalkInv'
  OBVIOUS
<1>a. /\ at[1] \in Addr /\ at[2] \in CallStrings /\ at[2] \in contexts
      /\ at = << at[1], at[2] >>
      /\ << NextAddr(at[1]), at[2] >> \in Keys
  BY AddrType DEF WalkInv, TypeOK, ContextsClosed, Keys
<1>b. /\ Plain(img, at[1]) => ~Control(img, at[1])
      /\ Control(img, at[1]) => IsControl(img[at[1]]) /\ ~IsBreak(img[at[1]])
      /\ ~Translatable(img, at[1]) \/ IsBreak(img[at[1]]) =>
           ~Plain(img, at[1]) /\ ~Control(img, at[1])
  BY KindsDisjoint
<1>c. /\ InContext0(roots) \subseteq Keys
      /\ \A k \in InContext0(roots) : k[2] = NoContext
  BY InContext0Type DEF WalkInv, TypeOK
<1>1. CASE SeedRoots
  <2> USE DEF SeedRoots, walkVars, emitVars
  <2>1. TypeOK'
    BY <1>1, <1>c DEF WalkInv, TypeOK, Phases
  <2>2. ContextsClosed'
    BY <1>1, <1>c DEF WalkInv, ContextsClosed
  <2>3. LeadersPending'
    BY <1>1 DEF WalkInv, LeadersPending
  <2>4. WalkedClosed'
    BY <1>1 DEF WalkInv, WalkedClosed, Follows
  <2>5. RootsSeeded'
    BY <1>1 DEF WalkInv, RootsSeeded, InContext0
  <2>6. EmissionCovered'
    BY <1>1 DEF WalkInv, EmissionCovered, EmitPhases
  <2>7. phase' \notin {"rejected", "threw"}
    BY <1>1 DEF WalkInv
  <2> QED
    BY <2>1, <2>2, <2>3, <2>4, <2>5, <2>6, <2>7 DEF WalkInv
<1>2. CASE PopWork
  <2> USE DEF PopWork, walkVars, emitVars
  <2>1. TypeOK'
    BY <1>2 DEF WalkInv, TypeOK, Phases
  <2>2. ContextsClosed'
    BY <1>2 DEF WalkInv, ContextsClosed, LeadersPending
  <2>3. LeadersPending'
    BY <1>2 DEF WalkInv, LeadersPending
  <2>4. WalkedClosed'
    BY <1>2 DEF WalkInv, WalkedClosed, Follows
  <2>5. RootsSeeded'
    BY <1>2 DEF WalkInv, RootsSeeded, InContext0
  <2>6. EmissionCovered'
    BY <1>2 DEF WalkInv, EmissionCovered, EmitPhases
  <2>7. phase' \notin {"rejected", "threw"}
    BY <1>2 DEF WalkInv
  <2> QED
    BY <2>1, <2>2, <2>3, <2>4, <2>5, <2>6, <2>7 DEF WalkInv
<1>3. CASE Reseed
  <2> USE DEF Reseed, walkVars, emitVars
  <2>1. TypeOK'
    BY <1>3 DEF WalkInv, TypeOK, Phases
  <2>2. ContextsClosed'
    BY <1>3 DEF WalkInv, ContextsClosed
  <2>3. LeadersPending'
    BY <1>3 DEF WalkInv, LeadersPending
  <2>4. WalkedClosed'
    BY <1>3 DEF WalkInv, WalkedClosed, Follows
  <2>5. RootsSeeded'
    BY <1>3 DEF WalkInv, RootsSeeded, InContext0
  <2>6. EmissionCovered'
    BY <1>3 DEF WalkInv, EmissionCovered, EmitPhases
  <2>7. phase' \notin {"rejected", "threw"}
    BY <1>3 DEF WalkInv
  <2> QED
    BY <2>1, <2>2, <2>3, <2>4, <2>5, <2>6, <2>7 DEF WalkInv
<1>4. CASE ScanJoin
  <2> USE DEF ScanJoin, walkVars, emitVars
  <2>1. TypeOK'
    BY <1>4 DEF WalkInv, TypeOK, Phases
  <2>2. ContextsClosed'
    BY <1>4 DEF WalkInv, ContextsClosed
  <2>3. LeadersPending'
    BY <1>4 DEF WalkInv, LeadersPending
  <2>4. WalkedClosed'
    BY <1>4 DEF WalkInv, WalkedClosed, Follows
  <2>5. RootsSeeded'
    BY <1>4 DEF WalkInv, RootsSeeded, InContext0
  <2>6. EmissionCovered'
    BY <1>4 DEF WalkInv, EmissionCovered, EmitPhases
  <2>7. phase' \notin {"rejected", "threw"}
    BY <1>4 DEF WalkInv
  <2> QED
    BY <2>1, <2>2, <2>3, <2>4, <2>5, <2>6, <2>7 DEF WalkInv
<1>5. CASE ScanStop
  <2> USE DEF ScanStop, walkVars, emitVars
  <2>1. TypeOK'
    BY <1>5 DEF WalkInv, TypeOK, Phases
  <2>2. ContextsClosed'
    BY <1>5 DEF WalkInv, ContextsClosed
  <2>3. LeadersPending'
    BY <1>5 DEF WalkInv, LeadersPending
  <2>4. WalkedClosed'
    BY <1>5, <1>b DEF WalkInv, WalkedClosed, Follows
  <2>5. RootsSeeded'
    BY <1>5 DEF WalkInv, RootsSeeded, InContext0
  <2>6. EmissionCovered'
    BY <1>5 DEF WalkInv, EmissionCovered, EmitPhases
  <2>7. phase' \notin {"rejected", "threw"}
    BY <1>5 DEF WalkInv
  <2> QED
    BY <2>1, <2>2, <2>3, <2>4, <2>5, <2>6, <2>7 DEF WalkInv
<1>6. CASE ScanPlain
  <2> USE DEF ScanPlain, walkVars, emitVars
  <2>1. TypeOK'
    BY <1>6, <1>a DEF WalkInv, TypeOK, Phases
  <2>2. ContextsClosed'
    BY <1>6 DEF WalkInv, ContextsClosed
  <2>3. LeadersPending'
    BY <1>6 DEF WalkInv, LeadersPending
  <2>4. WalkedClosed'
    BY <1>6, <1>b DEF WalkInv, WalkedClosed, Follows
  <2>5. RootsSeeded'
    BY <1>6 DEF WalkInv, RootsSeeded, InContext0
  <2>6. EmissionCovered'
    BY <1>6 DEF WalkInv, EmissionCovered, EmitPhases
  <2>7. phase' \notin {"rejected", "threw"}
    BY <1>6 DEF WalkInv
  <2> QED
    BY <2>1, <2>2, <2>3, <2>4, <2>5, <2>6, <2>7 DEF WalkInv
<1>7. CASE ScanControl
  <2> DEFINE succ == WalkSuccs(img, at[1], at[2])
  <2>a. succ \subseteq Keys
    BY <1>a, WalkSuccsType DEF WalkInv, TypeOK
  <2>b. ~PopFails(at[1], at[2])
    BY <1>a DEF PopFails, WalkInv, ContextsClosed
  <2>c. /\ phase = "scan" /\ at \notin walked /\ Control(img, at[1])
        /\ walked' = walked \cup {at}
        /\ contexts' = ContextsAfter(at[1], at[2])
        /\ leaders' = leaders \cup succ
        /\ work' = work \cup (succ \ leaders)
        /\ phase' = "pop"
        /\ UNCHANGED << img, asked, at, emitVars >>
    BY <1>7, <2>b DEF ScanControl, LinkRoots, AnotherRound
  <2>d. /\ roots' \subseteq Addr /\ rootsChanged' \in BOOLEAN
        /\ ~rootsChanged' => ~rootsChanged /\ roots' = roots
    <3>1. \/ UNCHANGED << roots, rootsChanged >>
          \/ /\ roots' = roots \cup {Link(at[1])}
             /\ rootsChanged' = (rootsChanged \/ ~({Link(at[1])} \subseteq roots))
      BY <1>7, <2>b DEF ScanControl, LinkRoots, AnotherRound, WalkInv, TypeOK
    <3> QED
      BY <3>1, <1>a, AddrType DEF WalkInv, TypeOK
  <2>e. /\ PushCtx(at[2], Link(at[1])) \in CallStrings
        /\ PushCtx(at[2], Link(at[1])) # NoContext =>
             PopCtx(PushCtx(at[2], Link(at[1]))) = at[2]
    BY <1>a, AddrType, PushType, PopPush
  <2>1. TypeOK'
    BY <2>a, <2>c, <2>d, <2>e DEF WalkInv, TypeOK, Phases, ContextsAfter, emitVars
  <2>2. ContextsClosed'
    <3>1. contexts \subseteq contexts' /\ NoContext \in contexts'
      BY <2>c DEF ContextsAfter, WalkInv, ContextsClosed
    <3>2. \A cs \in contexts' : cs # NoContext => PopCtx(cs) \in contexts'
      BY <1>a, <2>c, <2>e, <3>1 DEF ContextsAfter, WalkInv, ContextsClosed
    <3>3. ASSUME NEW k \in succ PROVE k[2] \in contexts'
      <4>1. CASE k[2] = at[2]
        BY <4>1, <1>a, <3>1
      <4>2. CASE IsCall(img[at[1]]) /\ k[2] = PushCtx(at[2], Link(at[1]))
        BY <4>2, <2>c DEF ContextsAfter
      <4>3. CASE at[2] # NoContext /\ k[2] = PopCtx(at[2])
        BY <4>3, <1>a, <3>1 DEF WalkInv, ContextsClosed
      <4> QED
        BY <4>1, <4>2, <4>3, WalkSuccsContext
    <3> QED
      BY <2>c, <3>1, <3>2, <3>3 DEF WalkInv, ContextsClosed
  <2>3. LeadersPending'
    BY <2>c DEF WalkInv, LeadersPending
  <2>4. WalkedClosed'
    BY <2>c, <1>b DEF WalkInv, WalkedClosed, Follows
  <2>5. RootsSeeded'
    BY <2>c, <2>d DEF WalkInv, RootsSeeded
  <2>6. EmissionCovered'
    BY <2>c DEF WalkInv, EmissionCovered, EmitPhases, emitVars
  <2> QED
    BY <2>1, <2>2, <2>3, <2>4, <2>5, <2>6, <2>c DEF WalkInv
<1>8. CASE PruneRoots
  <2> USE DEF PruneRoots, LegalRoots, walkVars, emitVars
  <2>1. TypeOK'
    BY <1>8 DEF WalkInv, TypeOK, Phases
  <2>2. ContextsClosed'
    BY <1>8 DEF WalkInv, ContextsClosed
  <2>3. LeadersPending'
    BY <1>8 DEF WalkInv, LeadersPending
  <2>4. WalkedClosed'
    BY <1>8 DEF WalkInv, WalkedClosed, Follows
  <2>5. RootsSeeded'
    BY <1>8 DEF WalkInv, RootsSeeded, InContext0
  <2>6. EmissionCovered'
    BY <1>8 DEF WalkInv, EmissionCovered, EmitPhases, RootsSeeded, InContext0, LeadersPending
  <2>7. phase' \notin {"rejected", "threw"}
    BY <1>8 DEF WalkInv
  <2> QED
    BY <2>1, <2>2, <2>3, <2>4, <2>5, <2>6, <2>7 DEF WalkInv
<1>9. CASE EmitEntry
  <2> USE DEF EmitEntry, walkVars, emitVars
  <2>1. TypeOK'
    BY <1>9 DEF WalkInv, TypeOK, Phases, EmissionCovered, EmitPhases, IndirectTargets, InContext0
  <2>2. ContextsClosed'
    BY <1>9 DEF WalkInv, ContextsClosed
  <2>3. LeadersPending'
    BY <1>9 DEF WalkInv, LeadersPending
  <2>4. WalkedClosed'
    BY <1>9 DEF WalkInv, WalkedClosed, Follows
  <2>5. RootsSeeded'
    BY <1>9 DEF WalkInv, RootsSeeded, InContext0
  <2>6. EmissionCovered'
    BY <1>9 DEF WalkInv, EmissionCovered, EmitPhases, IndirectTargets, InContext0
  <2>7. phase' \notin {"rejected", "threw"}
    BY <1>9 DEF WalkInv
  <2> QED
    BY <2>1, <2>2, <2>3, <2>4, <2>5, <2>6, <2>7 DEF WalkInv
<1>10. CASE EmitLeader
  <2> USE DEF EmitLeader, walkVars, emitVars
  <2>1. TypeOK'
    BY <1>10 DEF WalkInv, TypeOK, Phases
  <2>2. ContextsClosed'
    BY <1>10 DEF WalkInv, ContextsClosed, EmissionCovered, EmitPhases
  <2>3. LeadersPending'
    BY <1>10 DEF WalkInv, LeadersPending
  <2>4. WalkedClosed'
    BY <1>10 DEF WalkInv, WalkedClosed, Follows
  <2>5. RootsSeeded'
    BY <1>10 DEF WalkInv, RootsSeeded, InContext0
  <2>6. EmissionCovered'
    BY <1>10 DEF WalkInv, EmissionCovered, EmitPhases, LeadersPending
  <2>7. phase' \notin {"rejected", "threw"}
    BY <1>10 DEF WalkInv
  <2> QED
    BY <2>1, <2>2, <2>3, <2>4, <2>5, <2>6, <2>7 DEF WalkInv
<1>11. CASE EmitExit
  <2> USE DEF EmitExit, walkVars, emitVars
  <2>1. TypeOK'
    BY <1>11 DEF WalkInv, TypeOK, Phases
  <2>2. ContextsClosed'
    BY <1>11 DEF WalkInv, ContextsClosed
  <2>3. LeadersPending'
    BY <1>11 DEF WalkInv, LeadersPending
  <2>4. WalkedClosed'
    BY <1>11 DEF WalkInv, WalkedClosed, Follows
  <2>5. RootsSeeded'
    BY <1>11 DEF WalkInv, RootsSeeded, InContext0
  <2>6. EmissionCovered'
    BY <1>11 DEF WalkInv, EmissionCovered, EmitPhases
  <2>7. phase' \notin {"rejected", "threw"}
    BY <1>11 DEF WalkInv
  <2> QED
    BY <2>1, <2>2, <2>3, <2>4, <2>5, <2>6, <2>7 DEF WalkInv
<1>12. CASE EmitPlain
  <2> USE DEF EmitPlain, EndsBlock, walkVars, emitVars
  <2>1. TypeOK'
    BY <1>12, <1>a DEF WalkInv, TypeOK, Phases, EmissionCovered, EmitPhases
  <2>2. ContextsClosed'
    BY <1>12 DEF WalkInv, ContextsClosed
  <2>3. LeadersPending'
    BY <1>12 DEF WalkInv, LeadersPending
  <2>4. WalkedClosed'
    BY <1>12 DEF WalkInv, WalkedClosed, Follows
  <2>5. RootsSeeded'
    BY <1>12 DEF WalkInv, RootsSeeded, InContext0
  <2>6. EmissionCovered'
    BY <1>12 DEF WalkInv, EmissionCovered, EmitPhases, WalkedClosed, Follows
  <2>7. phase' \notin {"rejected", "threw"}
    BY <1>12 DEF WalkInv
  <2> QED
    BY <2>1, <2>2, <2>3, <2>4, <2>5, <2>6, <2>7 DEF WalkInv
<1>13. CASE EmitControl
  <2>a. ~PopFails(at[1], at[2])
    BY <1>a DEF PopFails, WalkInv, ContextsClosed
  <2>b. WalkSuccs(img, at[1], at[2]) \subseteq leaders
    BY <1>13 DEF EmitControl, WalkInv, EmissionCovered, WalkedClosed, Follows
  <2>c. EmitTargets(img, at[1], at[2], dispatch) \subseteq leaders
    BY <1>13, <1>b, <2>b, EmitWithinWalk
    DEF EmitControl, WalkInv, EmissionCovered, EmitPhases
  <2>d. contexts' = contexts
    <3>1. CASE IsCall(img[at[1]])
      <4>1. << TAddr(img, at[1]), PushCtx(at[2], Link(at[1])) >> \in leaders
        BY <3>1, <2>b DEF WalkSuccs, StaticTargets, IsCall
      <4> QED
        BY <1>13, <4>1 DEF EmitControl, ContextsAfter, WalkInv, ContextsClosed
    <3>2. CASE ~IsCall(img[at[1]])
      BY <1>13, <3>2 DEF EmitControl, ContextsAfter
    <3> QED
      BY <3>1, <3>2
  <2>e. /\ phase = "block" /\ phase' = "emit"
        /\ emitted' = emitted \cup {at}
        /\ blocks' = blocks \cup EmitTargets(img, at[1], at[2], dispatch)
        /\ UNCHANGED << img, asked, roots, walkVars, at, dispatch, todo >>
    BY <1>13, <2>a DEF EmitControl
  <2>1. TypeOK'
    BY <2>c, <2>d, <2>e DEF WalkInv, TypeOK, Phases, walkVars
  <2>2. ContextsClosed'
    BY <2>d, <2>e DEF WalkInv, ContextsClosed, walkVars
  <2>3. LeadersPending'
    BY <2>e DEF WalkInv, LeadersPending, walkVars
  <2>4. WalkedClosed'
    BY <2>e DEF WalkInv, WalkedClosed, Follows, walkVars
  <2>5. RootsSeeded'
    BY <2>e DEF RootsSeeded
  <2>6. EmissionCovered'
    BY <2>c, <2>e DEF WalkInv, EmissionCovered, EmitPhases, walkVars
  <2> QED
    BY <2>1, <2>2, <2>3, <2>4, <2>5, <2>6, <2>e DEF WalkInv
<1>14. CASE Verify
  <2> USE DEF Verify, walkVars, emitVars
  <2>1. TypeOK'
    BY <1>14 DEF WalkInv, TypeOK, Phases
  <2>2. ContextsClosed'
    BY <1>14 DEF WalkInv, ContextsClosed
  <2>3. LeadersPending'
    BY <1>14 DEF WalkInv, LeadersPending
  <2>4. WalkedClosed'
    BY <1>14 DEF WalkInv, WalkedClosed, Follows
  <2>5. RootsSeeded'
    BY <1>14 DEF WalkInv, RootsSeeded, InContext0
  <2>6. EmissionCovered'
    BY <1>14 DEF WalkInv, EmissionCovered, EmitPhases
  <2>7. phase' \notin {"rejected", "threw"}
    BY <1>14 DEF WalkInv, EmissionCovered, EmitPhases
  <2> QED
    BY <2>1, <2>2, <2>3, <2>4, <2>5, <2>6, <2>7 DEF WalkInv
<1>15. CASE Finished \/ UNCHANGED vars
  BY <1>15 DEF Finished, vars, walkVars, emitVars, WalkInv, TypeOK, ContextsClosed,
     LeadersPending, WalkedClosed, Follows, RootsSeeded, EmissionCovered
<1> QED
  BY <1>1, <1>2, <1>3, <1>4, <1>5, <1>6, <1>7, <1>8, <1>9, <1>10, <1>11, <1>12,
     <1>13, <1>14, <1>15 DEF Next

\* The bookkeeping of compile is consistent in every reachable state.
THEOREM WalkInvariant == Spec => []WalkInv
<1>1. Init => WalkInv
  <2> SUFFICES ASSUME Init PROVE WalkInv
    OBVIOUS
  <2>1. NoContext \in CallStrings /\ 0 \in Addr
    BY NumWordsAssumption, MaxCallDepthAssumption DEF CallStrings, NoContext, Addr
  <2>2. TypeOK
    BY <2>1, RootSetsAssumption DEF Init, TypeOK, Phases, Keys
  <2> QED
    BY <2>2 DEF Init, WalkInv, ContextsClosed, LeadersPending, WalkedClosed,
       RootsSeeded, EmissionCovered, EmitPhases
<1> QED
  BY <1>1, WalkStep, PTL DEF Spec

\* rspbt.cc:279-280 for every image, root set and depth bound: every block that a
\* branch, a jump, a call, a return or the dispatch names is emitted, and popCtx
\* never meets a call string without a number.
THEOREM CompileAlwaysSucceeds == Spec => []CompileSucceeds
<1>1. WalkInv => CompileSucceeds
  BY DEF WalkInv, CompileSucceeds
<1> QED
  BY <1>1, WalkInvariant, PTL

\* Type correctness of compile's working state.
THEOREM WalkTypeCorrect == Spec => []TypeOK
<1>1. WalkInv => TypeOK
  BY DEF WalkInv
<1> QED
  BY <1>1, WalkInvariant, PTL

-----------------------------------------------------------------------------
(* Emission. *)

Next1(k) == << NextAddr(k[1]), k[2] >>

\* S has every leader, and what follows each of its plain instructions.
Closed(S) == leaders \subseteq S /\ \A k \in S : Plain(img, k[1]) => Next1(k) \in S

\* Nothing is walked but what straight-line code reaches from a leader.
WalkedFromLeaders ==
    \A S \in SUBSET Keys : Closed(S) =>
        walked \subseteq S /\ (phase = "scan" => at \in S)

\* k, which is no leader, is met after a plain instruction of S.
Continues(k, S) == \E p \in S : Plain(img, p[1]) /\ Next1(p) = k

\* Emission has done with the leaders that are not in todo, except the one it is at,
\* and with what follows each.
EmittedSoFar ==
    /\ phase \notin {"emit", "block", "done"} => emitted = {}
    /\ emitted \subseteq walked
    /\ phase \in {"emit", "block", "done"} =>
         /\ \A k \in leaders : k \in todo <=> k \notin emitted /\ ~(phase = "block" /\ at = k)
         /\ \A k \in emitted \ leaders : Continues(k, emitted)
         /\ \A k \in emitted : Plain(img, k[1]) =>
              Next1(k) \in emitted \cup leaders \/ (phase = "block" /\ at = Next1(k))
    /\ phase = "block" => at \notin emitted /\ (at \in leaders \/ Continues(at, emitted))
    /\ phase = "done" => todo = {}

EmitInv == WalkedFromLeaders /\ EmittedSoFar

\* An instruction follows one other.
LEMMA Next1Injective ==
    ASSUME NEW k \in Keys, NEW l \in Keys, Next1(k) = Next1(l)
    PROVE  k = l
<1>1. /\ k[1] \in Addr /\ l[1] \in Addr /\ k = << k[1], k[2] >> /\ l = << l[1], l[2] >>
      /\ NextAddr(k[1]) = NextAddr(l[1]) /\ k[2] = l[2]
  BY DEF Keys, Next1
<1>2. \A a \in Addr : NextAddr(a) = IF a = NumWords - 1 THEN 0 ELSE a + 1
  <2> SUFFICES ASSUME NEW a \in Addr
               PROVE  NextAddr(a) = IF a = NumWords - 1 THEN 0 ELSE a + 1
    OBVIOUS
  <2>1. CASE a = NumWords - 1
    BY <2>1, NumWordsAssumption DEF NextAddr, Addr
  <2>2. CASE a # NumWords - 1
    BY <2>2, NumWordsAssumption DEF NextAddr, Addr
  <2> QED
    BY <2>1, <2>2
<1>3. k[1] = l[1]
  BY <1>1, <1>2, NumWordsAssumption DEF Addr
<1> QED
  BY <1>1, <1>3

LEMMA WalkedFromLeadersStep ==
    ASSUME WalkInv, WalkedFromLeaders, [Next]_vars
    PROVE  WalkedFromLeaders'
<1> SUFFICES ASSUME NEW S \in SUBSET Keys, Closed(S)'
             PROVE  walked' \subseteq S /\ (phase' = "scan" => at' \in S)
  BY DEF WalkedFromLeaders, Closed
<1>1. img' = img /\ leaders \subseteq leaders'
  BY DEF Next, vars, SeedRoots, PopWork, Reseed, ScanJoin, ScanStop, ScanPlain, ScanControl,
         PruneRoots, EmitEntry, EmitLeader, EmitExit, EmitPlain, EmitControl, Verify, Finished,
         walkVars
<1>2. Closed(S)
  BY <1>1 DEF Closed
<1>3. walked \subseteq S /\ (phase = "scan" => at \in S)
  BY <1>2 DEF WalkedFromLeaders
<1>4. work \subseteq leaders
  BY DEF WalkInv, LeadersPending
<1>5. CASE PopWork
  BY <1>2, <1>3, <1>4, <1>5 DEF PopWork, Closed
<1>6. CASE ScanStop \/ ScanControl
  BY <1>3, <1>6 DEF ScanStop, ScanControl
<1>7. CASE ScanPlain
  <2>1. at \in S /\ Plain(img, at[1])
    BY <1>3, <1>7 DEF ScanPlain
  <2>2. Next1(at) \in S
    BY <1>2, <2>1 DEF Closed
  <2> QED
    BY <1>3, <1>7, <2>1, <2>2 DEF ScanPlain, Next1
<1>8. CASE SeedRoots \/ Reseed \/ ScanJoin \/ PruneRoots
  BY <1>3, <1>8 DEF SeedRoots, Reseed, ScanJoin, PruneRoots, walkVars
<1>9. CASE EmitEntry \/ EmitLeader \/ EmitExit \/ EmitPlain \/ EmitControl \/ Verify
  BY <1>3, <1>9 DEF EmitEntry, EmitLeader, EmitExit, EmitPlain, EmitControl, Verify, walkVars
<1>10. CASE Finished \/ UNCHANGED vars
  BY <1>3, <1>10 DEF Finished, vars, walkVars
<1> QED
  BY <1>5, <1>6, <1>7, <1>8, <1>9, <1>10 DEF Next

LEMMA EmittedSoFarStep ==
    ASSUME WalkInv, EmittedSoFar, [Next]_vars
    PROVE  EmittedSoFar'
<1> DEFINE n == Next1(at)
<1>0. /\ at \in Keys /\ emitted \subseteq Keys /\ leaders \subseteq Keys /\ todo \subseteq leaders
      /\ work \subseteq leaders /\ (phase = "block" => at \in walked)
  BY DEF WalkInv, TypeOK, EmissionCovered, EmitPhases, LeadersPending
<1>1. CASE SeedRoots \/ PopWork \/ Reseed \/ ScanJoin \/ ScanStop \/ ScanPlain \/ ScanControl
           \/ PruneRoots
  BY <1>1 DEF SeedRoots, PopWork, Reseed, ScanJoin, ScanStop, ScanPlain, ScanControl,
              PruneRoots, emitVars, walkVars, EmittedSoFar
<1>2. CASE EmitEntry
  BY <1>2 DEF EmitEntry, EmittedSoFar, walkVars
<1>3. CASE EmitLeader
  <2>1. PICK k \in todo : at' = k /\ todo' = todo \ {k}
    BY <1>3 DEF EmitLeader
  <2>2. /\ phase = "emit" /\ phase' = "block" /\ img' = img /\ emitted' = emitted
        /\ leaders' = leaders /\ walked' = walked
    BY <1>3 DEF EmitLeader, walkVars
  <2>3. k \in leaders /\ k \notin emitted
    BY <1>0, <2>1, <2>2 DEF EmittedSoFar
  <2> QED
    BY <2>1, <2>2, <2>3 DEF EmittedSoFar, Continues
<1>4. CASE EmitExit \/ EmitControl
  <2>1. /\ phase = "block" /\ img' = img /\ emitted' = emitted \cup {at}
        /\ leaders' = leaders /\ walked' = walked /\ todo' = todo
    BY <1>4 DEF EmitExit, EmitControl, walkVars
  <2>2. phase' \in {"emit", "threw"} /\ ~Plain(img, at[1])
    BY <1>4, KindsDisjoint DEF EmitExit, EmitControl
  <2>3. phase' # "threw"
    <3>1. WalkInv'
      BY WalkStep
    <3> QED
      BY <3>1 DEF WalkInv
  <2> QED
    BY <1>0, <2>1, <2>2, <2>3 DEF EmittedSoFar, Continues
<1>5. CASE EmitPlain
  <2>1. /\ phase = "block" /\ img' = img /\ emitted' = emitted \cup {at} /\ Plain(img, at[1])
        /\ leaders' = leaders /\ walked' = walked /\ todo' = todo
        /\ \/ n \in leaders /\ phase' = "emit"
           \/ n \notin leaders /\ at' = n /\ phase' = phase
    BY <1>5 DEF EmitPlain, EndsBlock, Next1, walkVars
  <2>2. at \notin emitted /\ (at \in leaders \/ Continues(at, emitted))
    BY <2>1 DEF EmittedSoFar
  <2>3. CASE n \in leaders /\ phase' = "emit"
    BY <1>0, <2>1, <2>2, <2>3 DEF EmittedSoFar, Continues
  <2>4. CASE n \notin leaders /\ at' = n /\ phase' = phase
    <3>1. n \notin emitted
      <4> SUFFICES ASSUME n \in emitted PROVE FALSE
        OBVIOUS
      <4>1. Continues(n, emitted)
        BY <2>1, <2>4 DEF EmittedSoFar
      <4>2. at \in emitted
        BY <1>0, <4>1, Next1Injective DEF Continues
      <4> QED
        BY <2>2, <4>2
    <3>2. n # at
      <4> SUFFICES ASSUME n = at PROVE FALSE
        OBVIOUS
      <4>1. Continues(at, emitted)
        BY <2>2, <2>4
      <4>2. at \in emitted
        BY <1>0, <4>1, Next1Injective DEF Continues
      <4> QED
        BY <2>2, <4>2
    <3>3. \E p \in emitted' : Plain(img', p[1]) /\ Next1(p) = n
      BY <2>1
    <3>4. \A k \in emitted' \ leaders' : Continues(k, emitted)'
      BY <2>1, <2>2 DEF EmittedSoFar, Continues
    <3> QED
      BY <1>0, <2>1, <2>2, <2>4, <3>1, <3>2, <3>3, <3>4 DEF EmittedSoFar, Continues
  <2> QED
    BY <2>1, <2>3, <2>4
<1>6. CASE Verify
  <2>1. phase' # "rejected"
    <3>1. WalkInv'
      BY WalkStep
    <3> QED
      BY <3>1 DEF WalkInv
  <2> QED
    BY <1>6, <2>1 DEF Verify, EmittedSoFar, Continues, walkVars, emitVars
<1>7. CASE Finished \/ UNCHANGED vars
  BY <1>7 DEF Finished, vars, walkVars, emitVars, EmittedSoFar, Continues
<1> QED
  BY <1>1, <1>2, <1>3, <1>4, <1>5, <1>6, <1>7 DEF Next

\* What pass 2 has done and has left to do, in every step of compile.
LEMMA EmitInvariant == Spec => []EmitInv
<1>1. Init => EmitInv
  BY DEF Init, EmitInv, WalkedFromLeaders, EmittedSoFar
<1>2. WalkInv /\ EmitInv /\ [Next]_vars => EmitInv'
  BY WalkedFromLeadersStep, EmittedSoFarStep DEF EmitInv
<1> QED
  BY <1>1, <1>2, WalkInvariant, PTL DEF Spec

\* Pass 2 gives code to exactly what pass 1 walked, and to no instruction twice: for
\* every image, root set and call depth.
THEOREM EmissionMatchesWalk == Spec => []EmitsWhatItWalked
<1>1. WalkInv /\ EmitInv => EmitsWhatItWalked
  <2> SUFFICES ASSUME WalkInv, EmitInv PROVE EmitsWhatItWalked
    OBVIOUS
  <2>1. phase = "block" => at \in walked \ emitted
    BY DEF WalkInv, EmissionCovered, EmitInv, EmittedSoFar
  <2>2. ASSUME phase = "done" PROVE emitted = walked
    <3>1. Closed(emitted) /\ emitted \subseteq walked
      BY <2>2 DEF EmitInv, EmittedSoFar, Closed
    <3>2. walked \subseteq emitted
      BY <3>1 DEF EmitInv, WalkedFromLeaders, WalkInv, TypeOK
    <3> QED
      BY <3>1, <3>2
  <2> QED
    BY <2>1, <2>2 DEF EmitsWhatItWalked
<1> QED
  BY <1>1, EmitInvariant, WalkInvariant, PTL

-----------------------------------------------------------------------------
(* Reachability: the walk finds the least set of keys that holds the roots and is  *)
(* closed, which is what ReachKeys computes.                                       *)

RootsRecorded ==
    /\ phase \in {"seed", "pop", "scan"} => roots = asked \cup LinkRootsOf(img, walked)
    /\ phase \in EmitPhases =>
         /\ dispatch = {r \in asked \cup LinkRootsOf(img, walked) : Translatable(img, r)}
         /\ roots = dispatch
         /\ InContext0(asked \cup LinkRootsOf(img, walked)) \subseteq leaders

WalkedInside ==
    \A S : ReachClosed(img, asked, S) =>
        leaders \cup walked \subseteq S /\ (phase = "scan" => at \in S)

LEMMA RootsRecordedStep ==
    ASSUME WalkInv, RootsRecorded, [Next]_vars
    PROVE  RootsRecorded'
<1>1. CASE ScanStop \/ ScanPlain
  <2>1. /\ img' = img /\ asked' = asked /\ roots' = roots /\ walked' = walked \cup {at}
        /\ phase = "scan" /\ phase' \in {"scan", "pop"}
    BY <1>1 DEF ScanStop, ScanPlain
  <2>2. ~Control(img, at[1])
    BY <1>1, KindsDisjoint DEF ScanStop, ScanPlain
  <2>3. LinkRootsOf(img, walked') = LinkRootsOf(img, walked)
    BY <2>1, <2>2 DEF LinkRootsOf
  <2> QED
    BY <2>1, <2>3 DEF RootsRecorded, EmitPhases
<1>2. CASE ScanControl
  <2>1. WalkInv'
    BY WalkStep
  <2>2. phase' # "threw"
    BY <2>1 DEF WalkInv
  <2>3. /\ img' = img /\ asked' = asked /\ walked' = walked \cup {at} /\ phase = "scan"
        /\ phase' = "pop" /\ roots' = roots \cup LinkRoots(at[1]) /\ Control(img, at[1])
    BY <1>2, <2>2 DEF ScanControl
  <2>4. LinkRootsOf(img, walked') = LinkRootsOf(img, walked) \cup LinkRoots(at[1])
    BY <2>3 DEF LinkRootsOf, LinkRoots
  <2> QED
    BY <2>3, <2>4 DEF RootsRecorded, EmitPhases
<1>3. CASE SeedRoots \/ PopWork \/ Reseed \/ ScanJoin
  BY <1>3 DEF SeedRoots, PopWork, Reseed, ScanJoin, walkVars, RootsRecorded, EmitPhases
<1>4. CASE PruneRoots
  <2>1. InContext0(roots) \subseteq leaders /\ roots = asked \cup LinkRootsOf(img, walked)
    BY <1>4 DEF PruneRoots, WalkInv, RootsSeeded, RootsRecorded
  <2> QED
    BY <1>4, <2>1 DEF PruneRoots, LegalRoots, walkVars, RootsRecorded, EmitPhases
<1>5. CASE EmitEntry \/ EmitLeader \/ EmitExit \/ EmitPlain \/ EmitControl \/ Verify
  <2>1. phase \in EmitPhases /\ phase' \notin {"seed", "pop", "scan"}
    BY <1>5 DEF EmitEntry, EmitLeader, EmitExit, EmitPlain, EmitControl, Verify, EmitPhases
  <2>2. /\ img' = img /\ asked' = asked /\ roots' = roots /\ walked' = walked
        /\ dispatch' = dispatch /\ leaders' = leaders
    BY <1>5 DEF EmitEntry, EmitLeader, EmitExit, EmitPlain, EmitControl, Verify, walkVars, emitVars
  <2> QED
    BY <2>1, <2>2 DEF RootsRecorded
<1>6. CASE Finished \/ UNCHANGED vars
  BY <1>6 DEF Finished, vars, walkVars, emitVars, RootsRecorded
<1> QED
  BY <1>1, <1>2, <1>3, <1>4, <1>5, <1>6 DEF Next

LEMMA WalkedInsideStep ==
    ASSUME WalkInv, RootsRecorded, WalkedInside, [Next]_vars
    PROVE  WalkedInside'
<1>1. img' = img /\ asked' = asked
  BY DEF Next, vars, SeedRoots, PopWork, Reseed, ScanJoin, ScanStop, ScanPlain, ScanControl,
         PruneRoots, EmitEntry, EmitLeader, EmitExit, EmitPlain, EmitControl, Verify, Finished
<1> SUFFICES ASSUME NEW S, ReachClosed(img, asked, S)
             PROVE  leaders' \cup walked' \subseteq S /\ (phase' = "scan" => at' \in S)
  BY <1>1 DEF WalkedInside, ReachClosed
<1>2. leaders \cup walked \subseteq S /\ (phase = "scan" => at \in S)
  BY DEF WalkedInside
<1>3. work \subseteq leaders
  BY DEF WalkInv, LeadersPending
<1>4. CASE SeedRoots
  <2>1. LinkRootsOf(img, walked) \subseteq LinkRootsOf(img, S)
    BY <1>2 DEF LinkRootsOf
  <2>2. InContext0(roots) \subseteq S
    BY <1>4, <2>1 DEF SeedRoots, RootsRecorded, ReachClosed, InContext0
  <2> QED
    BY <1>2, <1>4, <2>2 DEF SeedRoots
<1>5. CASE PopWork
  BY <1>2, <1>3, <1>5 DEF PopWork
<1>6. CASE ScanJoin \/ ScanStop
  BY <1>2, <1>6 DEF ScanJoin, ScanStop
<1>7. CASE ScanPlain
  <2>1. KeySuccs(img, at) = {<< NextAddr(at[1]), at[2] >>} /\ at \in S
    BY <1>2, <1>7, KindsDisjoint DEF ScanPlain, KeySuccs
  <2> QED
    BY <1>2, <1>7, <2>1 DEF ScanPlain, ReachClosed
<1>8. CASE ScanControl
  <2>1. ~Plain(img, at[1]) /\ Control(img, at[1]) /\ at \in S
    BY <1>2, <1>8, KindsDisjoint DEF ScanControl
  <2>2. KeySuccs(img, at) = WalkSuccs(img, at[1], at[2])
    BY <2>1 DEF KeySuccs
  <2>3. WalkSuccs(img, at[1], at[2]) \subseteq S
    BY <2>1, <2>2 DEF ReachClosed
  <2> QED
    BY <1>2, <1>8, <2>1, <2>3 DEF ScanControl
<1>9. CASE Reseed \/ PruneRoots
  BY <1>2, <1>9 DEF Reseed, PruneRoots, walkVars
<1>10. CASE EmitEntry \/ EmitLeader \/ EmitExit \/ EmitPlain \/ EmitControl \/ Verify
  BY <1>2, <1>10 DEF EmitEntry, EmitLeader, EmitExit, EmitPlain, EmitControl, Verify, walkVars
<1>11. CASE Finished \/ UNCHANGED vars
  BY <1>2, <1>11 DEF Finished, vars, walkVars
<1> QED
  BY <1>4, <1>5, <1>6, <1>7, <1>8, <1>9, <1>10, <1>11 DEF Next

\* What a finished compilation has walked is the least closed set, and the cases
\* of its dispatch are the roots that translate.
WalkIsLeast ==
    phase = "done" =>
        /\ ReachClosed(img, asked, walked)
        /\ \A S : ReachClosed(img, asked, S) => walked \subseteq S
        /\ dispatch = {r \in asked \cup LinkRootsOf(img, walked) : Translatable(img, r)}

\* What is recorded of the roots, and that the walk stays inside every closed set, hold
\* in every step of compile.
LEMMA ReachInvariant == Spec => [](WalkInv /\ RootsRecorded /\ WalkedInside)
<1>1. Init => RootsRecorded /\ WalkedInside
  <2> SUFFICES ASSUME Init
               PROVE  RootsRecorded /\ WalkedInside
    OBVIOUS
  <2>1. LinkRootsOf(img, walked) = {}
    BY DEF Init, LinkRootsOf
  <2> QED
    BY <2>1 DEF Init, RootsRecorded, WalkedInside, EmitPhases
<1>2. WalkInv /\ RootsRecorded /\ WalkedInside /\ [Next]_vars => (RootsRecorded /\ WalkedInside)'
  BY RootsRecordedStep, WalkedInsideStep
<1> QED
  BY <1>1, <1>2, WalkInvariant, PTL DEF Spec

\* The walk misses nothing that can be reached from the roots and finds nothing else,
\* for every image, root set and call depth, in every order of the stack.
THEOREM WalkFindsWhatIsReachable == Spec => []WalkIsLeast
<1>1. WalkInv /\ RootsRecorded /\ WalkedInside => WalkIsLeast
  <2> SUFFICES ASSUME WalkInv, RootsRecorded, WalkedInside, phase = "done"
               PROVE  /\ ReachClosed(img, asked, walked)
                      /\ \A S : ReachClosed(img, asked, S) => walked \subseteq S
                      /\ dispatch = {r \in asked \cup LinkRootsOf(img, walked) :
                                        Translatable(img, r)}
    BY DEF WalkIsLeast
  <2>1. leaders \subseteq walked
    BY DEF WalkInv, LeadersPending, EmissionCovered, EmitPhases
  <2>2. InContext0(asked \cup LinkRootsOf(img, walked)) \subseteq walked
    BY <2>1 DEF RootsRecorded, EmitPhases
  <2>3. \A k \in walked : KeySuccs(img, k) \subseteq walked
    BY <2>1 DEF WalkInv, WalkedClosed, Follows, KeySuccs
  <2> QED
    BY <2>2, <2>3 DEF ReachClosed, WalkedInside, RootsRecorded, EmitPhases
<1> QED
  BY <1>1, ReachInvariant, PTL

\* A finished walk is what the reference definition computes.
LEMMA LeastIsReachKeys ==
    ASSUME TypeOK, WalkIsLeast, phase = "done"
    PROVE  walked = ReachKeys(img, asked)
<1>1. img \in Images /\ asked \in SUBSET Addr /\ walked \in SUBSET Keys
  BY DEF TypeOK
<1>2. /\ ReachKeys(img, asked) \in SUBSET Keys
      /\ ReachClosed(img, asked, ReachKeys(img, asked))
      /\ \A S \in SUBSET Keys : ReachClosed(img, asked, S) => ReachKeys(img, asked) \subseteq S
  BY <1>1, ReachKeysIs
<1> QED
  BY <1>1, <1>2 DEF WalkIsLeast

\* Whatever order the stack imposes and however often jalr return sites restart it, the
\* walk ends with exactly the keys that the recursive definition of reachability gives.
THEOREM WalkComputesReachability == Spec => []WalkIsReachability
<1>1. WalkInv /\ WalkIsLeast => WalkIsReachability
  BY LeastIsReachKeys DEF WalkInv, WalkIsReachability
<1> QED
  BY <1>1, WalkInvariant, WalkFindsWhatIsReachable, PTL

\* The dispatch has a case for every translatable root and for no data word, and the
\* roots the image keeps are those cases.
THEOREM DispatchHasEveryRoot == Spec => []DispatchIsComplete
<1>1. RootsRecorded /\ TypeOK /\ WalkIsLeast => DispatchIsComplete
  <2> SUFFICES ASSUME RootsRecorded, TypeOK, WalkIsLeast, phase = "done"
               PROVE  dispatch = CompiledRoots(img, asked) /\ roots = dispatch
    BY DEF DispatchIsComplete
  <2>1. roots = dispatch
    BY DEF RootsRecorded, EmitPhases
  <2>2. dispatch = {x \in asked \cup LinkRootsOf(img, ReachKeys(img, asked)) :
                       Translatable(img, x)}
    BY LeastIsReachKeys DEF WalkIsLeast
  <2>3. asked \cup LinkRootsOf(img, ReachKeys(img, asked)) \subseteq Addr
    BY ReachKeysIs, LinkRootsOfType DEF TypeOK
  <2> QED
    BY <2>1, <2>2, <2>3 DEF CompiledRoots
<1>2. WalkInv => TypeOK
  BY DEF WalkInv
<1> QED
  BY <1>1, <1>2, ReachInvariant, WalkFindsWhatIsReachable, PTL

-----------------------------------------------------------------------------
(* Termination, as far as it is a matter of steps: every step that changes anything  *)
(* decreases a measure that cannot decrease forever.  A key is a leader before it is *)
(* walked, a round is asked for only by a new root, pass 2 meets no key twice, and   *)
(* there are finitely many of each.                                                  *)

Left(S) == Cardinality(Keys \ S)

Pass ==
    CASE phase \in {"seed", "pop", "scan"} -> 3
      [] phase = "entry" -> 2
      [] phase \in {"emit", "block"} -> 1
      [] OTHER -> 0

\* Where a round of the walk stands: it begins anew only when one was asked for.
Stage ==
    CASE phase = "scan" -> 4
      [] phase = "seed" /\ ~rootsChanged -> 3
      [] phase = "pop" -> 2
      [] OTHER -> 1

Measure ==
    << Pass, Cardinality(Addr \ roots), IF rootsChanged THEN 1 ELSE 0,
       Left(walked), Left(leaders), Cardinality(work), Stage,
       Left(emitted), Cardinality(todo) >>

Places == 1 .. 9
Ranks == [Places -> Nat]

\* m comes before n: it is smaller at the first place where they differ.
Before(m, n) == \E i \in Places : m[i] < n[i] /\ \A j \in 1 .. i - 1 : m[j] = n[j]

\* A set of numbers has a least one.
LEMMA LeastOf ==
    ASSUME NEW T \in SUBSET Nat, T # {}
    PROVE  \E x \in T : \A y \in T : x <= y
<1>1. PICK x \in T : \A y \in T : << y, x >> \notin OpToRel(<, Nat)
  BY NatLessThanWellFounded, WFMin
<1>2. \A y \in T : ~(y < x)
  BY <1>1 DEF OpToRel
<1> QED
  BY <1>2

\* A sequence of numbers that never rises from N on settles.
LEMMA Settles ==
    ASSUME NEW s, NEW N \in Nat, \A n \in Nat : s[n] \in Nat,
           \A n \in Nat : n >= N => s[n + 1] <= s[n]
    PROVE  \E M \in Nat : M >= N /\ \A n \in Nat : n >= M => s[n] = s[M]
<1> DEFINE T == {s[n] : n \in {l \in Nat : l >= N}}
<1>1. PICK M \in Nat : M >= N /\ \A n \in Nat : n >= N => s[M] <= s[n]
  <2>1. T \in SUBSET Nat /\ s[N] \in T
    OBVIOUS
  <2>2. \E x \in T : \A y \in T : x <= y
    <3> HIDE DEF T
    <3> QED
      BY <2>1, LeastOf
  <2> QED
    BY <2>2
<1> DEFINE U == {n \in Nat : n >= M /\ s[n] # s[M]}
<1>2. U = {}
  <2> SUFFICES ASSUME U # {}
               PROVE  FALSE
    OBVIOUS
  <2>1. PICK n \in U : \A y \in U : n <= y
    <3>1. U \in SUBSET Nat
      OBVIOUS
    <3> HIDE DEF U
    <3> QED
      BY <3>1, LeastOf
  <2>2. n \in Nat /\ n > M /\ n - 1 \in Nat /\ n - 1 >= M /\ n - 1 + 1 = n
    BY <1>1, <2>1
  <2>3. s[n - 1] = s[M]
    <3>1. n - 1 \notin U
      BY <2>1, <2>2
    <3> QED
      BY <2>2, <3>1
  <2>4. s[n] <= s[n - 1]
    <3>1. n - 1 >= N
      BY <1>1, <2>2
    <3>2. s[n - 1 + 1] <= s[n - 1]
      BY <2>2, <3>1
    <3> QED
      BY <2>2, <3>2
  <2>5. s[M] <= s[n] /\ s[n] \in Nat /\ s[M] \in Nat
    BY <1>1, <2>2
  <2>6. s[n] = s[M]
    BY <2>3, <2>4, <2>5
  <2> QED
    BY <2>1, <2>6
<1> QED
  BY <1>1, <1>2

\* Ranks that come one before the other without end do not exist: the order is well
\* founded.
LEMMA NoEndlessDescent ==
    ASSUME NEW f, \A n \in Nat : f[n] \in Ranks
    PROVE  ~ \A n \in Nat : Before(f[n + 1], f[n])
<1> SUFFICES ASSUME \A n \in Nat : Before(f[n + 1], f[n])
             PROVE  FALSE
  OBVIOUS
<1> DEFINE Steady(i, N) == \A n \in Nat : n >= N => \A j \in 1 .. i : f[n][j] = f[N][j]
           Bad == {i \in 0 .. 9 : ~ \E N \in Nat : Steady(i, N)}
<1>1. ASSUME NEW i \in Places, NEW N \in Nat, Steady(i - 1, N)
      PROVE  \E M \in Nat : Steady(i, M)
  <2> DEFINE s == [n \in Nat |-> f[n][i]]
  <2>1. \A n \in Nat : s[n] \in Nat
    BY DEF Ranks
  <2>2. ASSUME NEW n \in Nat, n >= N
        PROVE  s[n + 1] <= s[n]
    <3>1. PICK k \in Places : f[n + 1][k] < f[n][k] /\ \A j \in 1 .. k - 1 : f[n + 1][j] = f[n][j]
      BY DEF Before
    <3>2. k >= i
      <4> SUFFICES ASSUME k < i
                   PROVE  FALSE
        BY DEF Places
      <4>1. k \in 1 .. i - 1 /\ n + 1 \in Nat /\ n + 1 >= N
        BY <2>2 DEF Places
      <4>2. f[n][k] = f[N][k] /\ f[n + 1][k] = f[N][k]
        BY <1>1, <2>2, <4>1
      <4>3. f[n][k] \in Nat
        BY DEF Ranks
      <4> QED
        BY <3>1, <4>2, <4>3
    <3>3. n + 1 \in Nat /\ s[n + 1] = f[n + 1][i] /\ s[n] = f[n][i]
      OBVIOUS
    <3>4. s[n] \in Nat /\ s[n + 1] \in Nat
      BY <2>1, <3>3
    <3>5. CASE k = i
      BY <3>1, <3>3, <3>4, <3>5
    <3>6. CASE k > i
      <4>1. i \in 1 .. k - 1
        BY <3>6 DEF Places
      <4> QED
        BY <3>1, <3>3, <3>4, <4>1
    <3> QED
      BY <3>2, <3>5, <3>6 DEF Places
  <2>3. PICK M \in Nat : M >= N /\ \A n \in Nat : n >= M => s[n] = s[M]
    <3> HIDE DEF s
    <3> QED
      BY <2>1, <2>2, Settles
  <2>4. Steady(i, M)
    <3> SUFFICES ASSUME NEW n \in Nat, n >= M, NEW j \in 1 .. i
                 PROVE  f[n][j] = f[M][j]
      OBVIOUS
    <3>1. n >= N
      BY <2>3
    <3>2. CASE j = i
      BY <2>3, <3>2
    <3>3. CASE j \in 1 .. i - 1
      BY <1>1, <2>3, <3>1, <3>3
    <3> QED
      BY <3>2, <3>3 DEF Places
  <2> QED
    BY <2>4
<1>2. Bad = {}
  <2> SUFFICES ASSUME Bad # {}
               PROVE  FALSE
    OBVIOUS
  <2>1. PICK i \in Bad : \A y \in Bad : i <= y
    <3> HIDE DEF Steady
    <3>1. Bad \in SUBSET Nat
      OBVIOUS
    <3> HIDE DEF Bad
    <3> QED
      BY <3>1, LeastOf
  <2>2. i # 0
    <3>1. Steady(0, 0)
      OBVIOUS
    <3> QED
      BY <2>1, <3>1
  <2>3. i \in Places /\ i - 1 \in 0 .. 9 /\ ~(i <= i - 1)
    BY <2>1, <2>2 DEF Places
  <2>4. PICK N \in Nat : Steady(i - 1, N)
    <3> HIDE DEF Steady
    <3> QED
      BY <2>1, <2>3
  <2>5. \E M \in Nat : Steady(i, M)
    <3> HIDE DEF Steady
    <3> QED
      BY <1>1, <2>3, <2>4
  <2> QED
    <3> HIDE DEF Steady
    <3> QED
      BY <2>1, <2>5
<1>3. PICK N \in Nat : Steady(9, N)
  <2>1. 9 \in 0 .. 9
    OBVIOUS
  <2> HIDE DEF Steady
  <2> QED
    BY <1>2, <2>1
<1>4. PICK i \in Places : f[N + 1][i] < f[N][i]
  BY DEF Before
<1>5. f[N + 1][i] = f[N][i]
  BY <1>3 DEF Places
<1>6. f[N][i] \in Nat
  BY DEF Ranks
<1> QED
  BY <1>4, <1>5, <1>6

LEMMA LeftShrinks ==
    ASSUME NEW S \in SUBSET Keys, NEW T \in SUBSET Keys, S \subseteq T
    PROVE  /\ Left(S) \in Nat
           /\ Left(T) \in Nat
           /\ S # T => Left(T) < Left(S)
<1>1. IsFiniteSet(Keys \ S) /\ Keys \ T \in SUBSET (Keys \ S)
  BY KeysFinite, FS_Subset
<1>2. /\ IsFiniteSet(Keys \ T) /\ Cardinality(Keys \ T) <= Cardinality(Keys \ S)
      /\ Cardinality(Keys \ S) = Cardinality(Keys \ T) => Keys \ S = Keys \ T
  BY <1>1, FS_Subset
<1>3. Cardinality(Keys \ S) \in Nat /\ Cardinality(Keys \ T) \in Nat
  BY <1>1, <1>2, FS_CardinalityType
<1> QED
  BY <1>2, <1>3 DEF Left

LEMMA TypedSizes ==
    ASSUME TypeOK
    PROVE  /\ IsFiniteSet(Addr \ roots) /\ IsFiniteSet(work) /\ IsFiniteSet(todo)
           /\ Cardinality(Addr \ roots) \in Nat
           /\ Cardinality(work) \in Nat
           /\ Cardinality(todo) \in Nat
           /\ Left(walked) \in Nat /\ Left(leaders) \in Nat /\ Left(emitted) \in Nat
           /\ Pass \in Nat /\ Stage \in Nat
<1>1. IsFiniteSet(Addr)
  BY NumWordsAssumption, FS_Interval DEF Addr
<1>2. IsFiniteSet(Addr \ roots) /\ IsFiniteSet(work) /\ IsFiniteSet(todo)
  BY <1>1, KeysFinite, FS_Subset DEF TypeOK
<1>3. Left(walked) \in Nat /\ Left(leaders) \in Nat /\ Left(emitted) \in Nat
  BY LeftShrinks DEF TypeOK
<1> QED
  BY <1>2, <1>3, FS_CardinalityType DEF Pass, Stage

LEMMA MeasureType == TypeOK => Measure \in Ranks
<1> SUFFICES ASSUME TypeOK
             PROVE  Measure \in Ranks
  OBVIOUS
<1> DEFINE c == Cardinality(Addr \ roots)
           b == IF rootsChanged THEN 1 ELSE 0
           w == Cardinality(work)
           t == Cardinality(todo)
<1>1. /\ Pass \in Nat /\ c \in Nat /\ b \in Nat /\ Left(walked) \in Nat
      /\ Left(leaders) \in Nat /\ w \in Nat /\ Stage \in Nat
      /\ Left(emitted) \in Nat /\ t \in Nat
  BY TypedSizes
<1>2. Measure = << Pass, c, b, Left(walked), Left(leaders), w, Stage, Left(emitted), t >>
  BY DEF Measure
<1> HIDE DEF c, b, w, t
<1> QED
  BY <1>1, <1>2 DEF Ranks, Places

\* The order written out.
LEMMA BeforeAt ==
    ASSUME NEW a1, NEW a2, NEW a3, NEW a4, NEW a5, NEW a6, NEW a7, NEW a8, NEW a9,
           NEW b1, NEW b2, NEW b3, NEW b4, NEW b5, NEW b6, NEW b7, NEW b8, NEW b9,
           \/ a1 < b1
           \/ a1 = b1 /\ a2 < b2
           \/ a1 = b1 /\ a2 = b2 /\ a3 < b3
           \/ a1 = b1 /\ a2 = b2 /\ a3 = b3 /\ a4 < b4
           \/ a1 = b1 /\ a2 = b2 /\ a3 = b3 /\ a4 = b4 /\ a5 < b5
           \/ a1 = b1 /\ a2 = b2 /\ a3 = b3 /\ a4 = b4 /\ a5 = b5 /\ a6 < b6
           \/ a1 = b1 /\ a2 = b2 /\ a3 = b3 /\ a4 = b4 /\ a5 = b5 /\ a6 = b6 /\ a7 < b7
           \/ /\ a1 = b1 /\ a2 = b2 /\ a3 = b3 /\ a4 = b4 /\ a5 = b5 /\ a6 = b6 /\ a7 = b7
              /\ a8 < b8
           \/ /\ a1 = b1 /\ a2 = b2 /\ a3 = b3 /\ a4 = b4 /\ a5 = b5 /\ a6 = b6 /\ a7 = b7
              /\ a8 = b8 /\ a9 < b9
    PROVE  Before(<< a1, a2, a3, a4, a5, a6, a7, a8, a9 >>,
                  << b1, b2, b3, b4, b5, b6, b7, b8, b9 >>)
<1> DEFINE m == << a1, a2, a3, a4, a5, a6, a7, a8, a9 >>
           n == << b1, b2, b3, b4, b5, b6, b7, b8, b9 >>
<1>1. /\ m[1] = a1 /\ m[2] = a2 /\ m[3] = a3 /\ m[4] = a4 /\ m[5] = a5 /\ m[6] = a6
      /\ m[7] = a7 /\ m[8] = a8 /\ m[9] = a9
  OBVIOUS
<1>2. /\ n[1] = b1 /\ n[2] = b2 /\ n[3] = b3 /\ n[4] = b4 /\ n[5] = b5 /\ n[6] = b6
      /\ n[7] = b7 /\ n[8] = b8 /\ n[9] = b9
  OBVIOUS
<1> HIDE DEF m, n
<1>3. PICK i \in Places :
         /\ m[i] < n[i]
         /\ i > 1 => m[1] = n[1]
         /\ i > 2 => m[2] = n[2]
         /\ i > 3 => m[3] = n[3]
         /\ i > 4 => m[4] = n[4]
         /\ i > 5 => m[5] = n[5]
         /\ i > 6 => m[6] = n[6]
         /\ i > 7 => m[7] = n[7]
         /\ i > 8 => m[8] = n[8]
  <2>1. /\ 1 \in Places /\ 2 \in Places /\ 3 \in Places /\ 4 \in Places /\ 5 \in Places
        /\ 6 \in Places /\ 7 \in Places /\ 8 \in Places /\ 9 \in Places
    BY DEF Places
  <2> QED
    BY <1>1, <1>2, <2>1
<1>4. \A j \in 1 .. i - 1 : m[j] = n[j]
  BY <1>3 DEF Places
<1>5. Before(m, n)
  BY <1>3, <1>4 DEF Before
<1> QED
  BY <1>5 DEF m, n

LEMMA StepDescends ==
    ASSUME WalkInv, EmitInv, Next
    PROVE  Before(Measure', Measure) \/ UNCHANGED vars
<1> DEFINE c == Cardinality(Addr \ roots)
           b == IF rootsChanged THEN 1 ELSE 0
           w == Cardinality(work)
           t == Cardinality(todo)
           Falls ==
              \/ Pass' < Pass
              \/ Pass' = Pass /\ c' < c
              \/ Pass' = Pass /\ c' = c /\ b' < b
              \/ Pass' = Pass /\ c' = c /\ b' = b /\ Left(walked') < Left(walked)
              \/ /\ Pass' = Pass /\ c' = c /\ b' = b /\ walked' = walked
                 /\ Left(leaders') < Left(leaders)
              \/ /\ Pass' = Pass /\ c' = c /\ b' = b /\ walked' = walked /\ leaders' = leaders
                 /\ w' < w
              \/ /\ Pass' = Pass /\ c' = c /\ b' = b /\ walked' = walked /\ leaders' = leaders
                 /\ w' = w /\ Stage' < Stage
              \/ /\ Pass' = Pass /\ c' = c /\ b' = b /\ walked' = walked /\ leaders' = leaders
                 /\ w' = w /\ Stage' = Stage /\ Left(emitted') < Left(emitted)
              \/ /\ Pass' = Pass /\ c' = c /\ b' = b /\ walked' = walked /\ leaders' = leaders
                 /\ w' = w /\ Stage' = Stage /\ emitted' = emitted /\ t' < t
<1>1. Falls => Before(Measure', Measure)
  <2>1. /\ Measure = << Pass, c, b, Left(walked), Left(leaders), w, Stage, Left(emitted), t >>
        /\ Measure' = << Pass', c', b', Left(walked'), Left(leaders'), w', Stage',
                         Left(emitted'), t' >>
    BY DEF Measure, Left
  <2> SUFFICES ASSUME Falls
               PROVE  Before(<< Pass', c', b', Left(walked'), Left(leaders'), w', Stage',
                                Left(emitted'), t' >>,
                             << Pass, c, b, Left(walked), Left(leaders), w, Stage,
                                Left(emitted), t >>)
    BY <2>1
  <2> HIDE DEF c, b, w, t
  <2> QED
    BY BeforeAt
<1>a. /\ TypeOK /\ TypeOK' /\ WalkInv'
      /\ work \subseteq leaders /\ roots \subseteq Addr /\ roots' \subseteq Addr
      /\ leaders \in SUBSET Keys /\ leaders' \in SUBSET Keys
      /\ walked \in SUBSET Keys /\ walked' \in SUBSET Keys
      /\ emitted \in SUBSET Keys /\ emitted' \in SUBSET Keys
      /\ at \in Keys
  BY WalkStep DEF WalkInv, LeadersPending, TypeOK
<1>b. /\ IsFiniteSet(Addr \ roots) /\ IsFiniteSet(work) /\ IsFiniteSet(todo)
      /\ c \in Nat /\ w \in Nat /\ t \in Nat
  BY <1>a, TypedSizes
<1>c. walked \subseteq walked' /\ walked # walked' => Left(walked') < Left(walked)
  BY <1>a, LeftShrinks
<1>d. leaders \subseteq leaders' /\ leaders # leaders' => Left(leaders') < Left(leaders)
  BY <1>a, LeftShrinks
<1>e. emitted \subseteq emitted' /\ emitted # emitted' => Left(emitted') < Left(emitted)
  BY <1>a, LeftShrinks
<1>2. CASE SeedRoots
  <2>1. /\ phase = "seed" /\ phase' = "pop" /\ rootsChanged' = FALSE /\ roots' = roots
        /\ walked' = walked /\ leaders \subseteq leaders' /\ c' = c
        /\ leaders' = leaders => work' = work
    BY <1>2 DEF SeedRoots
  <2>2. Pass' = 3 /\ Pass = 3
    BY <2>1 DEF Pass
  <2>3. CASE rootsChanged
    <3>1. b = 1 /\ b' = 0
      BY <2>1, <2>3
    <3> QED
      BY <1>1, <2>1, <2>2, <3>1
  <2>4. CASE ~rootsChanged
    <3>1. b = 0 /\ b' = 0 /\ Stage = 3 /\ Stage' = 2
      BY <2>1, <2>4 DEF Stage
    <3>2. CASE leaders' = leaders
      <4>1. w' = w
        BY <2>1, <3>2
      <4> QED
        BY <1>1, <2>1, <2>2, <3>1, <3>2, <4>1
    <3>3. CASE leaders' # leaders
      BY <1>1, <1>d, <2>1, <2>2, <3>1, <3>3
    <3> QED
      BY <3>2, <3>3
  <2> QED
    BY <2>3, <2>4
<1>3. CASE PopWork
  <2>1. PICK k \in work : at' = k /\ work' = work \ {k}
    BY <1>3 DEF PopWork
  <2>2. /\ roots' = roots /\ rootsChanged' = rootsChanged /\ walked' = walked
        /\ leaders' = leaders /\ c' = c /\ b' = b
        /\ phase = "pop" /\ phase' = "scan"
    BY <1>3 DEF PopWork
  <2>3. Pass' = Pass
    BY <2>2 DEF Pass
  <2>4. w' < w
    <3>1. w' = w - 1
      BY <1>b, <2>1, FS_RemoveElement
    <3> HIDE DEF w
    <3> QED
      BY <1>b, <3>1
  <2> QED
    BY <1>1, <2>2, <2>3, <2>4
<1>4. CASE Reseed
  <2>1. /\ roots' = roots /\ rootsChanged' = rootsChanged /\ walked' = walked
        /\ leaders' = leaders /\ work' = work /\ rootsChanged
        /\ phase = "pop" /\ phase' = "seed" /\ c' = c /\ b' = b /\ w' = w
    BY <1>4 DEF Reseed, walkVars
  <2>2. Pass' = Pass /\ Stage' = 1 /\ Stage = 2
    BY <2>1 DEF Pass, Stage
  <2> QED
    BY <1>1, <2>1, <2>2
<1>5. CASE ScanJoin
  <2>1. /\ roots' = roots /\ rootsChanged' = rootsChanged /\ walked' = walked
        /\ leaders \subseteq leaders' /\ work' = work
        /\ phase = "scan" /\ phase' = "pop" /\ c' = c /\ b' = b /\ w' = w
    BY <1>5 DEF ScanJoin
  <2>2. Pass' = Pass /\ Stage' = 2 /\ Stage = 4
    BY <2>1 DEF Pass, Stage
  <2> QED
    BY <1>1, <1>d, <2>1, <2>2
<1>6. CASE ScanStop \/ ScanPlain
  <2>1. /\ roots' = roots /\ rootsChanged' = rootsChanged /\ at \notin walked
        /\ walked' = walked \cup {at} /\ c' = c /\ b' = b
        /\ phase = "scan" /\ phase' \in {"pop", "scan"}
    BY <1>6 DEF ScanStop, ScanPlain
  <2>2. Pass' = Pass
    BY <2>1 DEF Pass
  <2>3. Left(walked') < Left(walked)
    BY <1>c, <2>1
  <2> QED
    BY <1>1, <2>1, <2>2, <2>3
<1>7. CASE ScanControl
  <2>1. phase' # "threw"
    BY <1>a DEF WalkInv
  <2>2. /\ phase = "scan" /\ at \notin walked /\ walked' = walked \cup {at}
        /\ roots' = roots \cup LinkRoots(at[1]) /\ rootsChanged' = AnotherRound(at[1])
        /\ phase' = "pop"
    BY <1>7, <2>1 DEF ScanControl
  <2>3. Pass' = Pass
    BY <2>2 DEF Pass
  <2>4. Left(walked') < Left(walked)
    BY <1>c, <2>2
  <2>5. CASE roots' = roots
    <3>1. rootsChanged' = rootsChanged
      BY <2>2, <2>5, <1>a DEF AnotherRound, TypeOK
    <3>2. c' = c /\ b' = b
      BY <2>5, <3>1
    <3> QED
      BY <1>1, <2>3, <2>4, <3>2
  <2>6. CASE roots' # roots
    <3>1. /\ Addr \ roots' \in SUBSET (Addr \ roots)
          /\ Addr \ roots' # Addr \ roots
      BY <1>a, <2>2, <2>6
    <3>2. c' <= c /\ c' # c
      BY <1>b, <3>1, FS_Subset
    <3>3. c' \in Nat
      BY <1>b, <3>1, FS_Subset, FS_CardinalityType
    <3>4. c' < c
      <4> HIDE DEF c
      <4> QED
        BY <1>b, <3>2, <3>3
    <3> QED
      BY <1>1, <2>3, <3>4
  <2> QED
    BY <2>5, <2>6
<1>8. CASE PruneRoots
  <2>1. Pass = 3 /\ Pass' = 2
    BY <1>8 DEF PruneRoots, Pass
  <2> QED
    BY <1>1, <2>1
<1>9. CASE EmitEntry
  <2>1. Pass = 2 /\ Pass' = 1
    BY <1>9 DEF EmitEntry, Pass
  <2> QED
    BY <1>1, <2>1
<1>10. CASE Verify
  <2>1. Pass = 1 /\ Pass' = 0
    BY <1>10 DEF Verify, Pass
  <2> QED
    BY <1>1, <2>1
<1>11. CASE EmitLeader
  <2>1. PICK k \in todo : todo' = todo \ {k}
    BY <1>11 DEF EmitLeader
  <2>2. /\ roots' = roots /\ rootsChanged' = rootsChanged /\ walked' = walked
        /\ leaders' = leaders /\ work' = work /\ emitted' = emitted
        /\ c' = c /\ b' = b /\ w' = w
        /\ phase = "emit" /\ phase' = "block"
    BY <1>11 DEF EmitLeader, walkVars
  <2>3. Pass' = Pass /\ Stage' = Stage
    BY <2>2 DEF Pass, Stage
  <2>4. t' < t
    <3>1. t' = t - 1
      BY <1>b, <2>1, FS_RemoveElement
    <3> HIDE DEF t
    <3> QED
      BY <1>b, <3>1
  <2> QED
    BY <1>1, <2>2, <2>3, <2>4
<1>12. CASE EmitExit \/ EmitPlain \/ EmitControl
  <2>1. phase' # "threw"
    BY <1>a DEF WalkInv
  <2>2. /\ roots' = roots /\ rootsChanged' = rootsChanged /\ walked' = walked
        /\ leaders' = leaders /\ work' = work /\ emitted' = emitted \cup {at}
        /\ c' = c /\ b' = b /\ w' = w
        /\ phase = "block" /\ phase' \in {"emit", "block"}
    BY <1>12, <2>1 DEF EmitExit, EmitPlain, EmitControl, walkVars
  <2>3. at \notin emitted
    BY <2>2 DEF EmitInv, EmittedSoFar
  <2>4. Pass' = Pass /\ Stage' = Stage
    BY <2>2 DEF Pass, Stage
  <2>5. Left(emitted') < Left(emitted)
    BY <1>e, <2>2, <2>3
  <2> QED
    BY <1>1, <2>2, <2>4, <2>5
<1>13. CASE Finished
  BY <1>13 DEF Finished
<1> QED
  BY <1>2, <1>3, <1>4, <1>5, <1>6, <1>7, <1>8, <1>9, <1>10, <1>11, <1>12, <1>13 DEF Next

\* Every step of compile that changes anything brings it nearer its end, by a measure
\* with no endless descent (NoEndlessDescent): recursion in the microcode, return sites
\* that make new roots and code that wraps round the end of IMEM included, for every
\* image, root set and call depth.
THEOREM WalkDescends ==
    Spec => [](Measure \in Ranks) /\ [][Before(Measure', Measure)]_vars
<1>1. WalkInv => Measure \in Ranks
  BY MeasureType DEF WalkInv
<1>2. WalkInv /\ EmitInv /\ [Next]_vars => [Before(Measure', Measure)]_vars
  BY StepDescends
<1> QED
  BY <1>1, <1>2, EmitInvariant, WalkInvariant, PTL DEF Spec

=============================================================================
