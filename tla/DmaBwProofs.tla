----------------------------- MODULE DmaBwProofs -----------------------------
(***************************************************************************)
(* Machine-checked proofs about DmaBw, for every number of microengines    *)
(* and contexts, every transaction count and every set of parameters.      *)
(***************************************************************************)
EXTENDS DmaBwReuseInv, TLAPS

\* What a worker is, as the provers need it.
LEMMA WorkerFacts ==
    ASSUME NEW w \in Workers
    PROVE  /\ w = <<w[1], w[2]>> /\ w[1] \in MEs /\ w[2] \in 0 .. NumCtx-1
           /\ w \in Signalled /\ w # Master
           /\ w[2] = 0 => w[1] # 0
BY DmaBwAssumption DEF Workers, MEs, Signalled, Master

\* The context that is signalled exists or is the one after the last ME.
LEMMA FollowerFacts ==
    /\ Follower(Master) = <<0, 1>> /\ Follower(Master) \in Workers
    /\ \A w \in Workers : Follower(w) \in Signalled \ {Master}
    /\ \A w \in Workers : Follower(w) # w /\ Follower(w) # Follower(Master)
    /\ \A v, w \in Workers : Follower(v) = Follower(w) => v = w
<1> USE DmaBwAssumption
<1>1. Follower(Master) = <<0, 1>> /\ Follower(Master) \in Workers
  BY DEF Follower, Master, Workers, MEs
<1>2. \A w \in Workers : Follower(w) \in Signalled \ {Master}
  BY DEF Follower, Workers, MEs, Master, Signalled, Beyond
<1>3. \A w \in Workers : Follower(w) # w /\ Follower(w) # Follower(Master)
  BY DEF Follower, Workers, MEs, Master
<1>4. \A v, w \in Workers : Follower(v) = Follower(w) => v = w
  BY DEF Follower, Workers, MEs, Master
<1>5. QED BY <1>1, <1>2, <1>3, <1>4

\* The numbers a test may arm.
LEMMA MaxTransFacts ==
    /\ TransMax \in Nat \ {0}
    /\ \A p \in Params \cup {NoParams} : MaxTrans(p) \in 1 .. TransMax
BY DmaBwAssumption DEF TransMax, Max2, MaxTrans, ParamBlock, NoParams

\* Every parameter block a host may write, and the empty one, is of 32-bit words.
LEMMA ParamsFacts ==
    /\ 0 \in 0 .. Word-1
    /\ \A p \in Params \cup {NoParams} :
          /\ p.sz \in 0 .. Word-1 /\ p.doff \in 0 .. Word-1
          /\ p.win \in 0 .. Word-1 /\ p.hoff \in 0 .. Word-1
BY DmaBwAssumption DEF ParamBlock, NoParams

-----------------------------------------------------------------------------
(* Type correctness.                                                       *)

\* The freshly loaded firmware and an idle host have the right types.
LEMMA TypeInit == Init => TypeOK
BY DmaBwAssumption, MaxTransFacts, ParamsFacts
   DEF Init, FirmwareInit, TypeOK, GprBlock, NoGpr, Results, BW_DMA_RW

\* A worker's own variables fit its place in the tests of one load, too.
LEMMA LocalFits == IInv => TypeOK /\ Fits
BY DEF IInv, Local, Fits

\* Fits is needed where a DMA is issued: the template has been set up.
LEMMA TypeStep == TypeOK /\ Fits /\ [NextReuse]_vars => TypeOK'
<1> SUFFICES ASSUME TypeOK, Fits, [NextReuse]_vars PROVE TypeOK'
  OBVIOUS
<1> USE DmaBwAssumption, MaxTransFacts, ParamsFacts
<1>1. ASSUME HReload PROVE TypeOK'
  BY <1>1 DEF HReload, TypeOK, GprBlock, NoGpr, Results, BW_DMA_RW
<1>2. ASSUME NEW t \in BwTests, NEW p \in Params, HSetParams(t, p) PROVE TypeOK'
  BY <1>2 DEF HSetParams, TypeOK, masterVars, workerVars
<1>3. ASSUME HSetCtrl PROVE TypeOK'
  BY <1>3 DEF HSetCtrl, TypeOK, masterVars, workerVars
<1>4. ASSUME HFinish PROVE TypeOK'
  BY <1>4 DEF HFinish, TypeOK, mailVars, masterVars, workerVars, BwTests,
              BW_DMA_RD, BW_DMA_WR, BW_DMA_RW
<1>5. ASSUME MPoll PROVE TypeOK'
  BY <1>5 DEF MPoll, TypeOK, hostVars, mailVars, workerVars
<1>6. ASSUME MSwitch PROVE TypeOK'
  <2>1. /\ test_ctrl \in -1 .. BW_DMA_RW
        /\ params.sz \in 0 .. Word-1 /\ params.doff \in 0 .. Word-1
    BY DEF TypeOK, BwTests, BW_DMA_RD, BW_DMA_WR, BW_DMA_RW
  <2>2. [test |-> test_ctrl, sz |-> params.sz, doff |-> params.doff] \in GprBlock
    BY <2>1 DEF GprBlock
  <2>3. 0 \in MEs
    BY DEF MEs
  <2>4. QED
    BY <1>6, <2>2, <2>3 DEF MSwitch, TypeOK, hostVars, mailVars, workerVars
<1>7. ASSUME MAddrs PROVE TypeOK'
  BY <1>7 DEF MAddrs, TypeOK, hostVars, mailVars, workerVars
<1>8. ASSUME MArm PROVE TypeOK'
  BY <1>8 DEF MArm, TypeOK, hostVars, mailVars, workerVars
<1>9. ASSUME MKick PROVE TypeOK'
  <2>1. Follower(Master) \in Signalled
    BY FollowerFacts DEF Signalled
  <2>2. QED
    BY <1>9, <2>1 DEF MKick, TypeOK, hostVars, mailVars, workerVars
<1>10. ASSUME MWake PROVE TypeOK'
  <2>1. MaxTrans(params) \in Results
    BY DEF TypeOK, Results
  <2>2. Master \in Signalled
    BY DEF Signalled
  <2>3. QED
    BY <1>10, <2>1, <2>2 DEF MWake, TypeOK, hostVars, mailVars, workerVars
<1>11. ASSUME MResult PROVE TypeOK'
  BY <1>11 DEF MResult, TypeOK, hostVars, workerVars
<1>12. ASSUME MCtrl PROVE TypeOK'
  BY <1>12 DEF MCtrl, TypeOK, hostVars, workerVars
<1>13. ASSUME NEW w \in Workers, WStep(w) \/ DmaComplete(w) PROVE TypeOK'
  <2> USE WorkerFacts
  <2>1. CASE WStart(w)
    BY <2>1 DEF WStart, EntryPoint, TypeOK, hostVars, mailVars, masterVars
  <2>2. CASE WGetCtrl(w)
    BY <2>2 DEF WGetCtrl, TypeOK, hostVars, mailVars, masterVars, GprBlock, BwTests,
                BW_DMA_RD, BW_DMA_WR, BW_DMA_RW
  <2>3. CASE WGetParams(w)
    <3> DEFINE g == [gpr[w[1]] EXCEPT !.sz = test_params.sz, !.doff = test_params.doff]
    <3>1. g \in GprBlock
      <4>1. gpr[w[1]] \in GprBlock
        BY DEF TypeOK
      <4>2. test_params.sz \in 0 .. Word-1 /\ test_params.doff \in 0 .. Word-1
        BY DEF TypeOK
      <4>3. QED BY <4>1, <4>2 DEF GprBlock
    <3>2. gpr' = [gpr EXCEPT ![w[1]] = g]
      BY <2>3 DEF WGetParams, TypeOK
    <3> HIDE DEF g
    <3>3. pc' = [pc EXCEPT ![w] = "ping"]
      BY <2>3 DEF WGetParams
    <3>4. QED
      BY <2>3, <3>1, <3>2, <3>3 DEF WGetParams, TypeOK, hostVars, mailVars, masterVars
  <2>4. CASE WPing(w)
    BY <2>4, FollowerFacts DEF WPing, TypeOK, hostVars, mailVars, masterVars
  <2>5. CASE WSetup(w)
    BY <2>5 DEF WSetup, TypeOK, hostVars, mailVars, masterVars, GprBlock, CmdBlock
  <2>6. CASE WTake(w)
    BY <2>6 DEF WTake, TestSub, Max2, TypeOK, hostVars, mailVars, masterVars
  <2>7. CASE WEnq(w)
    <3> DEFINE d == Descriptor(trans[w], gpr[w[1]].test, cmd[w], dma_addrs)
    <3>1. cmd[w].sz \in 0 .. Word-1 /\ cmd[w].doff \in 0 .. Word-1
      BY <2>7 DEF WEnq, Fits, TypeOK, CmdBlock
    <3>2. trans[w] \in 0 .. TransMax /\ dma_addrs \in Params \cup {NoParams}
      BY DEF TypeOK
    <3>3. d \in DmaBlock
      BY <3>1, <3>2 DEF Descriptor, Direction, DmaBlock
    <3> HIDE DEF d
    <3>4. pc' = [pc EXCEPT ![w] = "dma"] /\ dma' = [dma EXCEPT ![w] = d]
      BY <2>7 DEF WEnq, d
    <3>5. QED
      BY <2>7, <3>3, <3>4 DEF WEnq, TypeOK, hostVars, mailVars, masterVars
  <2>8. CASE DmaComplete(w)
    BY <2>8 DEF DmaComplete, TypeOK, hostVars, mailVars, masterVars, workerVars
  <2>9. CASE WRetire(w)
    BY <2>9 DEF WRetire, TypeOK, hostVars, mailVars, masterVars, Signalled
  <2>10. QED
    BY <1>13, <2>1, <2>2, <2>3, <2>4, <2>5, <2>6, <2>7, <2>8, <2>9 DEF WStep
<1>14. CASE UNCHANGED vars
  BY <1>14 DEF vars, TypeOK, hostVars, mailVars, masterVars, workerVars
<1>15. ASSUME HReloadFails PROVE TypeOK'
  BY <1>15 DEF HReloadFails, TypeOK, mailVars, masterVars, workerVars
<1>16. QED
  BY <1>1, <1>2, <1>3, <1>4, <1>5, <1>6, <1>7, <1>8, <1>9, <1>10, <1>11, <1>12,
     <1>13, <1>14, <1>15 DEF NextReuse, Next, Host, MStep

-----------------------------------------------------------------------------
(* The steps that leave the workers alone, and the shape of Next.          *)

QuietStep == UNCHANGED <<sig, pc, trans, cmd, dma, result>>
             /\ (mpc' = "wait" <=> mpc = "wait")

\* A step is one of the actions, spelled out for case distinctions.
LEMMA StepCases ==
    ASSUME [Next]_vars
    PROVE  \/ HReload
           \/ \E t \in BwTests, p \in Params : HSetParams(t, p)
           \/ HSetCtrl \/ HFinish \/ MPoll \/ MSwitch \/ MAddrs \/ MArm
           \/ MKick \/ MWake \/ MResult \/ MCtrl
           \/ \E w \in Workers : WStep(w) \/ DmaComplete(w)
           \/ UNCHANGED vars
BY DEF Next, Host, MStep

\* All but these actions leave the workers, the signals and the DMAs alone.
LEMMA QuietCases ==
    ASSUME [Next]_vars
    PROVE  \/ HReload
           \/ QuietStep
           \/ MKick \/ MWake
           \/ \E w \in Workers : WStep(w) \/ DmaComplete(w)
<1>1. ASSUME NEW t \in BwTests, NEW p \in Params, HSetParams(t, p) PROVE QuietStep
  BY <1>1 DEF HSetParams, QuietStep, masterVars, workerVars
<1>2. ASSUME HSetCtrl \/ HFinish \/ MPoll \/ MSwitch \/ MAddrs \/ MArm
             \/ MResult \/ MCtrl \/ UNCHANGED vars
      PROVE  QuietStep
  BY <1>2 DEF HSetCtrl, HFinish, MPoll, MSwitch, MAddrs, MArm, MResult, MCtrl,
              vars, QuietStep, masterVars, workerVars
<1>3. QED BY <1>1, <1>2, StepCases

-----------------------------------------------------------------------------
(* Local is preserved.                                                     *)

\* Freshly loaded, every worker waits with nothing set up.
LEMMA LocalInit == Init => Local
BY WorkerFacts DEF Init, FirmwareInit, Local

\* No step makes a worker's own variables contradict each other: dma_bw_worker
\* sets its template up before it takes an index, and issues a DMA only for it.
LEMMA LocalStep == IInv /\ [Next]_vars => Local'
<1> SUFFICES ASSUME IInv, [Next]_vars PROVE Local'
  OBVIOUS
<1> USE WorkerFacts
<1>1. CASE HReload
  BY <1>1 DEF HReload, Local
<1>2. CASE QuietStep
  BY <1>2 DEF IInv, Local, QuietStep
<1>3. CASE MKick
  <2>1. Follower(Master) \in Workers /\ ~Reached(Follower(Master))
    BY <1>3, FollowerFacts DEF MKick, IInv, Mail, Chain, Kicked
  <2>2. QED
    BY <1>3, <2>1 DEF MKick, IInv, TypeOK, Local, Reached, Started, workerVars
<1>4. CASE MWake
  BY <1>4 DEF MWake, IInv, TypeOK, Local, workerVars
<1>5. ASSUME NEW w \in Workers, WStep(w) \/ DmaComplete(w) PROVE Local'
  <2>1. CASE WStart(w)
    BY <2>1 DEF WStart, EntryPoint, IInv, TypeOK, Local
  <2>2. CASE WGetCtrl(w)
    BY <2>2 DEF WGetCtrl, IInv, TypeOK, Local
  <2>3. CASE WGetParams(w)
    BY <2>3 DEF WGetParams, IInv, TypeOK, Local
  <2>4. CASE WPing(w)
    <3>1. Follower(w) \in Workers => ~Reached(Follower(w))
      BY <2>4 DEF WPing, IInv, Local, Chain, Passed
    <3>2. Follower(w) \in Signalled /\ Follower(w) # w
      BY FollowerFacts
    <3>3. QED
      BY <2>4, <3>1, <3>2 DEF WPing, IInv, TypeOK, Local, Reached, Started
  <2>5. CASE WSetup(w)
    <3>1. [sz |-> gpr[w[1]].sz, doff |-> gpr[w[1]].doff] # NoCmd
      BY DmaBwAssumption DEF IInv, TypeOK, GprBlock, NoCmd
    <3>2. QED
      BY <2>5, <3>1 DEF WSetup, IInv, TypeOK, Local
  <2>6. CASE WTake(w)
    BY <2>6 DEF WTake, IInv, TypeOK, Local
  <2>7. CASE WEnq(w)
    BY <2>7 DEF WEnq, Descriptor, IInv, TypeOK, Local
  <2>8. CASE DmaComplete(w)
    BY <2>8 DEF DmaComplete, IInv, TypeOK, Local, workerVars
  <2>9. CASE WRetire(w)
    BY <2>9 DEF WRetire, StopsAfter, IInv, TypeOK, Local
  <2>10. QED
    BY <1>5, <2>1, <2>2, <2>3, <2>4, <2>5, <2>6, <2>7, <2>8, <2>9 DEF WStep
<1>6. QED BY <1>1, <1>2, <1>3, <1>4, <1>5, QuietCases

-----------------------------------------------------------------------------
(* Chain is preserved.                                                     *)

\* Freshly loaded, no worker has been reached.
LEMMA ChainInit == Init => Chain
BY WorkerFacts DEF Init, FirmwareInit, Chain, Reached, Started, Passed

\* No step reaches a worker out of order: each is started by its predecessor,
\* and other contexts of an ME only after its context 0 has copied the test.
LEMMA ChainStep == IInv /\ [Next]_vars => Chain'
<1> SUFFICES ASSUME IInv, [Next]_vars PROVE Chain'
  OBVIOUS
<1> USE WorkerFacts
<1>1. CASE HReload
  BY <1>1 DEF HReload, Chain, Reached, Started, Passed
<1>2. CASE QuietStep
  BY <1>2 DEF QuietStep, IInv, Chain, Reached, Started, Passed, Kicked
<1>3. CASE MKick
  BY <1>3, FollowerFacts
     DEF MKick, IInv, TypeOK, Mail, Chain, Reached, Started, Passed, Kicked, workerVars
<1>4. CASE MWake
  <2>1. Kicked'
    BY <1>4, MaxTransFacts DEF MWake, IInv, TypeOK, Kicked, Garbage
  <2>2. QED
    BY <1>4, <2>1 DEF MWake, IInv, TypeOK, Chain, Reached, Started, Passed, workerVars
<1>5. ASSUME NEW w \in Workers, WStep(w) \/ DmaComplete(w) PROVE Chain'
  <2> Kicked' = Kicked
    BY <1>5 DEF WStep, WStart, WGetCtrl, WGetParams, WPing, WSetup, WTake, WEnq, WRetire,
                DmaComplete, masterVars, Kicked
  <2>0. ASSUME \A v \in Workers : /\ Reached(v)' => Reached(v)
                                  /\ Passed(v) => Passed(v)'
        PROVE  Chain'
    <3>1. \A v \in Workers : v[2] # 0 /\ v[1] # 0 => <<v[1], 0>> \in Workers
      BY DmaBwAssumption DEF Workers, Master, MEs
    <3>2. QED BY <2>0, <3>1 DEF IInv, Chain
  <2>1. CASE WStart(w)
    BY <2>1 DEF WStart, EntryPoint, IInv, TypeOK, Local, Chain, Reached, Started, Passed
  <2>2. CASE WGetCtrl(w)
    BY <2>2 DEF WGetCtrl, IInv, TypeOK, Local, Chain, Reached, Started, Passed
  <2>3. CASE WGetParams(w)
    BY <2>3 DEF WGetParams, IInv, TypeOK, Local, Chain, Reached, Started, Passed
  <2>4. CASE WPing(w)
    <3> DEFINE f == Follower(w)
    <3>1. f \in Signalled /\ f # w /\ \A v \in Workers : Follower(v) = f => v = w
      BY FollowerFacts
    <3>2. /\ pc' = [pc EXCEPT ![w] = "setup"] /\ cmd' = cmd
          /\ \A v \in Workers : sig'[v] => sig[v] \/ v = f
      BY <2>4, <3>1 DEF WPing, IInv, TypeOK
    <3>3. Reached(w) /\ Passed(w)'
      BY <2>4, <3>2 DEF WPing, IInv, TypeOK, Reached, Started, Passed
    <3>4. f \in Workers /\ f[2] # 0 => f[1] = w[1] /\ (w[2] = 0 => w = <<f[1], 0>>)
      BY DmaBwAssumption DEF Follower, Workers, MEs
    <3> HIDE DEF f
    <3>5. \A v \in Workers : /\ Reached(v)' => Reached(v) \/ v = f
                             /\ Passed(v) => Passed(v)'
      BY <3>2, <2>4 DEF WPing, IInv, TypeOK, Reached, Started, Passed
    <3>6. (\A v \in Workers : Reached(v) => Kicked)'
      BY <3>3, <3>5 DEF IInv, Chain
    <3>7. \A v \in Workers : Follower(v) \in Workers /\ Reached(Follower(v))' => Passed(v)'
      BY <3>1, <3>3, <3>5 DEF IInv, Chain
    <3>8. \A v \in Workers : v[2] # 0 /\ v[1] # 0 /\ Reached(v)' => Passed(<<v[1], 0>>)'
      <4> SUFFICES ASSUME NEW v \in Workers, v[2] # 0, v[1] # 0, Reached(v)'
                   PROVE  Passed(<<v[1], 0>>)'
        OBVIOUS
      <4>1. <<v[1], 0>> \in Workers
        BY DmaBwAssumption DEF Workers, Master, MEs
      <4>2. CASE Reached(v)
        BY <4>1, <4>2, <3>5 DEF IInv, Chain
      <4>3. CASE v = f /\ w[2] = 0
        BY <4>3, <3>3, <3>4
      <4>4. CASE v = f /\ w[2] # 0
        BY <4>1, <4>4, <3>3, <3>4, <3>5 DEF IInv, Chain
      <4>5. QED BY <4>2, <4>3, <4>4, <3>5
    <3>9. QED BY <3>6, <3>7, <3>8 DEF Chain
  <2>5. CASE WSetup(w)
    <3>1. [sz |-> gpr[w[1]].sz, doff |-> gpr[w[1]].doff] # NoCmd
      BY DmaBwAssumption DEF IInv, TypeOK, GprBlock, NoCmd
    <3>2. QED
      BY <2>5, <3>1 DEF WSetup, IInv, TypeOK, Local, Chain, Reached, Started, Passed
  <2>6. CASE WTake(w)
    <3>1. \A v \in Workers : /\ Reached(v)' => Reached(v)
                             /\ Passed(v) => Passed(v)'
      BY <2>6 DEF WTake, IInv, TypeOK, Local, Reached, Started, Passed
    <3>2. QED BY <3>1, <2>0
  <2>7. CASE WEnq(w)
    BY <2>7 DEF WEnq, IInv, TypeOK, Local, Chain, Reached, Started, Passed
  <2>8. CASE DmaComplete(w)
    BY <2>8 DEF DmaComplete, IInv, Chain, Reached, Started, Passed, workerVars
  <2>9. CASE WRetire(w)
    <3>1. \A v \in Workers : /\ Reached(v)' => Reached(v)
                             /\ Passed(v) => Passed(v)'
      BY <2>9 DEF WRetire, IInv, TypeOK, Local, Reached, Started, Passed
    <3>2. QED BY <3>1, <2>0
  <2>10. QED
    BY <1>5, <2>1, <2>2, <2>3, <2>4, <2>5, <2>6, <2>7, <2>8, <2>9 DEF WStep
<1>6. QED BY <1>1, <1>2, <1>3, <1>4, <1>5, QuietCases

-----------------------------------------------------------------------------
(* Counter is preserved.                                                   *)

\* A worker that holds an index has been reached.
LEMMA HoldsReached == \A w \in Workers : Holds(w) => Reached(w)
BY DEF Holds, Reached, Started

\* Freshly loaded, no index is out and no signal is pending.
LEMMA CounterInit == Init => Counter
BY FollowerFacts DEF Init, FirmwareInit, Counter, Holds, Signalled

\* No step gives an index out twice or reports a test whose index 1 is still
\* out: cls_test_sub is atomic and saturates.
LEMMA CounterStep == IInv /\ [Next]_vars => Counter'
<1> SUFFICES ASSUME IInv, [Next]_vars PROVE Counter'
  OBVIOUS
<1> USE WorkerFacts
<1>1. CASE HReload
  BY <1>1 DEF HReload, Counter, Holds, Signalled
<1>2. CASE QuietStep /\ UNCHANGED num_dma_trans
  BY <1>2 DEF QuietStep, IInv, Counter, Holds
<1>3. CASE MArm
  <2>1. ~Kicked /\ result = Garbage /\ ~sig[Master]
    BY <1>3 DEF MArm, IInv, Mail, Counter, Kicked
  <2>2. \A w \in Workers : ~Holds(w)
    BY <2>1, HoldsReached DEF IInv, Chain
  <2>3. QED
    BY <1>3, <2>1, <2>2 DEF MArm, Counter, Holds, workerVars
<1>4. CASE MKick
  <2>1. ~sig[Master]' /\ result' = Garbage
    BY <1>4, FollowerFacts DEF MKick, IInv, TypeOK, Mail, Counter
  <2>2. QED
    BY <1>4, <2>1 DEF MKick, IInv, Counter, Holds, workerVars
<1>5. CASE MWake
  BY <1>5 DEF MWake, IInv, TypeOK, Counter, Holds, Signalled, workerVars
<1>6. ASSUME NEW w \in Workers, WStep(w) \/ DmaComplete(w) PROVE Counter'
  <2>1. CASE \/ WStart(w) \/ WGetCtrl(w) \/ WGetParams(w) \/ WPing(w) \/ WSetup(w)
             \/ WEnq(w) \/ DmaComplete(w)
    <3>1. UNCHANGED <<num_dma_trans, mpc, result, trans>>
      BY <2>1 DEF WStart, WGetCtrl, WGetParams, WPing, WSetup, WEnq, DmaComplete,
                  masterVars, workerVars
    <3>2. sig'[Master] = sig[Master]
      <4>1. CASE WStart(w)
        BY <4>1 DEF WStart, IInv, TypeOK, Signalled
      <4>2. CASE WPing(w)
        BY <4>2, FollowerFacts DEF WPing, IInv, TypeOK, Signalled
      <4>3. CASE WGetCtrl(w) \/ WGetParams(w) \/ WSetup(w) \/ WEnq(w) \/ DmaComplete(w)
        BY <4>3 DEF WGetCtrl, WGetParams, WSetup, WEnq, DmaComplete
      <4>4. QED BY <2>1, <4>1, <4>2, <4>3
    <3>3. \A v \in Workers : Holds(v)' <=> Holds(v)
      BY <2>1
         DEF WStart, EntryPoint, WGetCtrl, WGetParams, WPing, WSetup, WEnq, DmaComplete,
             workerVars, IInv, TypeOK, Holds
    <3>4. QED
      BY <3>1, <3>2, <3>3 DEF IInv, Counter
  <2>2. CASE WTake(w)
    <3>1. /\ num_dma_trans \in Nat /\ \A v \in Workers : trans[v] \in Nat
      BY MaxTransFacts DEF IInv, TypeOK
    <3>2. /\ num_dma_trans' = IF num_dma_trans = 0 THEN 0 ELSE num_dma_trans - 1
          /\ trans' = [trans EXCEPT ![w] = num_dma_trans]
          /\ pc' = [pc EXCEPT ![w] = "enq"]
          /\ UNCHANGED <<sig, mpc, result>>
      BY <2>2, <3>1 DEF WTake, TestSub, Max2, masterVars
    <3>3. \A v \in Workers \ {w} : Holds(v)' <=> Holds(v)
      BY <3>2 DEF Holds, IInv, TypeOK
    <3>4. Holds(w)' => num_dma_trans >= 1 /\ trans'[w] = num_dma_trans
      BY <3>2 DEF Holds, IInv, TypeOK
    <3>5. \A v \in Workers \ {w} : trans'[v] = trans[v]
      BY <3>2 DEF IInv, TypeOK
    <3>6. QED
      BY <3>1, <3>2, <3>3, <3>4, <3>5 DEF IInv, Counter
  <2>3. CASE WRetire(w)
    <3>1. /\ pc' = [pc EXCEPT ![w] = IF trans[w] <= 1 THEN "wait" ELSE "take"]
          /\ UNCHANGED <<num_dma_trans, mpc, result, trans>>
          /\ pc[w] = "dma"
      BY <2>3 DEF WRetire, StopsAfter, masterVars
    <3>2. ~Holds(w)' /\ \A v \in Workers \ {w} : Holds(v)' <=> Holds(v)
      BY <3>1 DEF Holds, IInv, TypeOK
    <3>3. CASE trans[w] = 1
      <4>1. Holds(w) /\ num_dma_trans = 0
        BY <3>1, <3>3, MaxTransFacts DEF Holds, IInv, TypeOK, Counter
      <4>2. mpc = "wait"
        BY <3>3, <4>1, HoldsReached DEF IInv, Chain, Counter, Kicked
      <4>3. \A v \in Workers \ {w} : Holds(v) => trans[v] # 1
        BY <3>3, <4>1 DEF IInv, Counter
      <4>4. QED
        BY <3>1, <3>2, <4>1, <4>2, <4>3 DEF IInv, Counter
    <3>4. CASE trans[w] # 1
      <4>1. sig' = sig
        BY <2>3, <3>4 DEF WRetire, TellsMaster
      <4>2. QED
        BY <3>1, <3>2, <4>1 DEF IInv, Counter
    <3>5. QED BY <3>3, <3>4
  <2>4. QED
    BY <1>6, <2>1, <2>2, <2>3 DEF WStep
<1>7. num_dma_trans' = num_dma_trans \/ HReload \/ MArm
         \/ \E w \in Workers : WStep(w) \/ DmaComplete(w)
  BY StepCases
     DEF HSetParams, HSetCtrl, HFinish, MPoll, MSwitch, MAddrs, MKick, MWake, MResult,
         MCtrl, vars
<1>8. QED BY <1>1, <1>2, <1>3, <1>4, <1>5, <1>6, <1>7, QuietCases

-----------------------------------------------------------------------------
(* What the two copying steps of a worker ME's context 0 do to registers.  *)

\* Copying the test number changes that register of the worker's own ME only,
\* and never those of the master's ME.
LEMMA GetCtrlRegs ==
    ASSUME TypeOK, Fits, NEW w \in Workers, WGetCtrl(w)
    PROVE  /\ w[1] \in MEs \ {0}
           /\ \A m \in MEs \ {w[1]} : gpr'[m] = gpr[m]
           /\ gpr'[w[1]].test = test_ctrl
           /\ gpr'[w[1]].sz = gpr[w[1]].sz /\ gpr'[w[1]].doff = gpr[w[1]].doff
<1> DEFINE g == [gpr[w[1]] EXCEPT !.test = test_ctrl]
<1>1. w[1] \in MEs \ {0}
  BY WorkerFacts DEF WGetCtrl, Fits
<1>2. gpr' = [gpr EXCEPT ![w[1]] = g]
  BY DEF WGetCtrl
<1>3. g.test = test_ctrl /\ g.sz = gpr[w[1]].sz /\ g.doff = gpr[w[1]].doff
  BY <1>1 DEF TypeOK, GprBlock
<1> HIDE DEF g
<1>4. QED BY <1>1, <1>2, <1>3 DEF TypeOK

\* The same for size and card offset.
LEMMA GetParamsRegs ==
    ASSUME TypeOK, Fits, NEW w \in Workers, WGetParams(w)
    PROVE  /\ w[1] \in MEs \ {0}
           /\ \A m \in MEs \ {w[1]} : gpr'[m] = gpr[m]
           /\ gpr'[w[1]].test = gpr[w[1]].test
           /\ gpr'[w[1]].sz = test_params.sz /\ gpr'[w[1]].doff = test_params.doff
<1> DEFINE h == [gpr[w[1]] EXCEPT !.sz = test_params.sz]
           g == [h EXCEPT !.doff = test_params.doff]
<1>1. w[1] \in MEs \ {0}
  BY WorkerFacts DEF WGetParams, Fits
<1>2. gpr' = [gpr EXCEPT ![w[1]] = g]
  <2>1. [gpr EXCEPT ![w[1]] = h][w[1]] = h
    BY <1>1 DEF TypeOK
  <2>2. gpr' = [[gpr EXCEPT ![w[1]] = h] EXCEPT ![w[1]].doff = test_params.doff]
    BY DEF WGetParams
  <2>3. gpr' = [[gpr EXCEPT ![w[1]] = h] EXCEPT ![w[1]] = g]
    BY <2>1, <2>2
  <2> HIDE DEF h, g
  <2>4. QED BY <1>1, <2>3 DEF TypeOK
<1>3. g.test = gpr[w[1]].test /\ g.sz = test_params.sz /\ g.doff = test_params.doff
  BY <1>1 DEF TypeOK, GprBlock
<1> HIDE DEF g, h
<1>4. QED BY <1>1, <1>2, <1>3 DEF TypeOK

-----------------------------------------------------------------------------
(* Mail is preserved.                                                      *)

\* Freshly loaded, the mailbox is empty and the master polls it.
LEMMA MailInit == Init => Mail
BY DEF Init, FirmwareInit, Mail, Kicked, HostReadsOwnResult

\* No step makes host, mailbox and master disagree on the request or lets the
\* host see an answer before the result (main.c, 109-110).
LEMMA MailStep == IInv /\ [Next]_vars => Mail'
<1> SUFFICES ASSUME IInv, [Next]_vars PROVE Mail'
  OBVIOUS
<1>1. CASE HReload
  BY <1>1 DEF HReload, IInv, TypeOK, Mail, Kicked, HostReadsOwnResult
<1>2. ASSUME NEW t \in BwTests, NEW p \in Params, HSetParams(t, p) PROVE Mail'
  BY <1>2 DEF HSetParams, IInv, Mail, Kicked, HostReadsOwnResult, masterVars
<1>3. CASE HSetCtrl
  BY <1>3 DEF HSetCtrl, IInv, Mail, Kicked, HostReadsOwnResult, masterVars, BwTests,
              BW_DMA_RD, BW_DMA_WR, BW_DMA_RW, GprOf
<1>4. CASE HFinish
  BY <1>4 DEF HFinish, IInv, TypeOK, Mail, Kicked, HostReadsOwnResult, masterVars,
              mailVars, BwTests, BW_DMA_RD, BW_DMA_WR, BW_DMA_RW, GprOf
<1>5. CASE MPoll
  BY <1>5 DEF MPoll, IInv, TypeOK, Mail, Kicked, HostReadsOwnResult, hostVars, mailVars,
              BwTests, BW_DMA_RD, BW_DMA_WR, BW_DMA_RW, GprOf
<1>6. CASE MSwitch
  <2>1. gpr'[0] = GprOf(req)
    <3>1. 0 \in MEs
      BY DmaBwAssumption DEF MEs
    <3>2. QED
      BY <1>6, <3>1 DEF MSwitch, IInv, TypeOK, Mail, GprOf
  <2>2. UNCHANGED <<hostVars, mailVars, params, result>>
    BY <1>6 DEF MSwitch
  <2>3. QED
    BY <1>6, <2>1, <2>2
       DEF MSwitch, IInv, Mail, Kicked, HostReadsOwnResult, hostVars, mailVars, GprOf
<1>7. CASE MAddrs
  BY <1>7 DEF MAddrs, IInv, Mail, Kicked, HostReadsOwnResult, hostVars, mailVars, GprOf
<1>8. CASE MArm
  BY <1>8 DEF MArm, IInv, Mail, Kicked, HostReadsOwnResult, hostVars, mailVars, GprOf
<1>9. CASE MKick
  BY <1>9 DEF MKick, IInv, Mail, Kicked, HostReadsOwnResult, hostVars, mailVars, GprOf
<1>10. CASE MWake
  BY <1>10 DEF MWake, IInv, Mail, Kicked, HostReadsOwnResult, hostVars, mailVars, GprOf
<1>11. CASE MResult
  BY <1>11 DEF MResult, IInv, TypeOK, Mail, Kicked, HostReadsOwnResult, hostVars, BwTests,
               BW_DMA_RD, BW_DMA_WR, BW_DMA_RW, GprOf
<1>12. CASE MCtrl
  BY <1>12 DEF MCtrl, IInv, TypeOK, Mail, Kicked, HostReadsOwnResult, hostVars, GprOf
<1>13. ASSUME NEW w \in Workers, WStep(w) \/ DmaComplete(w) PROVE Mail'
  <2>1. UNCHANGED <<hostVars, mailVars, masterVars, dma_addrs>>
    BY <1>13 DEF WStep, WStart, WGetCtrl, WGetParams, WPing, WSetup, WTake, WEnq, WRetire,
                 DmaComplete
  <2>2. mpc \in {"addrs", "arm", "kick", "wait"} \/ Kicked => gpr'[0] = gpr[0]
    <3>1. CASE WGetCtrl(w) \/ WGetParams(w)
      BY <3>1, GetCtrlRegs, GetParamsRegs, LocalFits, DmaBwAssumption DEF MEs
    <3>2. CASE ~(WGetCtrl(w) \/ WGetParams(w))
      BY <1>13, <3>2 DEF WStep, WStart, WPing, WSetup, WTake, WEnq, WRetire, DmaComplete
    <3>3. QED BY <3>1, <3>2
  <2>3. QED
    BY <2>1, <2>2 DEF IInv, Mail, Kicked, HostReadsOwnResult, hostVars, mailVars, masterVars
<1>14. CASE UNCHANGED vars
  BY <1>14 DEF vars, hostVars, mailVars, masterVars, IInv, Mail, Kicked, HostReadsOwnResult
<1>15. QED
  BY <1>1, <1>2, <1>3, <1>4, <1>5, <1>6, <1>7, <1>8, <1>9, <1>10, <1>11, <1>12, <1>13,
     <1>14, StepCases

-----------------------------------------------------------------------------
(* Copies is preserved.                                                    *)

\* Freshly loaded, no worker has copied anything.
LEMMA CopiesInit == Init => Copies
BY WorkerFacts, DmaBwAssumption
   DEF Init, FirmwareInit, Copies, CtrlRead, ParamsRead, Passed, Holds,
       CountedDmaMatchesTest, Counts, Workers, MEs, Master

\* Context 0 of a worker ME is a worker.
LEMMA FirstContext == \A m \in MEs \ {0} : <<m, 0>> \in Workers
BY DmaBwAssumption DEF Workers, MEs, Master

\* Before the first worker is signalled there is nothing to preserve.
LEMMA NothingCopied ==
    ASSUME IInv, ~Kicked
    PROVE  /\ \A w \in Workers : pc[w] = "wait" /\ cmd[w] = NoCmd /\ dma[w] = NoDma
           /\ \A m \in MEs \ {0} : ~CtrlRead(m) /\ ~ParamsRead(m)
<1>1. \A w \in Workers : pc[w] = "wait" /\ cmd[w] = NoCmd
  BY DEF IInv, Chain, Reached, Started
<1>2. \A w \in Workers : dma[w] = NoDma
  BY <1>1 DEF IInv, Local
<1>3. QED
  BY <1>1, <1>2, FirstContext DEF CtrlRead, ParamsRead, Passed

\* The mailbox keeps the test number while there is an index to take.
LEMMA MailboxHoldsTest ==
    ASSUME IInv, Kicked
    PROVE  /\ test_ctrl = req.test \/ num_dma_trans = 0
           /\ test_params = req.params /\ dma_addrs = req.params
           /\ gpr[0] = GprOf(req)
BY DEF IInv, Mail, Counter, Kicked

\* Once the first worker has been signalled, the host and the master change
\* neither the request nor the counter nor the registers.
LEMMA QuietKicked ==
    ASSUME IInv, [Next]_vars, Kicked
    PROVE  \/ HReload \/ MKick \/ MWake
           \/ QuietStep /\ UNCHANGED <<req, num_dma_trans, gpr>>
           \/ \E w \in Workers : WStep(w) \/ DmaComplete(w)
<1>1. hpc \in {"poll", "idle"} /\ mpc \notin {"switch", "addrs", "arm", "kick"}
  BY DEF IInv, TypeOK, Mail, Kicked
<1>2. ASSUME \/ HSetCtrl \/ HFinish \/ MPoll \/ MAddrs \/ MResult \/ MCtrl
             \/ UNCHANGED vars
      PROVE  QuietStep /\ UNCHANGED <<req, num_dma_trans, gpr>>
  BY <1>2 DEF HSetCtrl, HFinish, MPoll, MAddrs, MResult, MCtrl, vars, QuietStep,
              hostVars, masterVars, workerVars
<1>3. ~MSwitch /\ ~MArm /\ \A t \in BwTests, p \in Params : ~HSetParams(t, p)
  BY <1>1 DEF MSwitch, MArm, HSetParams
<1>4. QED BY <1>2, <1>3, StepCases

\* The registers a started worker uses hold the arguments of the request; the
\* test number too, unless no index is left to take.
LEMMA RegistersMatch ==
    ASSUME IInv, NEW w \in Workers, Started(w), pc[w] \notin {"getctrl", "getparams", "ping"}
    PROVE  /\ gpr[w[1]].sz = req.params.sz /\ gpr[w[1]].doff = req.params.doff
           /\ gpr[w[1]].test = req.test \/ num_dma_trans = 0
<1>1. Kicked /\ Reached(w) /\ Passed(w)
  BY DEF IInv, TypeOK, Local, Chain, Reached, Started, Passed
<1>2. CASE w[1] = 0
  BY <1>1, <1>2, MailboxHoldsTest DEF GprOf
<1>3. CASE w[1] # 0
  <2>1. w[1] \in MEs \ {0} /\ Passed(<<w[1], 0>>)
    <3>1. CASE w[2] = 0
      BY <1>1, <1>3, <3>1, WorkerFacts
    <3>2. CASE w[2] # 0
      BY <1>1, <1>3, <3>2, WorkerFacts DEF IInv, Chain
    <3>3. QED BY <3>1, <3>2
  <2>2. CtrlRead(w[1]) /\ ParamsRead(w[1])
    BY <2>1 DEF CtrlRead, ParamsRead
  <2>3. QED BY <2>1, <2>2 DEF IInv, Copies
<1>4. QED BY <1>2, <1>3

\* No step lets a worker work with arguments other than those requested: a late
\* copy of the test number may differ only when the counter is exhausted.
LEMMA CopiesStep == IInv /\ [Next]_vars => Copies'
<1> SUFFICES ASSUME IInv, [Next]_vars PROVE Copies'
  OBVIOUS
<1> USE WorkerFacts, FirstContext
<1>1. CASE HReload
  BY <1>1 DEF HReload, Copies, CtrlRead, ParamsRead, Passed, Holds,
              CountedDmaMatchesTest, Counts
<1>2. CASE QuietStep /\ ~Kicked
  <2>1. /\ \A w \in Workers : pc'[w] = "wait" /\ cmd'[w] = NoCmd /\ dma'[w] = NoDma
        /\ \A m \in MEs \ {0} : ~CtrlRead(m)' /\ ~ParamsRead(m)'
    BY <1>2, NothingCopied DEF QuietStep, CtrlRead, ParamsRead, Passed
  <2>2. QED
    BY <2>1 DEF Copies, Holds, CountedDmaMatchesTest, Counts
<1>3. CASE QuietStep /\ UNCHANGED <<req, num_dma_trans, gpr>>
  BY <1>3 DEF QuietStep, IInv, Copies, CtrlRead, ParamsRead, Passed, Holds,
              CountedDmaMatchesTest, Counts
<1>4. CASE MKick \/ MWake
  BY <1>4 DEF MKick, MWake, hostVars, workerVars, IInv, Copies, CtrlRead, ParamsRead,
              Passed, Holds, CountedDmaMatchesTest, Counts
<1>5. ASSUME NEW w \in Workers, WStep(w) \/ DmaComplete(w) PROVE Copies'
  <2>1. CASE WStart(w)
    <3>1. UNCHANGED <<req, num_dma_trans, gpr, cmd, trans, dma>>
      BY <2>1 DEF WStart, hostVars
    <3>2. \A m \in MEs \ {0} : /\ CtrlRead(m)' => CtrlRead(m)
                               /\ ParamsRead(m)' => ParamsRead(m)
      <4> SUFFICES ASSUME NEW m \in MEs \ {0}
                   PROVE  /\ CtrlRead(m)' => CtrlRead(m)
                          /\ ParamsRead(m)' => ParamsRead(m)
        OBVIOUS
      <4>1. CASE <<m, 0>> = w
        <5>1. EntryPoint(w) = "getctrl"
          BY <4>1 DEF EntryPoint
        <5>2. QED
          BY <2>1, <4>1, <5>1 DEF WStart, IInv, TypeOK, CtrlRead, ParamsRead, Passed
      <4>2. CASE <<m, 0>> # w
        BY <2>1, <4>2 DEF WStart, IInv, TypeOK, CtrlRead, ParamsRead, Passed
      <4>3. QED BY <4>1, <4>2
    <3>3. \A v \in Workers : Holds(v)' => Holds(v)
      BY <2>1 DEF WStart, EntryPoint, IInv, TypeOK, Holds
    <3>4. QED
      BY <3>1, <3>2, <3>3 DEF IInv, Copies, CountedDmaMatchesTest, Counts
  <2>2. CASE WGetCtrl(w)
    <3>1. UNCHANGED <<req, num_dma_trans, cmd, trans, dma>>
      BY <2>2 DEF WGetCtrl, hostVars
    <3>2. w = <<w[1], 0>> /\ ~Passed(w) /\ Kicked
      BY <2>2 DEF WGetCtrl, IInv, Local, Chain, Reached, Started, Passed
    <3>3. test_ctrl = req.test \/ num_dma_trans = 0
      BY <3>2, MailboxHoldsTest
    <3>4. \A m \in MEs \ {0} : m # w[1] => /\ CtrlRead(m)' => CtrlRead(m)
                                           /\ ParamsRead(m)' => ParamsRead(m)
      BY <2>2 DEF WGetCtrl, IInv, TypeOK, CtrlRead, ParamsRead, Passed
    <3>5. ~ParamsRead(w[1])'
      <4>1. pc'[w] = "getparams"
        BY <2>2 DEF WGetCtrl, IInv, TypeOK
      <4>2. cmd'[w] = NoCmd
        BY <3>1, <3>2 DEF Passed
      <4>3. QED BY <3>2, <4>1, <4>2 DEF ParamsRead, Passed
    <3>6. \A v \in Workers : Holds(v)' => Holds(v) /\ v[1] # w[1]
      <4> SUFFICES ASSUME NEW v \in Workers, Holds(v)' PROVE Holds(v) /\ v[1] # w[1]
        OBVIOUS
      <4>1. Holds(v) /\ v # w
        BY <2>2 DEF WGetCtrl, IInv, TypeOK, Holds
      <4>2. ASSUME v[1] = w[1] PROVE FALSE
        <5>1. v[2] # 0 /\ v[1] # 0
          BY <3>2, <4>1, <4>2, GetCtrlRegs, LocalFits, <2>2
        <5>2. Passed(<<v[1], 0>>)
          BY <4>1, <5>1, HoldsReached DEF IInv, Chain
        <5>3. QED BY <3>2, <4>2, <5>2
      <4>3. QED BY <4>1, <4>2
    <3>7. \A m \in MEs \ {0} : CtrlRead(m)' => gpr'[m].test = req.test \/ num_dma_trans = 0
      BY <2>2, <3>3, <3>4, GetCtrlRegs, LocalFits DEF IInv, Copies
    <3>8. \A m \in MEs \ {0} : ParamsRead(m)' => gpr'[m].sz = req.params.sz
                                              /\ gpr'[m].doff = req.params.doff
      BY <2>2, <3>4, <3>5, GetCtrlRegs, LocalFits DEF IInv, Copies
    <3>9. \A v \in Workers : Holds(v)' => gpr'[v[1]].test = req.test
      BY <2>2, <3>6, GetCtrlRegs, LocalFits DEF IInv, Copies
    <3>10. QED
      BY <3>1, <3>7, <3>8, <3>9 DEF IInv, Copies, CountedDmaMatchesTest, Counts
  <2>3. CASE WGetParams(w)
    <3>1. UNCHANGED <<req, num_dma_trans, cmd, trans, dma>>
      BY <2>3 DEF WGetParams, hostVars
    <3>2. w = <<w[1], 0>> /\ Kicked /\ CtrlRead(w[1])
      BY <2>3 DEF WGetParams, IInv, Local, Chain, Reached, Started, CtrlRead
    <3>3. test_params = req.params
      BY <3>2, MailboxHoldsTest
    <3>4. \A m \in MEs \ {0} : /\ CtrlRead(m)' => CtrlRead(m)
                               /\ m # w[1] /\ ParamsRead(m)' => ParamsRead(m)
      <4> SUFFICES ASSUME NEW m \in MEs \ {0}
                   PROVE  /\ CtrlRead(m)' => CtrlRead(m)
                          /\ m # w[1] /\ ParamsRead(m)' => ParamsRead(m)
        OBVIOUS
      <4>1. CASE m = w[1]
        BY <3>2, <4>1
      <4>2. CASE m # w[1]
        <5>1. <<m, 0>> # w
          BY <3>2, <4>2
        <5>2. QED
          BY <2>3, <5>1 DEF WGetParams, IInv, TypeOK, CtrlRead, ParamsRead, Passed
      <4>3. QED BY <4>1, <4>2
    <3>5. \A v \in Workers : Holds(v)' => Holds(v)
      BY <2>3 DEF WGetParams, IInv, TypeOK, Holds
    <3>6. \A m \in MEs : gpr'[m].test = gpr[m].test
      BY <2>3, GetParamsRegs, LocalFits
    <3>7. \A m \in MEs \ {0} : ParamsRead(m)' => gpr'[m].sz = req.params.sz
                                              /\ gpr'[m].doff = req.params.doff
      BY <2>3, <3>3, <3>4, GetParamsRegs, LocalFits DEF IInv, Copies
    <3>8. QED
      BY <3>1, <3>4, <3>5, <3>6, <3>7 DEF IInv, Copies, CountedDmaMatchesTest, Counts
  <2>4. CASE WPing(w)
    <3>1. UNCHANGED <<req, num_dma_trans, gpr, cmd, trans, dma>>
      BY <2>4 DEF WPing, hostVars
    <3>2. \A m \in MEs \ {0} : /\ CtrlRead(m)' => CtrlRead(m)
                               /\ ParamsRead(m)' => ParamsRead(m)
      BY <2>4 DEF WPing, IInv, TypeOK, CtrlRead, ParamsRead, Passed
    <3>3. \A v \in Workers : Holds(v)' => Holds(v)
      BY <2>4 DEF WPing, IInv, TypeOK, Holds
    <3>4. QED
      BY <3>1, <3>2, <3>3 DEF IInv, Copies, CountedDmaMatchesTest, Counts
  <2>5. CASE WSetup(w)
    <3>1. UNCHANGED <<req, num_dma_trans, gpr, trans, dma>>
      BY <2>5 DEF WSetup, hostVars
    <3>2. /\ pc' = [pc EXCEPT ![w] = "take"]
          /\ cmd' = [cmd EXCEPT ![w] = CmdOf(req)]
      BY <2>5, RegistersMatch DEF WSetup, Started, CmdOf
    <3>3. \A m \in MEs \ {0} : /\ CtrlRead(m)' => CtrlRead(m)
                               /\ ParamsRead(m)' => ParamsRead(m)
      BY <2>5, <3>2 DEF WSetup, IInv, TypeOK, CtrlRead, ParamsRead, Passed
    <3>4. \A v \in Workers : Holds(v)' => Holds(v)
      BY <3>1, <3>2 DEF IInv, TypeOK, Holds
    <3>5. \A v \in Workers : cmd'[v] # NoCmd => cmd'[v] = CmdOf(req)
      BY <3>2 DEF IInv, TypeOK, Copies
    <3>6. CmdOf(req)' = CmdOf(req)
      BY <3>1 DEF CmdOf
    <3>7. QED
      BY <3>1, <3>3, <3>4, <3>5, <3>6 DEF IInv, Copies, CountedDmaMatchesTest, Counts
  <2>6. CASE WTake(w)
    <3>1. /\ UNCHANGED <<req, gpr, cmd, dma>>
          /\ pc[w] = "take" /\ pc' = [pc EXCEPT ![w] = "enq"]
          /\ trans' = [trans EXCEPT ![w] = num_dma_trans]
      BY <2>6 DEF WTake, hostVars
    <3>2. num_dma_trans = 0 => num_dma_trans' = 0
      BY <2>6 DEF WTake, TestSub, Max2
    <3>3. \A m \in MEs \ {0} : /\ CtrlRead(m)' => CtrlRead(m)
                               /\ ParamsRead(m)' => ParamsRead(m)
      BY <3>1 DEF IInv, TypeOK, CtrlRead, ParamsRead, Passed
    <3>4. \A v \in Workers : Holds(v)' => gpr[v[1]].test = req.test
      <4>1. Holds(w)' => gpr[w[1]].test = req.test
        BY <3>1, RegistersMatch DEF IInv, TypeOK, Holds, Started
      <4>2. \A v \in Workers \ {w} : Holds(v)' => Holds(v)
        BY <3>1 DEF IInv, TypeOK, Holds
      <4>3. QED BY <4>1, <4>2 DEF IInv, Copies
    <3>5. QED
      BY <3>1, <3>2, <3>3, <3>4 DEF IInv, Copies, CmdOf, CountedDmaMatchesTest, Counts
  <2>7. CASE WEnq(w)
    <3>1. /\ UNCHANGED <<req, num_dma_trans, gpr, cmd, trans>>
          /\ pc[w] = "enq" /\ pc' = [pc EXCEPT ![w] = "dma"]
      BY <2>7 DEF WEnq, hostVars
    <3>2. \A m \in MEs \ {0} : /\ CtrlRead(m)' => CtrlRead(m)
                               /\ ParamsRead(m)' => ParamsRead(m)
      BY <3>1 DEF IInv, TypeOK, CtrlRead, ParamsRead, Passed
    <3>3. \A v \in Workers : Holds(v)' => Holds(v)
      BY <3>1 DEF IInv, TypeOK, Holds
    <3> DEFINE d == Descriptor(trans[w], gpr[w[1]].test, cmd[w], dma_addrs)
    <3>4. d.idx = trans[w] /\ dma' = [dma EXCEPT ![w] = d]
      BY <2>7 DEF WEnq, Descriptor
    <3>5. trans[w] >= 1 => d = Descriptor(d.idx, req.test, req.params, req.params)
      <4>1. Kicked /\ cmd[w] = CmdOf(req)
        BY <3>1 DEF IInv, Local, Chain, Reached, Started, Copies
      <4>2. trans[w] >= 1 => gpr[w[1]].test = req.test
        BY <3>1 DEF IInv, Copies, Holds
      <4>3. dma_addrs = req.params
        BY <4>1, MailboxHoldsTest
      <4>4. QED
        BY <4>1, <4>2, <4>3 DEF Descriptor, CmdOf
    <3> HIDE DEF d
    <3>6. CountedDmaMatchesTest'
      BY <3>1, <3>4, <3>5 DEF IInv, TypeOK, Copies, CountedDmaMatchesTest, Counts
    <3>7. QED
      BY <3>1, <3>2, <3>3, <3>6 DEF IInv, Copies, CmdOf
  <2>8. CASE DmaComplete(w)
    <3>1. /\ UNCHANGED <<req, num_dma_trans, gpr, cmd, trans, pc>>
          /\ dma' = [dma EXCEPT ![w] = NoDma]
      BY <2>8 DEF DmaComplete, hostVars, workerVars
    <3>2. CountedDmaMatchesTest'
      BY <3>1 DEF IInv, TypeOK, Copies, CountedDmaMatchesTest, Counts
    <3>3. QED
      BY <3>1, <3>2 DEF IInv, Copies, CtrlRead, ParamsRead, Passed, Holds, CmdOf
  <2>9. CASE WRetire(w)
    <3>1. /\ UNCHANGED <<req, num_dma_trans, gpr, cmd, trans, dma>>
          /\ pc[w] = "dma"
          /\ pc' = [pc EXCEPT ![w] = IF StopsAfter(trans[w]) THEN "wait" ELSE "take"]
      BY <2>9 DEF WRetire, hostVars
    <3>2. \A m \in MEs \ {0} : /\ CtrlRead(m)' => CtrlRead(m)
                               /\ ParamsRead(m)' => ParamsRead(m)
      BY <3>1 DEF IInv, TypeOK, CtrlRead, ParamsRead, Passed
    <3>3. \A v \in Workers : Holds(v)' => Holds(v)
      BY <3>1 DEF IInv, TypeOK, Holds
    <3>4. QED
      BY <3>1, <3>2, <3>3 DEF IInv, Copies, CmdOf, CountedDmaMatchesTest, Counts
  <2>10. QED
    BY <1>5, <2>1, <2>2, <2>3, <2>4, <2>5, <2>6, <2>7, <2>8, <2>9 DEF WStep
<1>6. QED BY <1>1, <1>2, <1>3, <1>4, <1>5, QuietCases, QuietKicked

-----------------------------------------------------------------------------
(* The theorems.                                                           *)

\* The inductive invariant holds in every state of every behaviour, for any
\* number of microengines, contexts, transactions, tests and parameters.
THEOREM Invariance == Spec => []IInv
<1>1. Init => IInv
  BY TypeInit, LocalInit, ChainInit, MailInit, CounterInit, CopiesInit DEF IInv
<1>2. IInv /\ [Next]_vars => IInv'
  <2> SUFFICES ASSUME IInv, [Next]_vars PROVE IInv'
    OBVIOUS
  <2>1. TypeOK'
    BY LocalFits, TypeStep DEF NextReuse
  <2>2. QED
    BY <2>1, LocalStep, ChainStep, MailStep, CounterStep, CopiesStep DEF IInv
<1>3. QED BY <1>1, <1>2, PTL DEF Spec

\* Every variable of the program keeps its type; in particular the counter
\* saturates at 0 and a worker never uses a template that was not set up.
THEOREM TypeCorrect == Spec => []TypeOK
BY Invariance, PTL DEF IInv

\* Whatever the number of microengines and contexts: every DMA that counts
\* is the one the host asked for (dma_bw_worker, 342-366 and 369-396).
THEOREM DmaCorrect == Spec => []CountedDmaMatchesTest
BY Invariance, PTL DEF IInv, Copies

\* The host reads the answer to its own request (main.c, 109-110).
THEOREM ResultCorrect == Spec => []HostReadsOwnResult
BY Invariance, PTL DEF IInv, Mail

\* The master has the shared state to itself while it sets a test up
\* (dma_bw, 261-299).
THEOREM SetupCorrect == Spec => []SetupAlone
<1>1. IInv => SetupAlone
  <2> SUFFICES ASSUME IInv, mpc \in {"switch", "addrs", "arm", "kick"}
               PROVE  Drained
    BY DEF SetupAlone
  <2>1. ~Kicked
    BY DEF IInv, Mail, Kicked
  <2>2. QED
    BY <2>1, NothingCopied DEF IInv, Chain, Reached, Drained
<1>2. QED BY <1>1, Invariance, PTL

\* No control signal is raised where one is pending or would be mistaken
\* (dma_bw_worker, 355-362 and 403-406).
THEOREM SignalsCorrect == Spec => []NoSignalLost
<1>1. IInv => NoSignalLost
  <2> SUFFICES ASSUME IInv PROVE NoSignalLost
    OBVIOUS
  <2>1. ASSUME NEW w \in Workers, pc[w] = "ping", Follower(w) \in Workers
        PROVE  ~Started(Follower(w)) /\ ~sig[Follower(w)]
    BY <2>1 DEF IInv, Local, Chain, Passed, Reached
  <2>2. ASSUME NEW w \in Workers, pc[w] = "dma", trans[w] = 1
        PROVE  mpc = "wait" /\ ~sig[Master]
    <3>1. Holds(w)
      BY <2>2 DEF Holds
    <3>2. ~sig[Master] /\ result = Garbage
      BY <2>2, <3>1 DEF IInv, Counter
    <3>3. Kicked
      BY <3>1, HoldsReached DEF IInv, Chain
    <3>4. QED BY <3>2, <3>3 DEF Kicked
  <2>3. QED BY <2>1, <2>2 DEF NoSignalLost
<1>2. QED BY <1>1, Invariance, PTL

-----------------------------------------------------------------------------
(* Tests on firmware that was not reloaded: SpecReuse.                     *)

\* What ReuseInv says, with the set of workers this test has reached.
Again(R) == TypeOK /\ Fits /\ MailAgain /\ CounterAgain /\ ArmedAgain /\ Issued /\ Reaches(R)

\* The steps that leave the workers alone; a reload that fails is one of them.
LEMMA ReuseCases ==
    ASSUME [NextReuse]_vars
    PROVE  \/ HReload
           \/ QuietStep
           \/ MKick \/ MWake
           \/ \E w \in Workers : WStep(w) \/ DmaComplete(w)
<1>1. CASE HReloadFails
  BY <1>1 DEF HReloadFails, QuietStep, masterVars, workerVars
<1>2. CASE [Next]_vars
  BY <1>2, QuietCases
<1>3. QED BY <1>1, <1>2 DEF NextReuse

\* A worker that does anything has been reached, and the test is under way.
LEMMA ActiveReached ==
    ASSUME NEW R \in SUBSET Workers, Reaches(R), NEW w \in Workers, ~Parked(w)
    PROVE  w \in R /\ Running
BY DEF Reaches, ChainOf

\* Before the kick, and from the host's next call on, every worker is parked.
LEMMA ParkedBefore ==
    ASSUME NEW R \in SUBSET Workers, Reaches(R), ~Running
    PROVE  R = {} /\ \A w \in Workers : Parked(w) /\ ~Holds(w)
BY DEF Reaches, ChainOf, Parked, Holds

\* While workers run, the mailbox holds what they are about to copy.
LEMMA MailboxAgain ==
    ASSUME NEW R \in SUBSET Workers, Again(R), Running
    PROVE  /\ test_ctrl = req.test \/ num_dma_trans = 0
           /\ test_params = req.params
           /\ hpc \in {"poll", "idle"} /\ mpc \notin {"switch", "addrs", "arm", "kick"}
BY DEF Again, TypeOK, MailAgain, CounterAgain, Running

\* A worker is signalled only while it waits for its start and nothing is pending.
LEMMA FollowerParked ==
    ASSUME NEW R \in SUBSET Workers, Again(R), NEW w \in Workers, pc[w] = "ping",
           Follower(w) \in Workers
    PROVE  Follower(w) \notin R /\ Parked(Follower(w))
<1>1. ~HasPinged(w)
  BY DEF HasPinged
<1>2. Follower(w) \notin R
  BY <1>1 DEF Again, Reaches, ChainOf
<1>3. QED BY <1>2 DEF Again, Reaches, ChainOf

\* The registers that a worker sets up from hold the arguments of the request; the
\* test number too, unless no index is left to take.
LEMMA RegistersAgain ==
    ASSUME NEW R \in SUBSET Workers, Again(R), NEW w \in R, HasPinged(w)
    PROVE  /\ gpr[w[1]].sz = req.params.sz /\ gpr[w[1]].doff = req.params.doff
           /\ gpr[w[1]].test = req.test \/ num_dma_trans = 0
<1> USE WorkerFacts
<1>1. CASE w[1] = 0
  BY <1>1 DEF Again, Reaches, CopiesOf, GprOf
<1>2. CASE w[1] # 0
  <2> DEFINE v == <<w[1], 0>>
  <2>1. v \in R /\ HasPinged(v)
    <3>1. CASE w[2] = 0
      BY <3>1
    <3>2. CASE w[2] # 0
      BY <1>2, <3>2 DEF Again, Reaches, ChainOf
    <3>3. QED BY <3>1, <3>2
  <2>2. HasCtrl(v) /\ HasParams(v) /\ v[1] = w[1] /\ v[2] = 0
    BY <2>1 DEF HasPinged, HasCtrl, HasParams
  <2> HIDE DEF v
  <2>3. QED BY <2>1, <2>2 DEF Again, Reaches, CopiesOf
<1>3. QED BY <1>1, <1>2

\* No step makes a worker's own variables contradict each other.
LEMMA FitsStep ==
    ASSUME NEW R \in SUBSET Workers, Again(R), [NextReuse]_vars
    PROVE  Fits'
<1> USE WorkerFacts DEF Again
<1>1. CASE HReload
  BY <1>1 DEF HReload, Fits
<1>2. CASE QuietStep
  BY <1>2 DEF Fits, QuietStep
<1>3. CASE MKick
  <2>1. Follower(Master) \in Workers /\ Parked(Follower(Master))
    BY <1>3, FollowerFacts, ParkedBefore DEF MKick, Running
  <2>2. QED
    BY <1>3, <2>1 DEF MKick, TypeOK, Fits, Parked, workerVars
<1>4. CASE MWake
  BY <1>4 DEF MWake, TypeOK, Fits, workerVars
<1>5. ASSUME NEW w \in Workers, WStep(w) \/ DmaComplete(w) PROVE Fits'
  <2>1. CASE WStart(w)
    BY <2>1 DEF WStart, EntryPoint, TypeOK, Fits
  <2>2. CASE WGetCtrl(w)
    BY <2>2 DEF WGetCtrl, TypeOK, Fits
  <2>3. CASE WGetParams(w)
    BY <2>3 DEF WGetParams, TypeOK, Fits
  <2>4. CASE WPing(w)
    <3>1. Follower(w) \in Workers => Parked(Follower(w))
      BY <2>4, FollowerParked DEF WPing
    <3>2. Follower(w) \in Signalled /\ Follower(w) # w
      BY FollowerFacts
    <3>3. QED
      BY <2>4, <3>1, <3>2 DEF WPing, TypeOK, Fits, Parked
  <2>5. CASE WSetup(w)
    <3>1. [sz |-> gpr[w[1]].sz, doff |-> gpr[w[1]].doff] # NoCmd
      BY DmaBwAssumption DEF TypeOK, GprBlock, NoCmd
    <3>2. QED
      BY <2>5, <3>1 DEF WSetup, TypeOK, Fits
  <2>6. CASE WTake(w)
    BY <2>6 DEF WTake, TypeOK, Fits
  <2>7. CASE WEnq(w)
    BY <2>7 DEF WEnq, Descriptor, TypeOK, Fits
  <2>8. CASE DmaComplete(w)
    BY <2>8 DEF DmaComplete, TypeOK, Fits, workerVars
  <2>9. CASE WRetire(w)
    BY <2>9 DEF WRetire, StopsAfter, TypeOK, Fits
  <2>10. QED
    BY <1>5, <2>1, <2>2, <2>3, <2>4, <2>5, <2>6, <2>7, <2>8, <2>9 DEF WStep
<1>6. QED BY <1>1, <1>2, <1>3, <1>4, <1>5, ReuseCases

\* No step makes host, mailbox and master disagree on the request, or lets the host
\* take the answer of a former test for this one's (main.c, 109-110).
LEMMA MailAgainStep ==
    ASSUME NEW R \in SUBSET Workers, Again(R), [NextReuse]_vars
    PROVE  MailAgain'
<1> USE DEF Again
<1>1. CASE HReload
  BY <1>1 DEF HReload, TypeOK, MailAgain, HostReadsOwnResult
<1>2. ASSUME NEW t \in BwTests, NEW p \in Params, HSetParams(t, p) PROVE MailAgain'
  BY <1>2 DEF HSetParams, MailAgain, HostReadsOwnResult, masterVars
<1>3. CASE HSetCtrl
  BY <1>3 DEF HSetCtrl, MailAgain, HostReadsOwnResult, masterVars, BwTests,
              BW_DMA_RD, BW_DMA_WR, BW_DMA_RW, GprOf
<1>4. CASE HFinish
  BY <1>4 DEF HFinish, TypeOK, MailAgain, HostReadsOwnResult, masterVars,
              mailVars, BwTests, BW_DMA_RD, BW_DMA_WR, BW_DMA_RW, GprOf
<1>5. CASE MPoll
  BY <1>5 DEF MPoll, TypeOK, MailAgain, HostReadsOwnResult, hostVars, mailVars,
              BwTests, BW_DMA_RD, BW_DMA_WR, BW_DMA_RW, GprOf
<1>6. CASE MSwitch
  <2>1. gpr'[0] = GprOf(req)
    <3>1. 0 \in MEs
      BY DmaBwAssumption DEF MEs
    <3>2. QED
      BY <1>6, <3>1 DEF MSwitch, TypeOK, MailAgain, GprOf
  <2>2. UNCHANGED <<hostVars, mailVars, params, result>>
    BY <1>6 DEF MSwitch
  <2>3. QED
    BY <1>6, <2>1, <2>2 DEF MSwitch, MailAgain, HostReadsOwnResult, hostVars, mailVars, GprOf
<1>7. CASE MAddrs
  BY <1>7 DEF MAddrs, MailAgain, HostReadsOwnResult, hostVars, mailVars, GprOf
<1>8. CASE MArm
  BY <1>8 DEF MArm, MailAgain, HostReadsOwnResult, hostVars, mailVars, GprOf
<1>9. CASE MKick
  BY <1>9 DEF MKick, MailAgain, HostReadsOwnResult, hostVars, mailVars, GprOf
<1>10. CASE MWake
  BY <1>10 DEF MWake, MailAgain, HostReadsOwnResult, hostVars, mailVars, GprOf
<1>11. CASE MResult
  BY <1>11 DEF MResult, TypeOK, MailAgain, HostReadsOwnResult, hostVars, BwTests,
               BW_DMA_RD, BW_DMA_WR, BW_DMA_RW, GprOf
<1>12. CASE MCtrl
  BY <1>12 DEF MCtrl, TypeOK, MailAgain, HostReadsOwnResult, hostVars, GprOf
<1>13. ASSUME NEW w \in Workers, WStep(w) \/ DmaComplete(w) PROVE MailAgain'
  <2>1. UNCHANGED <<hostVars, mailVars, masterVars, dma_addrs>>
    BY <1>13 DEF WStep, WStart, WGetCtrl, WGetParams, WPing, WSetup, WTake, WEnq, WRetire,
                 DmaComplete
  <2>2. gpr'[0] = gpr[0]
    <3>1. CASE WGetCtrl(w) \/ WGetParams(w)
      BY <3>1, GetCtrlRegs, GetParamsRegs, DmaBwAssumption DEF MEs
    <3>2. CASE ~(WGetCtrl(w) \/ WGetParams(w))
      BY <1>13, <3>2 DEF WStep, WStart, WPing, WSetup, WTake, WEnq, WRetire, DmaComplete
    <3>3. QED BY <3>1, <3>2
  <2>3. QED
    BY <2>1, <2>2 DEF MailAgain, HostReadsOwnResult, hostVars, mailVars, masterVars
<1>14. CASE UNCHANGED vars
  BY <1>14 DEF vars, hostVars, mailVars, masterVars, MailAgain, HostReadsOwnResult
<1>15. CASE HReloadFails
  BY <1>15 DEF HReloadFails, mailVars, masterVars, MailAgain, HostReadsOwnResult
<1>16. CASE [Next]_vars
  BY <1>1, <1>2, <1>3, <1>4, <1>5, <1>6, <1>7, <1>8, <1>9, <1>10, <1>11, <1>12, <1>13,
     <1>14, <1>16, StepCases
<1>17. QED BY <1>15, <1>16 DEF NextReuse

\* No step gives an index out twice or reports a test whose index 1 is still out.
LEMMA CounterAgainStep ==
    ASSUME NEW R \in SUBSET Workers, Again(R), [NextReuse]_vars
    PROVE  CounterAgain'
<1> USE WorkerFacts DEF Again
<1>1. CASE HReload
  BY <1>1 DEF HReload, CounterAgain, Holds, Signalled
<1>2. CASE QuietStep /\ UNCHANGED num_dma_trans /\ (mpc' = "kick" <=> mpc = "kick")
  BY <1>2 DEF QuietStep, CounterAgain, Holds
<1>3. CASE MArm
  <2>1. ~sig[Master] /\ \A w \in Workers : ~Holds(w)
    BY <1>3, ParkedBefore DEF MArm, CounterAgain, Running
  <2>2. QED
    BY <1>3, <2>1 DEF MArm, CounterAgain, Holds, workerVars
<1>4. CASE MKick
  <2>1. ~sig[Master]' /\ mpc' = "wait"
    BY <1>4, FollowerFacts DEF MKick, TypeOK, CounterAgain
  <2>2. QED
    BY <1>4, <2>1 DEF MKick, CounterAgain, Holds, workerVars
<1>5. CASE MWake
  BY <1>5 DEF MWake, TypeOK, CounterAgain, Holds, Signalled, workerVars
<1>6. ASSUME NEW w \in Workers, WStep(w) \/ DmaComplete(w) PROVE CounterAgain'
  <2>1. CASE \/ WStart(w) \/ WGetCtrl(w) \/ WGetParams(w) \/ WPing(w) \/ WSetup(w)
             \/ WEnq(w) \/ DmaComplete(w)
    <3>1. UNCHANGED <<num_dma_trans, mpc, trans>>
      BY <2>1 DEF WStart, WGetCtrl, WGetParams, WPing, WSetup, WEnq, DmaComplete,
                  masterVars, workerVars
    <3>2. sig'[Master] = sig[Master]
      <4>1. CASE WStart(w)
        BY <4>1 DEF WStart, TypeOK, Signalled
      <4>2. CASE WPing(w)
        BY <4>2, FollowerFacts DEF WPing, TypeOK, Signalled
      <4>3. CASE WGetCtrl(w) \/ WGetParams(w) \/ WSetup(w) \/ WEnq(w) \/ DmaComplete(w)
        BY <4>3 DEF WGetCtrl, WGetParams, WSetup, WEnq, DmaComplete
      <4>4. QED BY <2>1, <4>1, <4>2, <4>3
    <3>3. \A v \in Workers : Holds(v)' <=> Holds(v)
      BY <2>1
         DEF WStart, EntryPoint, WGetCtrl, WGetParams, WPing, WSetup, WEnq, DmaComplete,
             workerVars, TypeOK, Holds
    <3>4. QED
      BY <3>1, <3>2, <3>3 DEF CounterAgain
  <2>2. CASE WTake(w)
    <3>1. /\ num_dma_trans \in Nat /\ \A v \in Workers : trans[v] \in Nat
      BY MaxTransFacts DEF TypeOK
    <3>2. /\ num_dma_trans' = IF num_dma_trans = 0 THEN 0 ELSE num_dma_trans - 1
          /\ trans' = [trans EXCEPT ![w] = num_dma_trans]
          /\ pc' = [pc EXCEPT ![w] = "enq"]
          /\ UNCHANGED <<sig, mpc>>
      BY <2>2, <3>1 DEF WTake, TestSub, Max2, masterVars
    <3>3. \A v \in Workers \ {w} : Holds(v)' <=> Holds(v)
      BY <3>2 DEF Holds, TypeOK
    <3>4. Holds(w)' => num_dma_trans >= 1 /\ trans'[w] = num_dma_trans
      BY <3>2 DEF Holds, TypeOK
    <3>5. \A v \in Workers \ {w} : trans'[v] = trans[v]
      BY <3>2 DEF TypeOK
    <3>6. mpc # "kick"
      BY <2>2, ActiveReached DEF WTake, Parked, Running
    <3>7. QED
      BY <3>1, <3>2, <3>3, <3>4, <3>5, <3>6 DEF CounterAgain
  <2>3. CASE WRetire(w)
    <3>1. /\ pc' = [pc EXCEPT ![w] = IF trans[w] <= 1 THEN "wait" ELSE "take"]
          /\ UNCHANGED <<num_dma_trans, mpc, trans>>
          /\ pc[w] = "dma"
      BY <2>3 DEF WRetire, StopsAfter, masterVars
    <3>2. ~Holds(w)' /\ \A v \in Workers \ {w} : Holds(v)' <=> Holds(v)
      BY <3>1 DEF Holds, TypeOK
    <3>3. CASE trans[w] = 1
      <4>1. Holds(w) /\ num_dma_trans = 0
        BY <3>1, <3>3, MaxTransFacts DEF Holds, TypeOK, CounterAgain
      <4>2. mpc = "wait"
        BY <3>3, <4>1 DEF CounterAgain
      <4>3. \A v \in Workers \ {w} : Holds(v) => trans[v] # 1
        BY <3>3, <4>1 DEF CounterAgain
      <4>4. QED
        BY <3>1, <3>2, <4>1, <4>2, <4>3 DEF CounterAgain
    <3>4. CASE trans[w] # 1
      <4>1. sig' = sig
        BY <2>3, <3>4 DEF WRetire, TellsMaster
      <4>2. QED
        BY <3>1, <3>2, <4>1 DEF CounterAgain
    <3>5. QED BY <3>3, <3>4
  <2>4. QED
    BY <1>6, <2>1, <2>2, <2>3 DEF WStep
<1>7. \/ UNCHANGED num_dma_trans /\ (mpc' = "kick" <=> mpc = "kick")
      \/ HReload \/ MArm \/ MKick \/ MWake \/ \E w \in Workers : WStep(w) \/ DmaComplete(w)
  <2>1. CASE HReloadFails
    BY <2>1 DEF HReloadFails, masterVars
  <2>2. CASE [Next]_vars
    BY <2>2, StepCases
       DEF HSetParams, HSetCtrl, HFinish, MPoll, MSwitch, MAddrs, MResult, MCtrl, vars,
           masterVars
  <2>3. QED BY <2>1, <2>2 DEF NextReuse
<1>8. QED BY <1>1, <1>2, <1>3, <1>4, <1>5, <1>6, <1>7, ReuseCases

\* The counter goes down from what the parameters say, and they stay while an index
\* is out; a worker is busy only in a test that was set up.
LEMMA ArmedAgainStep ==
    ASSUME NEW R \in SUBSET Workers, Again(R), [NextReuse]_vars
    PROVE  ArmedAgain'
<1> USE WorkerFacts DEF Again
<1>0. num_dma_trans \in Nat /\ MaxTrans(params) \in Nat \ {0} /\ MaxTrans(NoParams) \in Nat
  BY MaxTransFacts DEF TypeOK
<1>1. CASE HReload
  BY <1>0, <1>1 DEF HReload, ArmedAgain, Parked, Holds
<1>2. CASE HSetCtrl \/ HFinish \/ HReloadFails \/ MSwitch \/ MAddrs \/ MKick \/ MWake \/ MResult
           \/ UNCHANGED vars \/ \E t \in BwTests, p \in Params : HSetParams(t, p)
  <2>1. UNCHANGED <<num_dma_trans, params, pc, trans, dma>>
    BY <1>2 DEF HSetCtrl, HFinish, HReloadFails, MSwitch, MAddrs, MKick, MWake, MResult, vars,
                HSetParams, workerVars, masterVars
  <2>2. \/ mpc' # "poll"
        \/ UNCHANGED <<mpc, result, sig>>
    BY <1>2 DEF HSetCtrl, HFinish, HReloadFails, MSwitch, MAddrs, MKick, MWake, MResult, vars,
                HSetParams, masterVars
  <2>3. QED BY <2>1, <2>2 DEF ArmedAgain, Holds, MaxTrans, Parked
<1>3. CASE MPoll
  <2>1. ~Running /\ num_dma_trans = 0 /\ mpc' = "switch" /\ MaxTrans(params') \in Nat
    <3>1. MPoll => params' \in Params \cup {NoParams}
      BY DEF MPoll, TypeOK
    <3>2. MaxTrans(params') \in Nat
      BY <1>3, <3>1, MaxTransFacts
    <3>3. QED BY <1>3, <3>2 DEF MPoll, Running, CounterAgain, TypeOK, BwTests, BW_DMA_RD, BW_DMA_WR,
                          BW_DMA_RW
  <2>2. \A w \in Workers : ~Holds(w)'
    BY <1>3, <2>1, ParkedBefore DEF MPoll, Holds, workerVars
  <2>3. QED BY <1>3, <2>1, <2>2 DEF MPoll, ArmedAgain, MaxTrans
<1>4. CASE MArm
  BY <1>0, <1>4 DEF MArm, ArmedAgain, Holds, MaxTrans, workerVars
<1>5. CASE MCtrl
  <2>1. UNCHANGED <<num_dma_trans, params, result, sig, pc, trans, dma>>
    BY <1>5 DEF MCtrl, workerVars
  <2>2. result # Garbage \/ \A w \in Workers : Parked(w)
    <3>1. CASE res = 0
      BY <1>0, <1>5, <3>1 DEF MCtrl, MailAgain, Garbage
    <3>2. CASE res # 0
      BY <1>5, <3>2, ParkedBefore DEF MCtrl, Running
    <3>3. QED BY <3>1, <3>2
  <2>3. QED BY <2>1, <2>2 DEF ArmedAgain, Holds, MaxTrans, Parked
<1>6. ASSUME NEW w \in Workers, WStep(w) \/ DmaComplete(w) PROVE ArmedAgain'
  <2>1. UNCHANGED <<mpc, result, params>>
    BY <1>6 DEF WStep, WStart, WGetCtrl, WGetParams, WPing, WSetup, WTake, WEnq, WRetire,
                DmaComplete, masterVars
  <2>2. mpc # "poll" \/ result # Garbage
    <3>1. ~Parked(w)
      BY <1>6 DEF WStep, WStart, WGetCtrl, WGetParams, WPing, WSetup, WTake, WEnq, WRetire,
                  DmaComplete, Parked
    <3>2. QED BY <3>1 DEF ArmedAgain
  <2>3. CASE WTake(w)
    <3>1. /\ num_dma_trans' <= num_dma_trans /\ num_dma_trans' \in Nat
          /\ trans' = [trans EXCEPT ![w] = num_dma_trans]
          /\ pc' = [pc EXCEPT ![w] = "enq"]
      BY <2>3, <1>0 DEF WTake, TestSub, Max2
    <3>2. \A v \in Workers \ {w} : trans'[v] = trans[v] /\ pc'[v] = pc[v]
      BY <3>1 DEF TypeOK
    <3>3. trans'[w] = num_dma_trans
      BY <3>1 DEF TypeOK
    <3>4. num_dma_trans <= MaxTrans(params)
      BY DEF ArmedAgain
    <3>5. QED BY <1>0, <2>1, <2>2, <3>1, <3>2, <3>3, <3>4 DEF ArmedAgain, Holds, MaxTrans
  <2>4. CASE ~WTake(w)
    <3>1. UNCHANGED <<num_dma_trans, trans>>
      BY <1>6, <2>4 DEF WStep, WStart, WGetCtrl, WGetParams, WPing, WSetup, WEnq, WRetire,
                        DmaComplete, workerVars
    <3>2. \A v \in Workers : Holds(v)' => Holds(v)
      BY <1>6, <2>4
         DEF WStep, WStart, EntryPoint, WGetCtrl, WGetParams, WPing, WSetup, WEnq, WRetire,
             DmaComplete, workerVars, TypeOK, Holds
    <3>3. QED BY <2>1, <2>2, <3>1, <3>2 DEF ArmedAgain, MaxTrans
  <2>5. QED BY <2>3, <2>4
<1>7. CASE [Next]_vars
  BY <1>1, <1>2, <1>3, <1>4, <1>5, <1>6, <1>7, StepCases
<1>8. QED BY <1>2, <1>7 DEF NextReuse

\* Once workers run, and until the host's next call, neither the request nor the
\* registers are changed by the host or the master.
LEMMA QuietRunning ==
    ASSUME NEW R \in SUBSET Workers, Again(R), [NextReuse]_vars, Running
    PROVE  \/ HReload \/ HReloadFails \/ MWake
           \/ QuietStep /\ Running' /\ UNCHANGED <<req, num_dma_trans, gpr, dma_addrs>>
           \/ \E w \in Workers : WStep(w) \/ DmaComplete(w)
<1> USE DEF Again
<1>1. hpc \in {"poll", "idle"} /\ mpc \notin {"switch", "addrs", "arm", "kick"}
  BY MailboxAgain
<1>2. CASE HSetCtrl \/ MSwitch \/ MAddrs \/ MArm \/ MKick
           \/ \E t \in BwTests, p \in Params : HSetParams(t, p)
  BY <1>1, <1>2 DEF HSetCtrl, MSwitch, MAddrs, MArm, MKick, HSetParams
<1>3. CASE MPoll
  BY <1>3, <1>1 DEF MPoll, Running, TypeOK, BwTests, BW_DMA_RD, BW_DMA_WR, BW_DMA_RW
<1>4. CASE HFinish
  BY <1>4 DEF HFinish, Running, MailAgain, TypeOK, QuietStep, masterVars, mailVars, workerVars
<1>5. CASE MResult \/ MCtrl
  BY <1>5 DEF MResult, MCtrl, Running, MailAgain, QuietStep, hostVars, workerVars
<1>6. CASE UNCHANGED vars
  BY <1>6 DEF vars, Running, QuietStep, hostVars, mailVars, masterVars, workerVars
<1>7. CASE [Next]_vars
  BY <1>2, <1>3, <1>4, <1>5, <1>6, <1>7, StepCases
<1>8. QED BY <1>7 DEF NextReuse

\* No step makes a DMA that counts differ from the request, whatever registers and
\* templates former tests left behind.
LEMMA IssuedStep ==
    ASSUME NEW R \in SUBSET Workers, Again(R), [NextReuse]_vars
    PROVE  Issued'
<1> USE WorkerFacts DEF Again
<1>1. CASE HReload
  BY <1>1 DEF HReload, Issued, Holds, CountedDmaMatchesTest, Counts
<1>2. CASE QuietStep /\ ~Running
  <2>1. \A w \in Workers : ~Holds(w)' /\ dma'[w] = NoDma
    BY <1>2, ParkedBefore DEF QuietStep, Holds, Parked
  <2>2. QED
    BY <2>1 DEF Issued, CountedDmaMatchesTest, Counts
<1>3. CASE QuietStep /\ UNCHANGED <<req, gpr>>
  BY <1>3 DEF QuietStep, Issued, Holds, CountedDmaMatchesTest, Counts
<1>4. CASE MKick \/ MWake
  BY <1>4 DEF MKick, MWake, hostVars, workerVars, Issued, Holds, CountedDmaMatchesTest, Counts
<1>5. ASSUME NEW w \in Workers, WStep(w) \/ DmaComplete(w) PROVE Issued'
  <2>1. CASE WStart(w) \/ WPing(w) \/ WSetup(w) \/ WRetire(w)
    <3>1. UNCHANGED <<req, gpr, trans, dma>>
      BY <2>1 DEF WStart, WPing, WSetup, WRetire, hostVars
    <3>2. \A v \in Workers : Holds(v)' => Holds(v)
      BY <2>1, <3>1 DEF WStart, EntryPoint, WPing, WSetup, WRetire, TypeOK, Holds
    <3>3. QED
      BY <3>1, <3>2 DEF Issued, CountedDmaMatchesTest, Counts
  <2>2. CASE WGetCtrl(w)
    <3>1. UNCHANGED <<req, trans, dma>>
      BY <2>2 DEF WGetCtrl, hostVars
    <3>2. w = <<w[1], 0>> /\ ~HasPinged(w)
      BY <2>2 DEF WGetCtrl, Fits, HasPinged
    <3>3. \A v \in Workers : Holds(v)' => Holds(v) /\ v[1] # w[1]
      <4> SUFFICES ASSUME NEW v \in Workers, Holds(v)' PROVE Holds(v) /\ v[1] # w[1]
        OBVIOUS
      <4>1. Holds(v) /\ v # w
        BY <2>2 DEF WGetCtrl, TypeOK, Holds
      <4>2. ASSUME v[1] = w[1] PROVE FALSE
        <5>1. v[2] # 0 /\ v[1] # 0
          BY <3>2, <4>1, <4>2, GetCtrlRegs, <2>2
        <5>2. v \in R
          BY <4>1, ActiveReached DEF Holds, Parked
        <5>3. HasPinged(<<v[1], 0>>)
          BY <5>1, <5>2 DEF Reaches, ChainOf
        <5>4. QED BY <3>2, <4>2, <5>3
      <4>3. QED BY <4>1, <4>2
    <3>4. \A v \in Workers : Holds(v)' => gpr'[v[1]].test = req.test
      BY <2>2, <3>3, GetCtrlRegs DEF Issued
    <3>5. QED
      BY <3>1, <3>4 DEF Issued, CountedDmaMatchesTest, Counts
  <2>3. CASE WGetParams(w)
    <3>1. UNCHANGED <<req, trans, dma>>
      BY <2>3 DEF WGetParams, hostVars
    <3>2. \A v \in Workers : Holds(v)' => Holds(v)
      BY <2>3 DEF WGetParams, TypeOK, Holds
    <3>3. \A m \in MEs : gpr'[m].test = gpr[m].test
      BY <2>3, GetParamsRegs
    <3>4. QED
      BY <3>1, <3>2, <3>3 DEF Issued, CountedDmaMatchesTest, Counts
  <2>4. CASE WTake(w)
    <3>1. UNCHANGED <<req, gpr, dma>>
      BY <2>4 DEF WTake, hostVars
    <3>2. w \in R /\ HasPinged(w)
      BY <2>4, ActiveReached DEF WTake, Parked, HasPinged, Fits
    <3>3. /\ \A v \in Workers \ {w} : Holds(v)' => Holds(v)
          /\ Holds(w)' => num_dma_trans # 0
      BY <2>4 DEF WTake, TypeOK, Holds
    <3>4. \A v \in Workers : Holds(v)' => gpr[v[1]].test = req.test
      BY <3>2, <3>3, RegistersAgain DEF Issued
    <3>5. QED
      BY <3>1, <3>4 DEF Issued, CountedDmaMatchesTest, Counts
  <2>5. CASE WEnq(w)
    <3> DEFINE d == Descriptor(trans[w], gpr[w[1]].test, cmd[w], dma_addrs)
    <3>1. UNCHANGED <<req, gpr, trans>> /\ pc' = [pc EXCEPT ![w] = "dma"]
          /\ dma' = [dma EXCEPT ![w] = d] /\ pc[w] = "enq"
      BY <2>5 DEF WEnq, hostVars
    <3>2. \A v \in Workers : Holds(v)' <=> Holds(v)
      BY <3>1 DEF TypeOK, Holds
    <3>3. w \in R /\ HasCmd(w)
      BY <3>1, ActiveReached DEF Parked, HasCmd, Fits
    <3>4. cmd[w] = CmdOf(req) /\ dma_addrs = req.params
      BY <3>3 DEF Reaches, CopiesOf
    <3>5. d.idx = trans[w]
      BY DEF Descriptor
    <3>6. ASSUME trans[w] >= 1
          PROVE  d = Descriptor(d.idx, req.test, req.params, req.params)
      <4>1. gpr[w[1]].test = req.test
        BY <3>1, <3>6 DEF Issued, Holds
      <4>2. QED
        BY <3>4, <3>5, <4>1 DEF Descriptor, CmdOf
    <3> HIDE DEF d
    <3>7. \A v \in Workers : dma'[v] = IF v = w THEN d ELSE dma[v]
      BY <3>1 DEF TypeOK
    <3>8. ASSUME NEW v \in Workers, Counts(dma[v])'
          PROVE  dma'[v] = Descriptor(dma'[v].idx, req.test, req.params, req.params)
      BY <3>5, <3>6, <3>7, <3>8 DEF Issued, CountedDmaMatchesTest, Counts
    <3>9. QED
      BY <3>1, <3>2, <3>8 DEF Issued, CountedDmaMatchesTest
  <2>6. CASE DmaComplete(w)
    BY <2>6 DEF DmaComplete, hostVars, workerVars, TypeOK, Issued, Holds,
                CountedDmaMatchesTest, Counts
  <2>7. QED
    BY <1>5, <2>1, <2>2, <2>3, <2>4, <2>5, <2>6 DEF WStep
<1>6. CASE HReloadFails
  BY <1>6 DEF HReloadFails, workerVars, Issued, Holds, CountedDmaMatchesTest, Counts
<1>7. QED BY <1>1, <1>2, <1>3, <1>4, <1>5, <1>6, ReuseCases, QuietRunning

\* A step of one worker that signals no other leaves the order as it is.
LEMMA ChainKept ==
    ASSUME NEW R \in SUBSET Workers, Again(R), NEW w \in R, Running',
           \A v \in Workers \ {w} : sig'[v] = sig[v] /\ pc'[v] = pc[v] /\ dma'[v] = dma[v],
           HasPinged(w) => HasPinged(w)'
    PROVE  ChainOf(R)'
<1>1. \A v \in Workers \ R : Parked(v)'
  BY DEF Again, Reaches, ChainOf, Parked
<1>2. \A v \in Workers : HasPinged(v) => HasPinged(v)'
  BY DEF HasPinged
<1>3. \A v \in R : v[2] # 0 /\ v[1] # 0 => <<v[1], 0>> \in Workers
  BY DEF Again, Reaches, ChainOf
<1>4. QED BY <1>1, <1>2, <1>3 DEF Again, Reaches, ChainOf

\* Of a worker's steps only its signal to the next one extends the set of those
\* reached; what it copies is what the request says.
LEMMA WorkerReaches ==
    ASSUME NEW R \in SUBSET Workers, Again(R),
           NEW w \in Workers, WStep(w) \/ DmaComplete(w)
    PROVE  \E S \in SUBSET Workers : Reaches(S)'
<1> USE WorkerFacts DEF Again
<1>1. w \in R /\ Running
  <2>1. ~Parked(w)
    BY DEF WStep, WStart, WGetCtrl, WGetParams, WPing, WSetup, WTake, WEnq, WRetire,
           DmaComplete, Parked
  <2>2. QED BY <2>1, ActiveReached
<1>2. Running' /\ UNCHANGED <<req, dma_addrs>>
  BY <1>1 DEF WStep, WStart, WGetCtrl, WGetParams, WPing, WSetup, WTake, WEnq, WRetire,
              DmaComplete, Running, hostVars, mailVars, masterVars
<1>3. gpr[0] = GprOf(req) /\ dma_addrs = req.params
  BY <1>1 DEF Reaches, CopiesOf
<1>4. CASE WStart(w)
  <2>1. /\ UNCHANGED <<gpr, num_dma_trans, cmd, dma>> /\ sig[w] /\ ~sig'[w]
        /\ \A v \in Workers \ {w} : sig'[v] = sig[v] /\ pc'[v] = pc[v]
        /\ pc'[w] = IF w[2] = 0 THEN "getctrl" ELSE "ping"
    BY <1>4 DEF WStart, EntryPoint, TypeOK
  <2>2. ~HasPinged(w)
    BY <2>1 DEF HasPinged
  <2>3. ChainOf(R)'
    BY <1>1, <1>2, <2>1, <2>2, ChainKept
  <2>4. /\ \A v \in Workers \ {w} : /\ HasCtrl(v)' <=> HasCtrl(v)
                                    /\ HasParams(v)' <=> HasParams(v)
                                    /\ HasCmd(v)' <=> HasCmd(v)
        /\ ~HasCmd(w)' /\ (w[2] = 0 => ~HasCtrl(w)' /\ ~HasParams(w)')
    BY <2>1 DEF HasCtrl, HasParams, HasCmd
  <2>5. CopiesOf(R)'
    BY <1>2, <2>1, <2>4 DEF Reaches, CopiesOf, GprOf, CmdOf
  <2>6. QED BY <2>3, <2>5 DEF Reaches
<1>5. CASE WGetCtrl(w)
  <2>1. /\ UNCHANGED <<sig, num_dma_trans, cmd, dma>> /\ pc[w] = "getctrl" /\ w[2] = 0
        /\ pc' = [pc EXCEPT ![w] = "getparams"]
        /\ \A v \in Workers \ {w} : pc'[v] = pc[v]
        /\ pc'[w] = "getparams"
    BY <1>5 DEF WGetCtrl, TypeOK, Fits
  <2>2. ~HasPinged(w)
    BY <2>1 DEF HasPinged
  <2>3. ChainOf(R)'
    BY <1>1, <1>2, <2>1, <2>2, ChainKept
  <2>4. /\ \A v \in Workers \ {w} : /\ HasCtrl(v)' <=> HasCtrl(v)
                                    /\ HasParams(v)' <=> HasParams(v)
                                    /\ HasCmd(v)' <=> HasCmd(v)
        /\ ~HasCmd(w)' /\ ~HasParams(w)'
    BY <2>1 DEF HasCtrl, HasParams, HasCmd
  <2>5. /\ gpr'[0] = gpr[0]
        /\ \A v \in Workers \ {w} : v[2] = 0 => gpr'[v[1]] = gpr[v[1]]
        /\ gpr'[w[1]].test = req.test \/ num_dma_trans = 0
    <3>1. \A v \in Workers \ {w} : v[2] = 0 => v[1] # w[1]
      BY <2>1
    <3>2. 0 \in MEs
      BY DmaBwAssumption DEF MEs
    <3>3. test_ctrl = req.test \/ num_dma_trans = 0
      BY <1>1, MailboxAgain
    <3>4. QED BY <1>5, <3>1, <3>2, <3>3, GetCtrlRegs
  <2>6. CopiesOf(R)'
    BY <1>2, <1>3, <2>1, <2>4, <2>5 DEF Reaches, CopiesOf, GprOf, CmdOf
  <2>7. QED BY <2>3, <2>6 DEF Reaches
<1>6. CASE WGetParams(w)
  <2>1. /\ UNCHANGED <<sig, num_dma_trans, cmd, dma>> /\ pc[w] = "getparams" /\ w[2] = 0
        /\ \A v \in Workers \ {w} : pc'[v] = pc[v]
        /\ pc'[w] = "ping" /\ ~sig[w]
    BY <1>6 DEF WGetParams, TypeOK, Fits
  <2>2. ~HasPinged(w) /\ HasCtrl(w)
    BY <2>1 DEF HasPinged, HasCtrl
  <2>3. ChainOf(R)'
    BY <1>1, <1>2, <2>1, <2>2, ChainKept
  <2>4. /\ \A v \in Workers \ {w} : /\ HasCtrl(v)' <=> HasCtrl(v)
                                    /\ HasParams(v)' <=> HasParams(v)
                                    /\ HasCmd(v)' <=> HasCmd(v)
        /\ ~HasCmd(w)'
    BY <2>1 DEF HasCtrl, HasParams, HasCmd
  <2>5. /\ gpr'[0] = gpr[0]
        /\ \A v \in Workers \ {w} : v[2] = 0 => gpr'[v[1]] = gpr[v[1]]
        /\ gpr'[w[1]].test = gpr[w[1]].test
        /\ gpr'[w[1]].sz = req.params.sz /\ gpr'[w[1]].doff = req.params.doff
    <3>1. \A v \in Workers \ {w} : v[2] = 0 => v[1] # w[1]
      BY <2>1
    <3>2. 0 \in MEs
      BY DmaBwAssumption DEF MEs
    <3>3. test_params = req.params
      BY <1>1, MailboxAgain
    <3>4. QED BY <1>6, <3>1, <3>2, <3>3, GetParamsRegs
  <2>6. CopiesOf(R)'
    BY <1>2, <1>3, <2>1, <2>2, <2>4, <2>5 DEF Reaches, CopiesOf, GprOf, CmdOf
  <2>7. QED BY <2>3, <2>6 DEF Reaches
<1>7. CASE WPing(w) /\ ~(PingsNext(w) /\ Follower(w) \in Workers)
  <2>1. /\ UNCHANGED <<gpr, num_dma_trans, cmd, dma>> /\ ~sig[w] /\ pc[w] = "ping"
        /\ \A v \in Workers : sig'[v] = sig[v]
        /\ \A v \in Workers \ {w} : pc'[v] = pc[v]
        /\ pc'[w] = "setup"
    BY <1>7, FollowerFacts DEF WPing, TypeOK, Fits
  <2>2. ~HasPinged(w) /\ HasCtrl(w) /\ HasParams(w)
    BY <2>1 DEF HasPinged, HasCtrl, HasParams
  <2>3. ChainOf(R)'
    BY <1>1, <1>2, <2>1, <2>2, ChainKept
  <2>4. /\ \A v \in Workers \ {w} : /\ HasCtrl(v)' <=> HasCtrl(v)
                                    /\ HasParams(v)' <=> HasParams(v)
                                    /\ HasCmd(v)' <=> HasCmd(v)
        /\ ~HasCmd(w)'
    BY <2>1 DEF HasCtrl, HasParams, HasCmd
  <2>5. CopiesOf(R)'
    BY <1>2, <2>1, <2>2, <2>4 DEF Reaches, CopiesOf, GprOf, CmdOf
  <2>6. QED BY <2>3, <2>5 DEF Reaches
<1>8. CASE WPing(w) /\ PingsNext(w) /\ Follower(w) \in Workers
  <2> DEFINE f == Follower(w)
             S == R \cup {f}
  <2>1. f \notin R /\ Parked(f)
    BY <1>8, FollowerParked DEF WPing
  <2>2. /\ UNCHANGED <<gpr, num_dma_trans, cmd, dma>> /\ ~sig[w] /\ pc[w] = "ping"
        /\ \A v \in Workers \ {f} : sig'[v] = sig[v]
        /\ \A v \in Workers \ {w} : pc'[v] = pc[v]
        /\ pc'[w] = "setup" /\ sig'[f]
    BY <1>8, FollowerFacts DEF WPing, TypeOK, Fits
  <2>3. /\ f \in Workers /\ f # w /\ \A v \in Workers : Follower(v) = f => v = w
        /\ f[2] # 0 => f[1] = w[1] /\ (w[2] = 0 => w = <<f[1], 0>>)
    BY <1>8, FollowerFacts, DmaBwAssumption DEF Follower, Workers, MEs
  <2> HIDE DEF f
  <2>4. HasPinged(w)' /\ \A v \in R : HasPinged(v) => HasPinged(v)'
    BY <2>1, <2>2, <2>3 DEF HasPinged
  <2>5. \A v \in Workers \ S : Parked(v)'
    BY <1>1, <2>2 DEF Reaches, ChainOf, Parked
  <2>6. \A v \in Workers : Follower(v) \in S => v \in S /\ HasPinged(v)'
    BY <1>1, <2>3, <2>4 DEF Reaches, ChainOf
  <2>7. \A v \in S : v[2] # 0 /\ v[1] # 0 => <<v[1], 0>> \in S /\ HasPinged(<<v[1], 0>>)'
    <3> SUFFICES ASSUME NEW v \in S, v[2] # 0, v[1] # 0
                 PROVE  <<v[1], 0>> \in R /\ HasPinged(<<v[1], 0>>)'
      OBVIOUS
    <3>1. CASE v \in R
      BY <3>1, <2>4 DEF Reaches, ChainOf
    <3>2. CASE v = f /\ w[2] = 0
      BY <1>1, <2>3, <2>4, <3>2
    <3>3. CASE v = f /\ w[2] # 0
      BY <1>1, <2>3, <2>4, <3>3 DEF Reaches, ChainOf
    <3>4. QED BY <3>1, <3>2, <3>3
  <2>8. ChainOf(S)'
    BY <1>2, <2>5, <2>6, <2>7 DEF ChainOf
  <2>9. HasCtrl(w) /\ HasParams(w)
    BY <2>2 DEF HasCtrl, HasParams
  <2>10. /\ \A v \in R \ {w} : /\ HasCtrl(v)' <=> HasCtrl(v)
                               /\ HasParams(v)' <=> HasParams(v)
                               /\ HasCmd(v)' <=> HasCmd(v)
         /\ ~HasCmd(w)' /\ ~HasCtrl(f)' /\ ~HasParams(f)' /\ ~HasCmd(f)'
    BY <2>1, <2>2, <2>3 DEF HasCtrl, HasParams, HasCmd
  <2>11. CopiesOf(S)'
    BY <1>1, <1>2, <1>3, <2>2, <2>9, <2>10 DEF Reaches, CopiesOf, GprOf, CmdOf
  <2>12. S \in SUBSET Workers
    BY <2>3
  <2>13. QED BY <2>8, <2>11, <2>12 DEF Reaches
<1>9. CASE WSetup(w)
  <2>1. /\ UNCHANGED <<sig, gpr, num_dma_trans, dma>> /\ ~sig[w] /\ pc[w] = "setup"
        /\ \A v \in Workers \ {w} : pc'[v] = pc[v] /\ cmd'[v] = cmd[v]
        /\ pc'[w] = "take"
        /\ cmd'[w] = [sz |-> gpr[w[1]].sz, doff |-> gpr[w[1]].doff]
    BY <1>9 DEF WSetup, TypeOK, Fits
  <2>2. HasPinged(w) /\ HasPinged(w)' /\ HasCtrl(w) /\ HasParams(w)
    BY <2>1 DEF HasPinged, HasCtrl, HasParams
  <2>3. ChainOf(R)'
    BY <1>1, <1>2, <2>1, <2>2, ChainKept
  <2>4. cmd'[w] = CmdOf(req)
    BY <1>1, <2>1, <2>2, RegistersAgain DEF CmdOf
  <2>5. \A v \in Workers \ {w} : /\ HasCtrl(v)' <=> HasCtrl(v)
                                 /\ HasParams(v)' <=> HasParams(v)
                                 /\ HasCmd(v)' <=> HasCmd(v)
    BY <2>1 DEF HasCtrl, HasParams, HasCmd
  <2>6. CopiesOf(R)'
    BY <1>2, <2>1, <2>2, <2>4, <2>5 DEF Reaches, CopiesOf, GprOf, CmdOf
  <2>7. QED BY <2>3, <2>6 DEF Reaches
<1>10. CASE WTake(w) \/ WEnq(w) \/ WRetire(w) \/ DmaComplete(w)
  <2>1. /\ UNCHANGED <<gpr, cmd>> /\ (num_dma_trans = 0 => num_dma_trans' = 0)
        /\ \A v \in Workers : sig'[v] = sig[v]
        /\ \A v \in Workers \ {w} : pc'[v] = pc[v] /\ dma'[v] = dma[v]
        /\ pc[w] \in {"take", "enq", "dma"} /\ pc'[w] \in {"take", "enq", "dma", "wait"}
    BY <1>10 DEF WTake, WEnq, WRetire, DmaComplete, TestSub, Max2, workerVars, TypeOK, Fits
  <2>2. ~sig[w]
    BY <2>1 DEF Fits
  <2>3. /\ HasPinged(w) /\ HasPinged(w)'
        /\ \A v \in Workers : /\ HasCtrl(v)' <=> HasCtrl(v)
                              /\ HasParams(v)' <=> HasParams(v)
                              /\ HasCmd(v)' <=> HasCmd(v)
    BY <2>1, <2>2 DEF HasPinged, HasCtrl, HasParams, HasCmd
  <2>4. ChainOf(R)'
    BY <1>1, <1>2, <2>1, <2>3, ChainKept
  <2>5. CopiesOf(R)'
    BY <1>2, <2>1, <2>3 DEF Reaches, CopiesOf, GprOf, CmdOf
  <2>6. QED BY <2>4, <2>5 DEF Reaches
<1>11. QED
  BY <1>4, <1>5, <1>6, <1>7, <1>8, <1>9, <1>10 DEF WStep

\* The kick reaches the first worker, a reload or a next test takes all of them out.
LEMMA ReachesStep ==
    ASSUME NEW R \in SUBSET Workers, Again(R), [NextReuse]_vars
    PROVE  \E S \in SUBSET Workers : Reaches(S)'
<1> USE DEF Again
<1>1. ASSUME \A w \in Workers : Parked(w)' PROVE Reaches({})'
  BY <1>1 DEF Reaches, ChainOf, CopiesOf
<1>2. CASE HReload
  BY <1>1, <1>2, WorkerFacts DEF HReload, Parked
<1>3. CASE HReloadFails
  BY <1>1, <1>3 DEF HReloadFails, Drained, Parked, workerVars
<1>4. CASE QuietStep /\ ~Running
  <2>1. \A w \in Workers : Parked(w)'
    BY <1>4, ParkedBefore DEF QuietStep, Parked
  <2>2. QED BY <1>1, <2>1
<1>5. CASE QuietStep /\ Running' /\ UNCHANGED <<req, num_dma_trans, gpr, dma_addrs>>
  BY <1>5 DEF QuietStep, Reaches, ChainOf, CopiesOf, Parked, HasCtrl, HasParams, HasPinged,
              HasCmd, GprOf, CmdOf
<1>6. CASE MWake
  <2>1. UNCHANGED <<req, num_dma_trans, gpr, dma_addrs, pc, cmd, dma>> /\ Running'
    BY <1>6 DEF MWake, MailAgain, Running, hostVars, workerVars
  <2>2. \A w \in Workers : sig'[w] = sig[w]
    BY <1>6, WorkerFacts DEF MWake, TypeOK
  <2>3. Reaches(R)'
    BY <2>1, <2>2 DEF Reaches, ChainOf, CopiesOf, Parked, HasCtrl, HasParams, HasPinged,
                      HasCmd, GprOf, CmdOf
  <2>4. QED BY <2>3
<1>7. CASE MKick
  <2> DEFINE f == Follower(Master)
  <2>1. f = <<0, 1>> /\ f \in Workers /\ \A w \in Workers : Follower(w) # f
    BY FollowerFacts
  <2>2. /\ UNCHANGED <<req, gpr, dma_addrs, pc, dma>> /\ Running'
        /\ \A w \in Workers \ {f} : sig'[w] = sig[w]
        /\ sig'[f]
    BY <1>7, <2>1, WorkerFacts DEF MKick, Running, hostVars, workerVars, TypeOK
  <2>3. \A w \in Workers \ {f} : Parked(w)'
    BY <1>7, <2>2, ParkedBefore DEF MKick, Running, Parked
  <2> HIDE DEF f
  <2>4. ChainOf({f})'
    BY <2>1, <2>2, <2>3 DEF ChainOf
  <2>5. gpr[0] = GprOf(req) /\ dma_addrs = req.params
    BY <1>7 DEF MKick, MailAgain
  <2>6. CopiesOf({f})'
    BY <2>1, <2>2, <2>5 DEF CopiesOf, HasCmd, GprOf
  <2>7. QED BY <2>1, <2>4, <2>6 DEF Reaches
<1>8. ASSUME NEW w \in Workers, WStep(w) \/ DmaComplete(w)
      PROVE  \E S \in SUBSET Workers : Reaches(S)'
  BY <1>8, WorkerReaches
<1>9. QED BY <1>2, <1>3, <1>4, <1>5, <1>6, <1>7, <1>8, ReuseCases, QuietRunning

\* The invariant holds of every state when a test may run on firmware that has run
\* others before: the exit codes of nfp-nffw are ignored (nfpbench.py, 208-212).
THEOREM ReuseInvariance == SpecReuse => []ReuseInv
<1>1. Init => ReuseInv
  <2> SUFFICES ASSUME Init PROVE ReuseInv
    OBVIOUS
  <2> USE WorkerFacts DEF Init, FirmwareInit
  <2>1. TypeOK
    BY TypeInit
  <2>2. Fits
    BY DEF Fits
  <2>3. MailAgain
    BY DEF MailAgain, HostReadsOwnResult
  <2>4. CounterAgain
    BY DEF CounterAgain, Holds, Signalled
  <2>5. ArmedAgain
    BY MaxTransFacts DEF ArmedAgain, Holds, Parked
  <2>6. Issued
    BY DEF Issued, Holds, CountedDmaMatchesTest, Counts
  <2>7. Reaches({})
    BY DEF Reaches, ChainOf, CopiesOf, Parked
  <2>8. QED BY <2>1, <2>2, <2>3, <2>4, <2>5, <2>6, <2>7 DEF ReuseInv
<1>2. ReuseInv /\ [NextReuse]_vars => ReuseInv'
  <2> SUFFICES ASSUME ReuseInv, [NextReuse]_vars PROVE ReuseInv'
    OBVIOUS
  <2>1. PICK R \in SUBSET Workers : Again(R)
    BY DEF ReuseInv, Again
  <2>2. TypeOK'
    BY <2>1, TypeStep DEF Again
  <2>3. Fits' /\ MailAgain' /\ CounterAgain' /\ ArmedAgain' /\ Issued'
    BY <2>1, FitsStep, MailAgainStep, CounterAgainStep, ArmedAgainStep, IssuedStep
  <2>4. (\E S \in SUBSET Workers : Reaches(S))'
    BY <2>1, ReachesStep
  <2>5. QED BY <2>2, <2>3, <2>4 DEF ReuseInv
<1>3. QED BY <1>1, <1>2, PTL DEF SpecReuse

\* Every DMA that counts is the one asked for in this test too, although registers,
\* templates and addresses of former tests were still in place when it began
\* (dma_bw_worker, 342-366).
THEOREM DmaCorrectOnReuse == SpecReuse => []CountedDmaMatchesTest
<1>1. ReuseInv => CountedDmaMatchesTest
  BY DEF ReuseInv, Issued
<1>2. QED BY <1>1, ReuseInvariance, PTL

\* What the host has read is the answer to its own request, although the answer of
\* the former test is still in the mailbox (main.c, 109-110).
THEOREM ResultCorrectOnReuse == SpecReuse => []HostReadsOwnResult
<1>1. ReuseInv => HostReadsOwnResult
  BY DEF ReuseInv, MailAgain
<1>2. QED BY <1>1, ReuseInvariance, PTL

\* A control signal still finds who waits for it, and none is raised where one is
\* pending (NoSignalLostAgain; dma_bw_worker, 355-362 and 403-406).
THEOREM SignalsCorrectOnReuse == SpecReuse => []NoSignalLostAgain
<1>1. ReuseInv => NoSignalLostAgain
  <2> SUFFICES ASSUME ReuseInv PROVE NoSignalLostAgain
    OBVIOUS
  <2>1. ASSUME NEW w \in Workers, pc[w] = "ping", Follower(w) \in Workers
        PROVE  Parked(Follower(w))
    <3>1. PICK R \in SUBSET Workers : Reaches(R)
      BY DEF ReuseInv
    <3>2. Follower(w) \notin R
      BY <2>1, <3>1 DEF Reaches, ChainOf, HasPinged
    <3>3. QED BY <2>1, <3>1, <3>2 DEF Reaches, ChainOf
  <2>2. ASSUME NEW w \in Workers, pc[w] = "dma", trans[w] = 1
        PROVE  mpc = "wait" /\ ~sig[Master]
    <3>1. Holds(w)
      BY <2>2 DEF Holds
    <3>2. QED BY <2>2, <3>1 DEF ReuseInv, CounterAgain
  <2>3. QED BY <2>1, <2>2 DEF NoSignalLostAgain
<1>2. QED BY <1>1, ReuseInvariance, PTL

\* The answer stays as it is until the host has read all of it (AnswerStays;
\* main.c, 106-111; nfpbench.py, 435-442).
THEOREM AnswerStaysOnReuse == SpecReuse => AnswerStays
<1>1. ReuseInv /\ [NextReuse]_vars => [hpc = "poll" /\ test_ctrl <= 0 => UNCHANGED mailVars]_vars
  <2> SUFFICES ASSUME ReuseInv, [NextReuse]_vars, hpc = "poll", test_ctrl <= 0
               PROVE  UNCHANGED mailVars
    OBVIOUS
  <2>1. mpc = "poll" /\ test_ctrl \notin BwTests
    BY DEF ReuseInv, MailAgain, TypeOK, BwTests, BW_DMA_RD, BW_DMA_WR, BW_DMA_RW
  <2>2. CASE HReload \/ HReloadFails \/ HSetCtrl \/ \E t \in BwTests, p \in Params : HSetParams(t, p)
    BY <2>2 DEF HReload, HReloadFails, HSetCtrl, HSetParams
  <2>3. CASE MPoll \/ MSwitch \/ MAddrs \/ MArm \/ MKick \/ MWake \/ MResult \/ MCtrl
    BY <2>1, <2>3 DEF MPoll, MSwitch, MAddrs, MArm, MKick, MWake, MResult, MCtrl
  <2>4. CASE HFinish \/ UNCHANGED vars
    BY <2>4 DEF HFinish, vars
  <2>5. ASSUME NEW w \in Workers, WStep(w) \/ DmaComplete(w) PROVE UNCHANGED mailVars
    BY <2>5 DEF WStep, WStart, WGetCtrl, WGetParams, WPing, WSetup, WTake, WEnq, WRetire,
                DmaComplete
  <2>6. CASE [Next]_vars
    BY <2>2, <2>3, <2>4, <2>5, <2>6, StepCases
  <2>7. QED BY <2>2, <2>6 DEF NextReuse
<1>2. QED BY <1>1, ReuseInvariance, PTL DEF SpecReuse, AnswerStays

-----------------------------------------------------------------------------
(* The bandwidth test implements the pool of transactions, for every       *)
(* number of contexts and of transactions and with or without a reload     *)
(* before a test: the refinement mapping at the end of DmaBw, step by step.*)

\* The refinement mapping: what the variables of the pool are in DmaBw.
Todo     == IF PoolPhase = "idle" THEN {} ELSE 1 .. num_dma_trans
Held     == [w \in Workers |-> IF Holds(w) THEN trans[w] ELSE 0]
Finished == IF PoolPhase = "idle" THEN {}
            ELSE {i \in num_dma_trans + 1 .. MaxTrans(params) :
                     \A w \in Workers : Holds(w) => trans[w] # i}

\* The pool's actions, in terms of the mapping.
LEMMA PoolActions ==
    /\ UNCHANGED <<PoolPhase, Todo, Held, Finished>> => UNCHANGED Pool!vars
    /\ \A n \in {BwTrans, JournalSz} :
           PoolPhase = "idle" /\ PoolPhase' = "armed" /\ Todo' = 1 .. n
           /\ UNCHANGED <<Held, Finished>> => Pool!Next
    /\ \A w \in Workers, n \in Todo :
           /\ PoolPhase # "idle" /\ Held[w] = 0 /\ \A k \in Todo : k <= n
           /\ Held' = [Held EXCEPT ![w] = n] /\ Todo' = Todo \ {n}
           /\ UNCHANGED <<PoolPhase, Finished>>
           => Pool!Next
    /\ \A w \in Workers :
           /\ Held[w] # 0 /\ Held' = [Held EXCEPT ![w] = 0]
           /\ Finished' = Finished \cup {Held[w]} /\ UNCHANGED <<PoolPhase, Todo>>
           => Pool!Next
    /\ PoolPhase = "armed" /\ 1 \in Finished /\ PoolPhase' = "reported"
       /\ UNCHANGED <<Todo, Held, Finished>> => Pool!Next
    /\ PoolPhase = "reported" /\ PoolPhase' = "idle" /\ Todo' = {} /\ Finished' = {}
       /\ Held' = [w \in Workers |-> 0] => Pool!Next
<1>1. UNCHANGED <<PoolPhase, Todo, Held, Finished>> => UNCHANGED Pool!vars
  BY DEF Pool!vars, Todo, Held, Finished
<1>2. ASSUME NEW n \in {BwTrans, JournalSz}, PoolPhase = "idle", PoolPhase' = "armed",
             Todo' = 1 .. n, UNCHANGED <<Held, Finished>>
      PROVE  Pool!Next
  <2>1. Pool!Arm(n)
    BY <1>2 DEF Pool!Arm, Todo, Held, Finished
  <2>2. QED BY <2>1 DEF Pool!Next
<1>3. ASSUME NEW w \in Workers, NEW n \in Todo,
             PoolPhase # "idle", Held[w] = 0, \A k \in Todo : k <= n,
             Held' = [Held EXCEPT ![w] = n], Todo' = Todo \ {n}, UNCHANGED <<PoolPhase, Finished>>
      PROVE  Pool!Next
  <2>1. Pool!Take(w)
    BY <1>3 DEF Pool!Take, Todo, Held, Finished
  <2>2. QED BY <2>1 DEF Pool!Next
<1>4. ASSUME NEW w \in Workers, Held[w] # 0, Held' = [Held EXCEPT ![w] = 0],
             Finished' = Finished \cup {Held[w]}, UNCHANGED <<PoolPhase, Todo>>
      PROVE  Pool!Next
  <2>1. Pool!Finish(w)
    BY <1>4 DEF Pool!Finish, Todo, Held, Finished
  <2>2. QED BY <2>1 DEF Pool!Next
<1>5. ASSUME PoolPhase = "armed", 1 \in Finished, PoolPhase' = "reported",
             UNCHANGED <<Todo, Held, Finished>>
      PROVE  Pool!Next
  BY <1>5 DEF Pool!Next, Pool!Report, Todo, Held, Finished
<1>6. ASSUME PoolPhase = "reported", PoolPhase' = "idle", Todo' = {}, Finished' = {},
             Held' = [w \in Workers |-> 0]
      PROVE  Pool!Next
  BY <1>6 DEF Pool!Next, Pool!Reset, Todo, Held, Finished
<1>7. QED BY <1>1, <1>2, <1>3, <1>4, <1>5, <1>6

\* While a worker is busy the pool is armed or reported.
LEMMA BusyPhase ==
    ASSUME ReuseInv, NEW w \in Workers, ~Parked(w)
    PROVE  PoolPhase # "idle"
<1>1. Running
  BY ActiveReached DEF ReuseInv
<1>2. mpc # "poll" \/ result # Garbage
  BY DEF ReuseInv, ArmedAgain
<1>3. mpc = "wait" => res = 0
  BY DEF ReuseInv, MailAgain
<1>4. QED BY <1>1, <1>2, <1>3 DEF PoolPhase, Running

\* Before the kick, and from the host's next call on, no worker holds a transaction.
LEMMA NobodyHolds ==
    ASSUME ReuseInv, ~Running \/ PoolPhase = "idle"
    PROVE  (\A w \in Workers : ~Holds(w)) /\ Held = [w \in Workers |-> 0]
<1>1. \A w \in Workers : ~Holds(w)
  <2>1. CASE ~Running
    BY <2>1, ParkedBefore DEF ReuseInv
  <2>2. CASE PoolPhase = "idle"
    BY <2>2, BusyPhase DEF Parked, Holds
  <2>3. QED BY <2>1, <2>2
<1>2. QED BY <1>1 DEF Held

\* What does not change the counter, the parameters or who holds what changes
\* the pool at most in its phase.
LEMMA PoolStays ==
    ASSUME UNCHANGED <<num_dma_trans, params, trans>>,
           \A w \in Workers : Holds(w)' <=> Holds(w)
    PROVE  /\ UNCHANGED Held
           /\ (PoolPhase' = "idle" <=> PoolPhase = "idle") => UNCHANGED <<Todo, Finished>>
BY DEF Held, Todo, Finished, MaxTrans

\* Freshly loaded, the pool is empty.
LEMMA PoolInit == Init => Pool!Init
<1> SUFFICES ASSUME Init PROVE Pool!Init
  OBVIOUS
<1>1. PoolPhase = "idle" /\ \A w \in Workers : ~Holds(w)
  BY DEF Init, FirmwareInit, PoolPhase, Holds
<1>2. Held = [w \in Workers |-> 0] /\ Todo = {} /\ Finished = {}
  BY <1>1 DEF Held, Todo, Finished
<1>3. QED BY <1>1, <1>2 DEF Pool!Init, Pool!Empty, Held, Todo, Finished

\* Taking an index takes that number from the pool; index 0 is not in it.
LEMMA TakeStep ==
    ASSUME ReuseInv, NEW w \in Workers, WTake(w)
    PROVE  Pool!Next \/ UNCHANGED Pool!vars
<1>0. ~Parked(w) /\ UNCHANGED masterVars /\ UNCHANGED params
  BY DEF WTake, Parked, masterVars
<1>1. PoolPhase # "idle" /\ UNCHANGED PoolPhase
  BY <1>0, BusyPhase DEF PoolPhase, masterVars
<1>2. num_dma_trans \in Nat /\ MaxTrans(params) \in Nat /\ trans \in [Workers -> 0 .. TransMax]
  BY MaxTransFacts DEF ReuseInv, TypeOK
<1>3. /\ pc[w] = "take" /\ pc' = [pc EXCEPT ![w] = "enq"]
      /\ trans' = [trans EXCEPT ![w] = num_dma_trans]
      /\ num_dma_trans' = IF num_dma_trans = 0 THEN 0 ELSE num_dma_trans - 1
  BY <1>2 DEF WTake, TestSub, Max2
<1>4. /\ \A v \in Workers \ {w} : trans'[v] = trans[v] /\ (Holds(v)' <=> Holds(v))
      /\ ~Holds(w) /\ trans'[w] = num_dma_trans /\ (Holds(w)' <=> num_dma_trans >= 1)
  BY <1>2, <1>3 DEF Holds, ReuseInv, TypeOK
<1>5. CASE num_dma_trans = 0
  <2>1. UNCHANGED Held
    BY <1>4, <1>5 DEF Held
  <2>2. UNCHANGED <<num_dma_trans, params>> /\ ~Holds(w)'
    BY <1>0, <1>3, <1>4, <1>5
  <2>3. \A i : (\A v \in Workers : Holds(v)' => trans'[v] # i)
                <=> (\A v \in Workers : Holds(v) => trans[v] # i)
    BY <1>4, <2>2
  <2>4. UNCHANGED <<Todo, Finished>>
    BY <1>1, <2>2, <2>3 DEF Todo, Finished, MaxTrans
  <2>5. QED BY <1>1, <2>1, <2>4, PoolActions
<1>6. CASE num_dma_trans # 0
  <2>1. Held[w] = 0 /\ Held' = [Held EXCEPT ![w] = num_dma_trans]
    <3>1. Held[w] = 0
      BY <1>4 DEF Held
    <3>2. \A v \in Workers : Held'[v] = IF v = w THEN num_dma_trans ELSE Held[v]
      BY <1>2, <1>4, <1>6 DEF Held
    <3>3. QED BY <3>1, <3>2 DEF Held
  <2>2. /\ num_dma_trans \in Todo /\ \A k \in Todo : k <= num_dma_trans
        /\ Todo' = Todo \ {num_dma_trans}
    BY <1>1, <1>2, <1>3, <1>6 DEF Todo
  <2>3. Holds(w)' /\ trans'[w] = num_dma_trans /\ num_dma_trans' = num_dma_trans - 1
    BY <1>2, <1>3, <1>4, <1>6
  <2>4. Finished' = Finished
    <3>1. \A i \in Nat : i # num_dma_trans =>
             ((\A v \in Workers : Holds(v)' => trans'[v] # i)
              <=> (\A v \in Workers : Holds(v) => trans[v] # i))
      BY <1>4, <2>3
    <3>2. MaxTrans(params)' = MaxTrans(params)
      BY <1>0 DEF MaxTrans
    <3>3. ASSUME NEW i PROVE i \in Finished' <=> i \in Finished
      <4>1. CASE i \notin Nat \/ i = num_dma_trans
        BY <1>1, <1>2, <2>3, <3>2, <4>1 DEF Finished
      <4>2. CASE i \in Nat /\ i # num_dma_trans
        BY <1>1, <1>2, <2>3, <3>1, <3>2, <4>2 DEF Finished
      <4>3. QED BY <4>1, <4>2
    <3>4. QED BY <1>1, <3>3 DEF Finished
  <2>5. QED BY <1>1, <2>1, <2>2, <2>4, PoolActions
<1>7. QED BY <1>5, <1>6

\* A completed transaction is one that nobody works on any more.
LEMMA RetireStep ==
    ASSUME ReuseInv, NEW w \in Workers, WRetire(w)
    PROVE  Pool!Next \/ UNCHANGED Pool!vars
<1>0. ~Parked(w) /\ UNCHANGED masterVars /\ UNCHANGED <<params, num_dma_trans, trans>>
  BY DEF WRetire, Parked, masterVars
<1>1. PoolPhase # "idle" /\ UNCHANGED PoolPhase
  BY <1>0, BusyPhase DEF PoolPhase, masterVars
<1>2. num_dma_trans \in Nat /\ MaxTrans(params) \in Nat /\ trans \in [Workers -> 0 .. TransMax]
      /\ 0 .. TransMax \subseteq Nat
  BY MaxTransFacts DEF ReuseInv, TypeOK
<1>3. /\ pc[w] = "dma" /\ pc' = [pc EXCEPT ![w] = IF StopsAfter(trans[w]) THEN "wait" ELSE "take"]
  BY DEF WRetire
<1>4. /\ \A v \in Workers \ {w} : Holds(v)' <=> Holds(v)
      /\ ~Holds(w)' /\ (Holds(w) <=> trans[w] >= 1)
  BY <1>0, <1>2, <1>3 DEF Holds, ReuseInv, TypeOK
<1>5. CASE ~Holds(w)
  <2>1. \A v \in Workers : Holds(v)' <=> Holds(v)
    BY <1>4, <1>5
  <2>2. QED BY <1>0, <1>1, <2>1, PoolStays, PoolActions
<1>6. CASE Holds(w)
  <2>1. Held[w] = trans[w] /\ Held[w] # 0 /\ Held' = [Held EXCEPT ![w] = 0]
    <3>1. Held[w] = trans[w] /\ Held[w] # 0
      BY <1>2, <1>4, <1>6 DEF Held
    <3>2. \A v \in Workers : Held'[v] = IF v = w THEN 0 ELSE Held[v]
      BY <1>0, <1>4 DEF Held
    <3>3. QED BY <3>1, <3>2 DEF Held
  <2>2. UNCHANGED Todo
    BY <1>0, <1>1 DEF Todo
  <2>3. /\ trans[w] \in num_dma_trans + 1 .. MaxTrans(params)
        /\ \A v \in Workers \ {w} : Holds(v) => trans[v] # trans[w]
    BY <1>2, <1>6 DEF ReuseInv, CounterAgain, ArmedAgain
  <2>4. Finished' = Finished \cup {trans[w]}
    <3>1. \A i : (\A v \in Workers : Holds(v)' => trans'[v] # i)
                  <=> (i = trans[w] /\ \A v \in Workers \ {w} : Holds(v) => trans[v] # i)
                      \/ (\A v \in Workers : Holds(v) => trans[v] # i)
      BY <1>0, <1>4, <1>6
    <3>2. MaxTrans(params)' = MaxTrans(params) /\ num_dma_trans' = num_dma_trans
      BY <1>0 DEF MaxTrans
    <3>3. QED BY <1>1, <2>3, <3>1, <3>2 DEF Finished
  <2>5. QED BY <1>1, <2>1, <2>2, <2>4, PoolActions
<1>7. QED BY <1>5, <1>6

\* Every step of the test is a step of the pool or leaves it as it is.
LEMMA PoolStep == ReuseInv /\ [NextReuse]_vars => [Pool!Next]_Pool!vars
<1> SUFFICES ASSUME ReuseInv, [NextReuse]_vars
             PROVE  Pool!Next \/ UNCHANGED Pool!vars
  OBVIOUS
<1>0. MaxTrans(params) \in Nat \ {0} /\ Garbage \notin Nat /\ res \in {-1, 0}
  BY MaxTransFacts DEF ReuseInv, TypeOK, Garbage
<1>1. CASE HReload
  <2>1. mpc = "poll"
    BY <1>1 DEF HReload, ReuseInv, MailAgain
  <2>2. PoolPhase' = "idle" /\ \A w \in Workers : ~Holds(w)'
    BY <1>1 DEF HReload, PoolPhase, Holds
  <2>3. Todo' = {} /\ Finished' = {} /\ Held' = [w \in Workers |-> 0]
    BY <2>2 DEF Todo, Finished, Held
  <2>4. CASE PoolPhase = "idle"
    BY <2>2, <2>3, <2>4, NobodyHolds, PoolActions DEF Todo, Finished
  <2>5. CASE PoolPhase # "idle"
    <3>1. PoolPhase = "reported"
      BY <2>1, <2>5 DEF PoolPhase
    <3>2. QED BY <2>2, <2>3, <3>1, PoolActions
  <2>6. QED BY <2>4, <2>5
<1>2. CASE MPoll
  <2>1. ~Running /\ mpc = "poll" /\ mpc' = "switch" /\ UNCHANGED <<pc, trans>>
    BY <1>2 DEF MPoll, Running, workerVars, ReuseInv, TypeOK, MailAgain
  <2>2. PoolPhase' = "idle" /\ PoolPhase \in {"idle", "reported"}
    BY <2>1 DEF PoolPhase
  <2>3. Held = [w \in Workers |-> 0] /\ Held' = [w \in Workers |-> 0]
    BY <2>1, NobodyHolds DEF Held, Holds
  <2>4. Todo' = {} /\ Finished' = {} /\ (PoolPhase = "idle" => Todo = {} /\ Finished = {})
    BY <2>2 DEF Todo, Finished
  <2>5. QED BY <2>2, <2>3, <2>4, PoolActions
<1>3. CASE MArm
  <2>1. /\ mpc = "arm" /\ mpc' = "kick" /\ num_dma_trans' = MaxTrans(params)
        /\ UNCHANGED <<pc, trans, params>>
    BY <1>3 DEF MArm, workerVars
  <2>2. PoolPhase = "idle" /\ PoolPhase' = "armed"
    BY <2>1 DEF PoolPhase
  <2>3. UNCHANGED Held
    BY <2>1 DEF Held, Holds
  <2>4. Todo' = 1 .. MaxTrans(params) /\ MaxTrans(params) \in {BwTrans, JournalSz}
    BY <2>1, <2>2 DEF Todo, MaxTrans
  <2>5. MaxTrans(params)' = MaxTrans(params)
    BY <2>1 DEF MaxTrans
  <2>6. Finished = {} /\ Finished' = {}
    BY <1>0, <2>1, <2>2, <2>5 DEF Finished
  <2>7. QED BY <2>2, <2>3, <2>4, <2>6, PoolActions
<1>4. CASE \/ MSwitch \/ MAddrs \/ MKick \/ MWake \/ MResult \/ HSetCtrl \/ HFinish \/ HReloadFails
           \/ UNCHANGED vars \/ \E t \in BwTests, p \in Params : HSetParams(t, p)
  <2>1. UNCHANGED <<num_dma_trans, params, pc, trans>>
    BY <1>4 DEF MSwitch, MAddrs, MKick, MWake, MResult, HSetCtrl, HFinish, HReloadFails, HSetParams,
                vars, workerVars, masterVars
  <2>2. UNCHANGED PoolPhase
    <3>1. CASE MSwitch
      BY <3>1 DEF MSwitch, PoolPhase
    <3>2. CASE MAddrs \/ MKick
      BY <3>2 DEF MAddrs, MKick, PoolPhase
    <3>3. CASE MWake
      BY <3>3 DEF MWake, PoolPhase, ReuseInv, MailAgain
    <3>4. CASE MResult
      BY <3>4 DEF MResult, PoolPhase
    <3>5. CASE \/ HSetCtrl \/ HFinish \/ HReloadFails \/ UNCHANGED vars
               \/ \E t \in BwTests, p \in Params : HSetParams(t, p)
      <4>1. UNCHANGED <<mpc, res, result>>
        BY <3>5 DEF HSetCtrl, HFinish, HReloadFails, HSetParams, vars, masterVars
      <4>2. QED BY <4>1 DEF PoolPhase
    <3>6. QED BY <1>4, <3>1, <3>2, <3>3, <3>4, <3>5
  <2>3. \A w \in Workers : Holds(w)' <=> Holds(w)
    BY <2>1 DEF Holds
  <2>4. QED BY <2>1, <2>2, <2>3, PoolStays, PoolActions
<1>5. CASE MCtrl
  <2>1. /\ mpc = "ctrl" /\ mpc' = "poll"
        /\ UNCHANGED <<num_dma_trans, params, pc, trans, res, result>>
    BY <1>5 DEF MCtrl, workerVars
  <2>2. \A w \in Workers : Holds(w)' <=> Holds(w)
    BY <2>1 DEF Holds
  <2>3. CASE res # 0
    <3>1. PoolPhase = "idle" /\ PoolPhase' = "idle"
      BY <2>1, <2>3 DEF PoolPhase
    <3>2. QED BY <2>1, <2>2, <3>1, PoolStays, PoolActions
  <2>4. CASE res = 0
    <3>1. result # Garbage
      BY <1>0, <2>1, <2>4 DEF ReuseInv, MailAgain
    <3>2. PoolPhase = "armed" /\ PoolPhase' = "reported"
      BY <2>1, <2>4, <3>1 DEF PoolPhase
    <3>3. num_dma_trans = 0 /\ \A w \in Workers : Holds(w) => trans[w] # 1
      BY <2>1 DEF ReuseInv, CounterAgain
    <3>4. 1 \in Finished
      BY <1>0, <3>2, <3>3 DEF Finished
    <3>5. QED BY <2>1, <2>2, <3>2, <3>4, PoolStays, PoolActions
  <2>5. QED BY <2>3, <2>4
<1>6. ASSUME NEW w \in Workers, WStep(w) \/ DmaComplete(w)
      PROVE  Pool!Next \/ UNCHANGED Pool!vars
  <2>1. CASE WTake(w) \/ WRetire(w)
    BY <2>1, TakeStep, RetireStep
  <2>2. CASE ~(WTake(w) \/ WRetire(w))
    <3>1. UNCHANGED <<num_dma_trans, trans, masterVars>>
      BY <1>6, <2>2 DEF WStep, WStart, WGetCtrl, WGetParams, WPing, WSetup, WEnq,
                        DmaComplete, workerVars
    <3>2. \A v \in Workers : Holds(v)' <=> Holds(v)
      BY <1>6, <2>2, <3>1
         DEF WStep, WStart, EntryPoint, WGetCtrl, WGetParams, WPing, WSetup, WEnq,
             DmaComplete, workerVars, ReuseInv, TypeOK, Holds
    <3>3. UNCHANGED PoolPhase
      BY <3>1 DEF PoolPhase, masterVars
    <3>4. QED BY <3>1, <3>2, <3>3, PoolStays, PoolActions DEF masterVars
  <2>3. QED BY <2>1, <2>2
<1>7. CASE [Next]_vars
  BY <1>1, <1>2, <1>3, <1>4, <1>5, <1>6, <1>7, StepCases
<1>8. QED BY <1>4, <1>7 DEF NextReuse

\* A bandwidth test implements the pool also where it runs on firmware that has run
\* others: each of its transactions is taken once, the highest first, and the result
\* is reported after number 1 has completed (ImplementsPool; dma_bw_worker, 369-406).
THEOREM PoolImplementedOnReuse == SpecReuse => ImplementsPool
BY PoolInit, PoolStep, ReuseInvariance, PTL DEF SpecReuse, ImplementsPool, Pool!Spec

\* So it does where the firmware is reloaded before each test, which is a special case.
THEOREM PoolImplemented == Spec => ImplementsPool
<1>1. [Next]_vars => [NextReuse]_vars
  BY DEF NextReuse
<1>2. QED BY <1>1, PoolImplementedOnReuse, PTL DEF Spec, SpecReuse
=============================================================================
