----------------------------- MODULE StartupProofs -----------------------------
(***************************************************************************)
(* Safety of the initialisation for any number of callers and machines.    *)
(***************************************************************************)
EXTENDS Startup, TLAPS

LEMMA StagesLength == Len(Stages) = 7
  BY DEF Stages

\* The invariant holds before anyone called init().
LEMMA InitStartup == Init => StartupInv
  <1> SUFFICES ASSUME Init PROVE StartupInv
    OBVIOUS
  <1>1. TypeOK
    <2>1. built \in 0..Len(Stages)
      BY StagesLength DEF Init
    <2>2. caller \in [Callers -> {"outside", "calling", "running", "building",
                                  "returned", "ready", "refused"}]
      BY DEF Init
    <2>3. gfInitialized \in BOOLEAN /\ m_init \in BOOLEAN
      BY DEF Init
    <2> QED  BY <2>1, <2>2, <2>3, Zenon DEF Init, TypeOK
  <1>2. \A t \in Callers : caller[t] = "outside"
    BY DEF Init
  <1>3. OneRunner /\ CellMatches
    BY <1>2 DEF Init, OneRunner, CellMatches, Runners, Settled
  <1>4. InitMeansTested
    BY <1>2 DEF Init, InitMeansTested
  <1> QED  BY <1>1, <1>3, <1>4 DEF StartupInv

\* What a caller that runs the closure leaves behind when gf256_init_ returns.
LEMMA ReturnKeepsInv ==
    ASSUME StartupInv, NEW t \in Callers, NEW succeeded \in BOOLEAN,
           caller[t] \in Runners, Return(t, succeeded),
           gfInitialized' \in BOOLEAN,
           UNCHANGED <<platform, built, request>>,
           succeeded => built = Len(Stages) /\ platform.endian /\ platform.sound
    PROVE  StartupInv'
  <1> USE DEF StartupInv, Return, CellAfterRun
  <1>1. onceCell' = "full" /\ caller' = [caller EXCEPT ![t] = "returned"]
    OBVIOUS
  <1>2. m_init = FALSE /\ m_init' = succeeded
    BY DEF CellMatches, TypeOK
  <1>3. \A u \in Callers : u # t => caller'[u] = caller[u] /\ caller[u] \notin Runners
    BY <1>1 DEF OneRunner, TypeOK
  <1>4. caller'[t] = "returned"
    BY <1>1 DEF TypeOK
  <1>5. TypeOK'
    BY <1>1, <1>2 DEF TypeOK
  <1>6. OneRunner' /\ CellMatches'
    BY <1>1, <1>3, <1>4 DEF OneRunner, CellMatches, Runners, Settled
  <1>7. \A u \in Callers : caller[u] \notin Settled
    BY DEF CellMatches, Runners
  <1>8. InitMeansTested'
    BY <1>1, <1>2, <1>3, <1>4, <1>7, StagesLength DEF InitMeansTested, Settled
  <1> QED  BY <1>5, <1>6, <1>8

\* Every step keeps the invariant.
LEMMA NextKeepsInv == StartupInv /\ [Next]_vars => StartupInv'
  <1> SUFFICES ASSUME StartupInv, [Next]_vars PROVE StartupInv'
    OBVIOUS
  <1> USE DEF StartupInv
  <1>t. platform.endian \in BOOLEAN /\ platform.sound \in BOOLEAN
    BY StartupAssumption DEF TypeOK
  <1>1. ASSUME NEW t \in Callers, Call(t) PROVE StartupInv'
    BY <1>1, StagesLength DEF Call, TypeOK, OneRunner, CellMatches, InitMeansTested, Runners, Settled
  <1>2. ASSUME NEW t \in Callers, Run(t) PROVE StartupInv'
    <2>1. onceCell = "empty" /\ onceCell' = "running"
      BY <1>2 DEF Run, MayRun
    <2>2. \A u \in Callers : caller[u] \notin Runners
      BY <2>1 DEF CellMatches
    <2> QED  BY <1>2, <2>1, <2>2, StagesLength
             DEF Run, TypeOK, OneRunner, CellMatches, InitMeansTested, Runners, Settled
  <1>3. ASSUME NEW t \in Callers, EnterGf256Init(t) PROVE StartupInv'
    <2>1. gfInitialized = FALSE
      BY <1>3 DEF EnterGf256Init, CellMatches
    <2>2. CASE platform.endian
      BY <1>3, <2>1, <2>2, StagesLength
         DEF EnterGf256Init, TypeOK, OneRunner, CellMatches, InitMeansTested, Runners, Settled
    <2>3. CASE ~platform.endian
      <3>1. Return(t, FALSE) /\ gfInitialized' = TRUE /\ caller[t] = "running"
        BY <1>3, <2>1, <2>3 DEF EnterGf256Init
      <3> QED  BY <1>3, <3>1, ReturnKeepsInv DEF EnterGf256Init, Runners
    <2> QED  BY <2>2, <2>3
  <1>4. ASSUME NEW t \in Callers, Build(t) PROVE StartupInv'
    <2>1. m_init = FALSE
      BY <1>4 DEF Build, CellMatches, Runners
    <2> QED  BY <1>4, <2>1, StagesLength
             DEF Build, TypeOK, OneRunner, CellMatches, InitMeansTested, Runners, Settled
  <1>5. ASSUME NEW t \in Callers, SelfTest(t) PROVE StartupInv'
    <2>1. caller[t] \in Runners /\ platform.endian /\ gfInitialized' \in BOOLEAN
      BY <1>5 DEF SelfTest, CellMatches, Runners, TypeOK
    <2> QED  BY <1>5, <1>t, <2>1, ReturnKeepsInv DEF SelfTest
  <1>6. ASSUME NEW t \in Callers, Wait(t) PROVE StartupInv'
    BY <1>6, StagesLength DEF Wait, TypeOK, OneRunner, CellMatches, InitMeansTested, Runners, Settled
  <1>7. ASSUME NEW t \in Callers, Create(t) PROVE StartupInv'
    BY <1>7, StagesLength DEF Create, TypeOK, OneRunner, CellMatches, InitMeansTested, Runners, Settled
  <1>8. ASSUME NEW r \in Requests, Ask(r) PROVE StartupInv'
    BY <1>8 DEF Ask, TypeOK, OneRunner, CellMatches, InitMeansTested, Runners, Settled
  <1>9. CASE Answer
    BY <1>9 DEF Answer, TypeOK, OneRunner, CellMatches, InitMeansTested, Runners, Settled
  <1>10. CASE UNCHANGED vars
    BY <1>10 DEF vars, TypeOK, OneRunner, CellMatches, InitMeansTested, Runners, Settled
  <1> QED  BY <1>1, <1>2, <1>3, <1>4, <1>5, <1>6, <1>7, <1>8, <1>9, <1>10 DEF Next

\* The initialisation keeps its invariant, whoever calls init() and when.
THEOREM StartupInvariant == Spec => []StartupInv
  <1> QED  BY InitStartup, NextKeepsInv, PTL DEF Spec

\* Every variable keeps its type.
THEOREM StartupTypeCorrect == Spec => []TypeOK
  <1>1. StartupInv => TypeOK
    BY DEF StartupInv
  <1> QED  BY <1>1, StartupInvariant, PTL

\* No table is read before gf256_init_ has built and tested all of them, nor
\* while another thread is still inside it.
THEOREM TablesReady == Spec => []TablesReadyWhenUsed
  <1>1. StartupInv => TablesReadyWhenUsed
    BY DEF StartupInv, TablesReadyWhenUsed, OneRunner, CellMatches, InitMeansTested, Runners, Settled
  <1> QED  BY <1>1, StartupInvariant, PTL

\* The constructors of one process are all served or all refused.
THEOREM CallersAlwaysAgree == Spec => []CallersAgree
  <1>1. StartupInv => CallersAgree
    BY DEF StartupInv, CallersAgree, InitMeansTested
  <1> QED  BY <1>1, StartupInvariant, PTL
=============================================================================
