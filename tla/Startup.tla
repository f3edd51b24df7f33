------------------------------- MODULE Startup -------------------------------
(***************************************************************************)
(* How the tables come to be before anyone reads them.                     *)
(*                                                                         *)
(* Every constructor of the library calls sankaku_core::init, a OnceLock   *)
(* around wirehair_init_, which calls gf256_init_: that one raises its own *)
(* flag first and builds the tables after.  The constructor then goes on   *)
(* to wirehair_encoder_create or wirehair_decoder_create, which refuse     *)
(* unless m_init is set, and otherwise reads the tables without a lock.    *)
(*                                                                         *)
(* Once ready, the callers make requests of the tables and the helpers;    *)
(* module Tables says what these compute.                                  *)
(***************************************************************************)
EXTENDS Integers, Sequences

CONSTANTS
  Callers,       \* threads that construct encoders, decoders or sessions
  Platforms,     \* [cpu, endian, sound]: processor, byte order, self-test's verdict
  Requests       \* [kind, size]

ASSUME StartupAssumption ==
  /\ Platforms \subseteq [cpu : STRING, endian : BOOLEAN, sound : BOOLEAN]
  /\ Requests \subseteq [kind : STRING, size : Nat]

VARIABLES
  platform,      \* the machine the process runs on
  onceCell,      \* WIREHAIR_INIT: "empty", "running" or "full"
  gfInitialized, \* gf256.cpp: Initialized
  built,         \* how many of the stages of gf256_init_ are complete
  m_init,        \* wirehair.cpp: m_init
  caller,        \* where each caller is
  request        \* what the ready callers ask, or Idle

vars == <<platform, onceCell, gfInitialized, built, m_init, caller, request>>

Idle == [kind |-> "idle", size |-> 0]

Stages == <<"architecture", "poly", "explog", "muldiv", "inv", "sqr", "mul_mem">>

-----------------------------------------------------------------------------
Init ==
  /\ platform \in Platforms
  /\ onceCell = "empty"
  /\ gfInitialized = FALSE
  /\ built = 0
  /\ m_init = FALSE
  /\ caller = [t \in Callers |-> "outside"]
  /\ request = Idle

MayRunUnguarded(cell) == cell # "full"
(* OnceLock::get_or_init: the first caller runs the closure, callers that come *)
(* while it runs wait, later ones return at once.                              *)
MayRun(cell) == cell = "empty"

RetryAfterFailure(succeeded) == IF succeeded THEN "full" ELSE "empty"
StuckAfterFailure(succeeded) == IF succeeded THEN "full" ELSE "running"
CellAfterRun(succeeded) == "full"

(* init() is called: the version the bindings pass is the library's. *)
Call(t) ==
  /\ caller[t] = "outside"
  /\ caller' = [caller EXCEPT ![t] = "calling"]
  /\ UNCHANGED <<platform, onceCell, gfInitialized, built, m_init, request>>

Run(t) ==
  /\ caller[t] = "calling"
  /\ MayRun(onceCell)
  /\ onceCell' = "running"
  /\ caller' = [caller EXCEPT ![t] = "running"]
  /\ UNCHANGED <<platform, gfInitialized, built, m_init, request>>

(* What wirehair_init_ and the OnceLock do with the result of gf256_init_. *)
Return(t, succeeded) ==
  /\ m_init' = (m_init \/ succeeded)
  /\ onceCell' = CellAfterRun(succeeded)
  /\ caller' = [caller EXCEPT ![t] = "returned"]

(* gf256_init_: a second call returns 0 at once; a wrong byte order is -2. *)
EnterGf256Init(t) ==
  /\ caller[t] = "running"
  /\ IF gfInitialized
     THEN Return(t, TRUE) /\ UNCHANGED gfInitialized
     ELSE /\ gfInitialized' = TRUE
          /\ IF platform.endian
             THEN /\ caller' = [caller EXCEPT ![t] = "building"]
                  /\ UNCHANGED <<onceCell, m_init>>
             ELSE Return(t, FALSE)
  /\ UNCHANGED <<platform, built, request>>

BuildOneMore(t) ==
  /\ caller[t] = "building"
  /\ built <= Len(Stages)
  /\ built' = built + 1
  /\ UNCHANGED <<platform, onceCell, gfInitialized, m_init, caller, request>>

(* gf256_architecture_init to gf256_mul_mem_init, one after the other. *)
Build(t) ==
  /\ caller[t] = "building"
  /\ built < Len(Stages)
  /\ built' = built + 1
  /\ UNCHANGED <<platform, onceCell, gfInitialized, m_init, caller, request>>

SelfTest(t) ==
  /\ caller[t] = "building"
  /\ built = Len(Stages)
  /\ Return(t, platform.sound)
  /\ UNCHANGED <<platform, gfInitialized, built, request>>

Wait(t) ==
  /\ caller[t] = "calling"
  /\ onceCell = "full"
  /\ caller' = [caller EXCEPT ![t] = "returned"]
  /\ UNCHANGED <<platform, onceCell, gfInitialized, built, m_init, request>>

(* The check of m_init in wirehair_encoder_create and wirehair_decoder_create. *)
Create(t) ==
  /\ caller[t] = "returned"
  /\ caller' = [caller EXCEPT ![t] = IF m_init THEN "ready" ELSE "refused"]
  /\ UNCHANGED <<platform, onceCell, gfInitialized, built, m_init, request>>

Ask(r) ==
  /\ \A t \in Callers : caller[t] = "ready"
  /\ request = Idle
  /\ request' = r
  /\ UNCHANGED <<platform, onceCell, gfInitialized, built, m_init, caller>>

Answer ==
  /\ request # Idle
  /\ request' = Idle
  /\ UNCHANGED <<platform, onceCell, gfInitialized, built, m_init, caller>>

Next ==
  \/ \E t \in Callers : \/ Call(t) \/ Run(t) \/ EnterGf256Init(t) \/ Build(t)
                        \/ SelfTest(t) \/ Wait(t) \/ Create(t)
  \/ \E r \in Requests : Ask(r)
  \/ Answer

(* A thread that is not blocked goes on; nobody has to call or to ask. *)
Fairness ==
  \A t \in Callers : WF_vars(Run(t) \/ EnterGf256Init(t) \/ Build(t) \/ SelfTest(t)
                             \/ Wait(t) \/ Create(t))

Spec == Init /\ [][Next]_vars /\ Fairness

-----------------------------------------------------------------------------
TypeOK ==
  /\ platform \in Platforms
  /\ onceCell \in {"empty", "running", "full"}
  /\ gfInitialized \in BOOLEAN /\ m_init \in BOOLEAN
  /\ built \in 0..Len(Stages)
  /\ caller \in [Callers -> {"outside", "calling", "running", "building",
                             "returned", "ready", "refused"}]
  /\ request \in Requests \cup {Idle}

Runners == {"running", "building"}
Settled == {"returned", "ready", "refused"}

(* The closure of the OnceLock runs in one thread, once. *)
OneRunner ==
  \A t, u \in Callers : caller[t] \in Runners /\ caller[u] \in Runners => t = u

(* What the state of the OnceLock says about the callers and the flags. *)
CellMatches ==
  /\ onceCell # "full" => /\ m_init = FALSE
                          /\ \A t \in Callers : caller[t] \notin Settled
  /\ onceCell = "empty" => gfInitialized = FALSE
  /\ \A t \in Callers : caller[t] \in Runners => onceCell = "running"
  /\ \A t \in Callers : caller[t] = "running" => gfInitialized = FALSE
  /\ \A t \in Callers : caller[t] = "building" => platform.endian

(* m_init speaks for complete and tested tables, and decides every creation. *)
InitMeansTested ==
  /\ m_init => built = Len(Stages) /\ platform.endian /\ platform.sound
  /\ \A t \in Callers : (caller[t] = "ready" => m_init) /\ (caller[t] = "refused" => ~m_init)

(* Whoever calls init() and when: one thread at most is inside gf256_init_, the *)
(* cell and the flags tell how far it is, and m_init speaks for tested tables.   *)
StartupInv == TypeOK /\ OneRunner /\ CellMatches /\ InitMeansTested

(* No caller reads a table before all of them are built and tested, or while   *)
(* another thread still writes: gf256_init_ raises Initialized before it has    *)
(* built anything, so a second run of wirehair_init_ would succeed too early.   *)
TablesReadyWhenUsed ==
  \A t \in Callers : caller[t] = "ready" =>
    /\ built = Len(Stages) /\ platform.endian /\ platform.sound
    /\ \A u \in Callers : caller[u] \notin {"running", "building"}

(* On a machine that fails the self-test every constructor is refused, however *)
(* often it is tried: no caller is ready while another was refused.            *)
CallersAgree ==
  \A t, u \in Callers : ~(caller[t] = "ready" /\ caller[u] = "refused")

(* Every call of init() comes back, also when the initialisation fails. *)
InitReturns ==
  \A t \in Callers : caller[t] = "calling" ~> caller[t] \in {"ready", "refused"}
=============================================================================
