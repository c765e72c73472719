-------------------------- MODULE ControllerProofs ---------------------------
(***************************************************************************)
(* Theorems about Controller for any number of patchers, emulators and     *)
(* nested scopes: while nothing has gone wrong every scope body is mocked, *)
(* sees its own data only, and the process is restored afterwards.         *)
(***************************************************************************)
EXTENDS Controller, TLAPS

Starting == {"reset_on_open", "install_http", "install_aiohttp",
             "start_patchers", "start_emulators"}
Stopping == {"stop_emulators", "stop_patchers", "remove_aiohttp",
             "remove_http", "reset_on_close"}

(* depth counts the scopes of the test, except while start and stop run.   *)
Counted ==
  /\ pc = "user" => depth = scopes
  /\ pc \in Starting => depth = 1 /\ scopes = 0
  /\ pc \in Stopping => depth = 0 /\ scopes = 0

(* The variables of the emulators below n are redirected, and what the     *)
(* user had in them is remembered; the others are as the user left them.   *)
Redirected(n) ==
  \A e \in Emulators :
    IF e \in available /\ e < n THEN e \in booted /\ prev[e] = userEnv[e]
                                ELSE env[e] = userEnv[e]

(* How far start and stop have come, by the statement they are at. *)
Installed ==
  /\ http <=> \/ pc \in {"install_aiohttp", "start_patchers", "start_emulators"}
              \/ pc = "user" /\ scopes > 0
              \/ pc \in {"stop_emulators", "stop_patchers", "remove_aiohttp", "remove_http"}
  /\ aio <=> \/ pc \in {"start_patchers", "start_emulators"}
             \/ pc = "user" /\ scopes > 0
             \/ pc \in {"stop_emulators", "stop_patchers", "remove_aiohttp"}

PatchersInForce ==
  /\ pc = "start_patchers" =>
       i \in 1..(NumPatchers + 1) /\ patched = 1..(i - 1) /\ patchers = NumPatchers
  /\ \/ pc \in {"start_emulators", "stop_emulators"}
     \/ pc = "user" /\ scopes > 0
     => patched = Patchers /\ patchers = NumPatchers
  /\ pc = "stop_patchers" => i \in 0..NumPatchers /\ patched = 1..i
  /\ \/ pc \in {"reset_on_open", "install_http", "install_aiohttp",
                "remove_aiohttp", "remove_http", "reset_on_close"}
     \/ pc = "user" /\ scopes = 0
     => patched = {}

EmulatorsInForce ==
  /\ pc = "start_emulators" =>
       /\ i \in 1..(NumEmulators + 1) /\ emulators = i - 1
       /\ Redirected(i)
       /\ \A e \in available : e < i => env[e] = Local
  /\ pc = "user" /\ scopes > 0 =>
       /\ emulators = NumEmulators
       /\ Redirected(NumEmulators + 1)
       /\ \A e \in available \ touched : env[e] = Local
  /\ pc = "stop_emulators" => i \in 0..NumEmulators /\ Redirected(i + 1)
  /\ \/ pc \in (Starting \ {"start_emulators"}) \union (Stopping \ {"stop_emulators"})
     \/ pc = "user" /\ scopes = 0
     => env = userEnv

(* Nothing is stored, and no call is under way, but in a scope and while   *)
(* it closes.                                                              *)
OwnDataOnly ==
  /\ pc \in Starting \/ (pc = "user" /\ scopes = 0) => data = {} /\ calls = {}
  /\ data \subseteq {epoch} /\ calls \subseteq {epoch}

(* An outermost scope was opened before anything else could happen, and    *)
(* the patchers are counted from 1.                                        *)
Begun ==
  /\ epoch <= MaxEpoch
  /\ pc # "user" \/ scopes > 0 => epoch # 0
  /\ pc = "start_patchers" => i # 0

(* Stray calls leave the mocks alone. *)
Unharmed == faults \subseteq {"stray"}

IInv ==
  /\ TypeOK /\ Begun
  /\ Unharmed => Counted /\ Installed /\ PatchersInForce /\ EmulatorsInForce
  /\ faults = {} => OwnDataOnly

------------------------------------------------------------------------------
LEMMA InitInv == Init => IInv
<1> SUFFICES ASSUME Init PROVE IInv
  OBVIOUS
<1> USE ControllerAssumption DEF Init
<1>1. TypeOK
  <2>1. /\ env \in [Emulators -> EnvValue] /\ prev \in [Emulators -> EnvValue]
        /\ userEnv \in [Emulators -> EnvValue]
    BY DEF EnvValue
  <2>2. /\ patched \subseteq Patchers
        /\ booted \subseteq available /\ available \subseteq Emulators
        /\ data \subseteq 1..epoch /\ calls \subseteq 1..epoch
        /\ touched \subseteq Emulators
        /\ faults \subseteq {"start", "setup", "stray"}
    OBVIOUS
  <2>3. depth = 0 /\ scopes = 0 /\ epoch = 0 /\ i = 0 /\ patchers = 0
    OBVIOUS
  <2>4. emulators \in 0..NumEmulators
    OBVIOUS
  <2>5. http \in BOOLEAN /\ aio \in BOOLEAN
    OBVIOUS
  <2>6. pc = "user" /\ frame = "sync" /\ coro = "none"
    OBVIOUS
  <2> HIDE DEF Init
  <2> QED
    BY <2>1, <2>2, <2>3, <2>4, <2>5, <2>6 DEF TypeOK
<1>2. Counted /\ Installed /\ PatchersInForce /\ EmulatorsInForce
  BY DEF Counted, Installed, PatchersInForce, EmulatorsInForce, Starting, Stopping
<1>3. OwnDataOnly /\ Begun
  BY DEF OwnDataOnly, Begun, Starting
<1> QED
  BY <1>1, <1>2, <1>3 DEF IInv

LEMMA StepType ==
  ASSUME TypeOK, Begun, [Next]_vars
  PROVE  TypeOK' /\ Begun'
<1> USE ControllerAssumption DEF TypeOK, Begun, Patchers, Emulators, EnvValue, mocks, emus, ghost, asyn
<1>1. ASSUME NEW kind \in {"sync", "async"}, Open(kind)
      PROVE  TypeOK' /\ Begun'
  BY <1>1 DEF Open, UserCode
<1>2. CASE ResetOnOpen
  BY <1>2 DEF ResetOnOpen, ResetBackends
<1>3. CASE InstallHttp
  BY <1>3 DEF InstallHttp
<1>4. CASE InstallAiohttp
  BY <1>4 DEF InstallAiohttp, PatchAiohttp
<1>5. CASE StartPatcher
  BY <1>5 DEF StartPatcher
<1>6. CASE PatchersStarted
  BY <1>6 DEF PatchersStarted
<1>7. CASE StartEmulator
  <2>1. env' \in [Emulators -> EnvValue] /\ prev' \in [Emulators -> EnvValue]
    BY <1>7 DEF StartEmulator, Importable
  <2>2. booted' \subseteq available'
    BY <1>7 DEF StartEmulator, Importable
  <2>3. emulators' \in 0..NumEmulators
    BY <1>7 DEF StartEmulator
  <2> HIDE DEF Emulators, EnvValue
  <2> QED
    BY <1>7, <2>1, <2>2, <2>3 DEF StartEmulator
<1>8. CASE Opened
  BY <1>8 DEF Opened
<1>9. CASE OpenRaises
  BY <1>9 DEF OpenRaises
<1>10. CASE Close
  BY <1>10 DEF Close, Outermost
<1>11. CASE StopEmulator
  BY <1>11 DEF StopEmulator
<1>12. CASE EmulatorsStopped
  BY <1>12 DEF EmulatorsStopped
<1>13. CASE StopPatcher
  BY <1>13 DEF StopPatcher
<1>14. CASE PatchersStopped
  BY <1>14 DEF PatchersStopped
<1>15. CASE RemoveAiohttp
  BY <1>15 DEF RemoveAiohttp, RestoreAiohttp
<1>16. CASE RemoveHttp
  BY <1>16 DEF RemoveHttp
<1>17. CASE ResetOnClose
  BY <1>17 DEF ResetOnClose, ResetBackends
<1>18. CASE Call
  BY <1>18 DEF Call, UserCode
<1>19. CASE IssueCall
  BY <1>19 DEF IssueCall, UserCode
<1>20. CASE ExecuteCall
  BY <1>20 DEF ExecuteCall
<1>21. CASE SetEnv
  BY <1>21 DEF SetEnv, UserCode
<1>22. CASE SetUpRaises
  BY <1>22 DEF SetUpRaises, UserCode
<1>23. CASE AwaitBody
  BY <1>23 DEF AwaitBody
<1>24. CASE BodyEnds
  BY <1>24 DEF BodyEnds
<1>25. CASE UNCHANGED vars
  BY <1>25 DEF vars
<1> QED
  BY <1>1, <1>2, <1>3, <1>4, <1>5, <1>6, <1>7, <1>8, <1>9, <1>10, <1>11, <1>12, <1>13, <1>14, <1>15, <1>16, <1>17, <1>18, <1>19, <1>20, <1>21, <1>22, <1>23, <1>24, <1>25
  DEF Next, Start, Stop, User

LEMMA StepCounted ==
  ASSUME TypeOK, Begun, Unharmed', Unharmed => Counted /\ Installed, [Next]_vars
  PROVE  Counted' /\ Installed'
<1> USE ControllerAssumption DEF TypeOK, Begun, Unharmed, Counted, Installed, Starting, Stopping, mocks, emus, ghost, asyn
<1>1. ASSUME NEW kind \in {"sync", "async"}, Open(kind)
      PROVE  Counted' /\ Installed'
  BY <1>1 DEF Open, UserCode
<1>2. CASE ResetOnOpen
  BY <1>2 DEF ResetOnOpen, ResetBackends
<1>3. CASE InstallHttp
  BY <1>3 DEF InstallHttp
<1>4. CASE InstallAiohttp
  BY <1>4 DEF InstallAiohttp, PatchAiohttp
<1>5. CASE StartPatcher
  BY <1>5 DEF StartPatcher
<1>6. CASE PatchersStarted
  BY <1>6 DEF PatchersStarted
<1>7. CASE StartEmulator
  BY <1>7 DEF StartEmulator, Importable
<1>8. CASE Opened
  BY <1>8 DEF Opened
<1>9. CASE OpenRaises
  BY <1>9 DEF OpenRaises
<1>10. CASE Close
  BY <1>10 DEF Close, Outermost
<1>11. CASE StopEmulator
  BY <1>11 DEF StopEmulator
<1>12. CASE EmulatorsStopped
  BY <1>12 DEF EmulatorsStopped
<1>13. CASE StopPatcher
  BY <1>13 DEF StopPatcher
<1>14. CASE PatchersStopped
  BY <1>14 DEF PatchersStopped
<1>15. CASE RemoveAiohttp
  BY <1>15 DEF RemoveAiohttp, RestoreAiohttp
<1>16. CASE RemoveHttp
  BY <1>16 DEF RemoveHttp
<1>17. CASE ResetOnClose
  BY <1>17 DEF ResetOnClose, ResetBackends
<1>18. CASE Call
  BY <1>18 DEF Call, UserCode
<1>19. CASE IssueCall
  BY <1>19 DEF IssueCall, UserCode
<1>20. CASE ExecuteCall
  BY <1>20 DEF ExecuteCall
<1>21. CASE SetEnv
  BY <1>21 DEF SetEnv, UserCode
<1>22. CASE SetUpRaises
  BY <1>22 DEF SetUpRaises, UserCode
<1>23. CASE AwaitBody
  BY <1>23 DEF AwaitBody
<1>24. CASE BodyEnds
  BY <1>24 DEF BodyEnds
<1>25. CASE UNCHANGED vars
  BY <1>25 DEF vars
<1> QED
  BY <1>1, <1>2, <1>3, <1>4, <1>5, <1>6, <1>7, <1>8, <1>9, <1>10, <1>11, <1>12, <1>13, <1>14, <1>15, <1>16, <1>17, <1>18, <1>19, <1>20, <1>21, <1>22, <1>23, <1>24, <1>25
  DEF Next, Start, Stop, User

LEMMA StepPatchers ==
  ASSUME TypeOK, Begun, Unharmed', Unharmed => Counted /\ PatchersInForce, [Next]_vars
  PROVE  PatchersInForce'
<1> USE ControllerAssumption DEF TypeOK, Begun, Unharmed, Counted, PatchersInForce, Starting, Stopping, Patchers, mocks, emus, ghost, asyn
<1>1. ASSUME NEW kind \in {"sync", "async"}, Open(kind)
      PROVE  PatchersInForce'
  BY <1>1 DEF Open, UserCode
<1>2. CASE ResetOnOpen
  BY <1>2 DEF ResetOnOpen, ResetBackends
<1>3. CASE InstallHttp
  BY <1>3 DEF InstallHttp
<1>4. CASE InstallAiohttp
  BY <1>4 DEF InstallAiohttp, PatchAiohttp
<1>5. CASE StartPatcher
  BY <1>5 DEF StartPatcher
<1>6. CASE PatchersStarted
  BY <1>6 DEF PatchersStarted
<1>7. CASE StartEmulator
  BY <1>7 DEF StartEmulator, Importable
<1>8. CASE Opened
  BY <1>8 DEF Opened
<1>9. CASE OpenRaises
  BY <1>9 DEF OpenRaises
<1>10. CASE Close
  BY <1>10 DEF Close, Outermost
<1>11. CASE StopEmulator
  BY <1>11 DEF StopEmulator
<1>12. CASE EmulatorsStopped
  BY <1>12 DEF EmulatorsStopped
<1>13. CASE StopPatcher
  BY <1>13 DEF StopPatcher
<1>14. CASE PatchersStopped
  BY <1>14 DEF PatchersStopped
<1>15. CASE RemoveAiohttp
  BY <1>15 DEF RemoveAiohttp, RestoreAiohttp
<1>16. CASE RemoveHttp
  BY <1>16 DEF RemoveHttp
<1>17. CASE ResetOnClose
  BY <1>17 DEF ResetOnClose, ResetBackends
<1>18. CASE Call
  BY <1>18 DEF Call, UserCode
<1>19. CASE IssueCall
  BY <1>19 DEF IssueCall, UserCode
<1>20. CASE ExecuteCall
  BY <1>20 DEF ExecuteCall
<1>21. CASE SetEnv
  BY <1>21 DEF SetEnv, UserCode
<1>22. CASE SetUpRaises
  BY <1>22 DEF SetUpRaises, UserCode
<1>23. CASE AwaitBody
  BY <1>23 DEF AwaitBody
<1>24. CASE BodyEnds
  BY <1>24 DEF BodyEnds
<1>25. CASE UNCHANGED vars
  BY <1>25 DEF vars
<1> QED
  BY <1>1, <1>2, <1>3, <1>4, <1>5, <1>6, <1>7, <1>8, <1>9, <1>10, <1>11, <1>12, <1>13, <1>14, <1>15, <1>16, <1>17, <1>18, <1>19, <1>20, <1>21, <1>22, <1>23, <1>24, <1>25
  DEF Next, Start, Stop, User

LEMMA StepEmulators ==
  ASSUME TypeOK, Begun, Unharmed', Unharmed => Counted /\ EmulatorsInForce, [Next]_vars
  PROVE  EmulatorsInForce'
<1> USE ControllerAssumption DEF TypeOK, Begun, Unharmed, Counted, EmulatorsInForce, Redirected, Emulators, EnvValue, Starting, Stopping, mocks, emus, ghost, asyn
<1>1. ASSUME NEW kind \in {"sync", "async"}, Open(kind)
      PROVE  EmulatorsInForce'
  BY <1>1 DEF Open, UserCode
<1>2. CASE ResetOnOpen
  BY <1>2 DEF ResetOnOpen, ResetBackends
<1>3. CASE InstallHttp
  BY <1>3 DEF InstallHttp
<1>4. CASE InstallAiohttp
  BY <1>4 DEF InstallAiohttp, PatchAiohttp
<1>5. CASE StartPatcher
  BY <1>5 DEF StartPatcher
<1>6. CASE PatchersStarted
  BY <1>6 DEF PatchersStarted
<1>7. CASE StartEmulator
  BY <1>7 DEF StartEmulator, Importable
<1>8. CASE Opened
  BY <1>8 DEF Opened
<1>9. CASE OpenRaises
  BY <1>9 DEF OpenRaises
<1>10. CASE Close
  BY <1>10 DEF Close, Outermost
<1>11. CASE StopEmulator
  BY <1>11 DEF StopEmulator
<1>12. CASE EmulatorsStopped
  BY <1>12 DEF EmulatorsStopped
<1>13. CASE StopPatcher
  BY <1>13 DEF StopPatcher
<1>14. CASE PatchersStopped
  BY <1>14 DEF PatchersStopped
<1>15. CASE RemoveAiohttp
  BY <1>15 DEF RemoveAiohttp, RestoreAiohttp
<1>16. CASE RemoveHttp
  BY <1>16 DEF RemoveHttp
<1>17. CASE ResetOnClose
  BY <1>17 DEF ResetOnClose, ResetBackends
<1>18. CASE Call
  BY <1>18 DEF Call, UserCode
<1>19. CASE IssueCall
  BY <1>19 DEF IssueCall, UserCode
<1>20. CASE ExecuteCall
  BY <1>20 DEF ExecuteCall
<1>21. CASE SetEnv
  <2>1. PICK e \in Emulators, host \in Hosts \union {Unset} :
          /\ env' = [env EXCEPT ![e] = host]
          /\ userEnv' = IF scopes = 0 \/ e \notin available
                          THEN [userEnv EXCEPT ![e] = host] ELSE userEnv
          /\ touched' = IF scopes = 0 THEN touched ELSE touched \union {e}
    BY <1>21 DEF SetEnv
  <2>2. CASE scopes = 0
    <3>1. pc = "user" /\ env = userEnv
      BY <1>21, <2>2 DEF SetEnv, UserCode
    <3>2. env' = userEnv'
      BY <2>1, <2>2, <3>1
    <3> QED
      BY <1>21, <2>2, <3>1, <3>2 DEF SetEnv
  <2>3. CASE scopes > 0
    <3>1. Redirected(NumEmulators + 1)'
      BY <1>21, <2>1, <2>3 DEF SetEnv, UserCode
    <3>2. \A f \in available' \ touched' : env'[f] = Local
      BY <1>21, <2>1, <2>3 DEF SetEnv, UserCode
    <3> QED
      BY <1>21, <2>3, <3>1, <3>2 DEF SetEnv, UserCode
  <2> QED
    BY <2>2, <2>3
<1>22. CASE SetUpRaises
  BY <1>22 DEF SetUpRaises, UserCode
<1>23. CASE AwaitBody
  BY <1>23 DEF AwaitBody
<1>24. CASE BodyEnds
  BY <1>24 DEF BodyEnds
<1>25. CASE UNCHANGED vars
  BY <1>25 DEF vars
<1> QED
  BY <1>1, <1>2, <1>3, <1>4, <1>5, <1>6, <1>7, <1>8, <1>9, <1>10, <1>11, <1>12, <1>13, <1>14, <1>15, <1>16, <1>17, <1>18, <1>19, <1>20, <1>21, <1>22, <1>23, <1>24, <1>25
  DEF Next, Start, Stop, User

LEMMA StepData ==
  ASSUME TypeOK, Begun, faults' = {}, faults = {} => Counted /\ OwnDataOnly, [Next]_vars
  PROVE  OwnDataOnly'
<1> USE ControllerAssumption DEF TypeOK, Begun, OwnDataOnly, Counted, Starting, Stopping, mocks, emus, ghost, asyn
<1>1. ASSUME NEW kind \in {"sync", "async"}, Open(kind)
      PROVE  OwnDataOnly'
  BY <1>1 DEF Open, UserCode
<1>2. CASE ResetOnOpen
  BY <1>2 DEF ResetOnOpen, ResetBackends
<1>3. CASE InstallHttp
  BY <1>3 DEF InstallHttp
<1>4. CASE InstallAiohttp
  BY <1>4 DEF InstallAiohttp, PatchAiohttp
<1>5. CASE StartPatcher
  BY <1>5 DEF StartPatcher
<1>6. CASE PatchersStarted
  BY <1>6 DEF PatchersStarted
<1>7. CASE StartEmulator
  BY <1>7 DEF StartEmulator, Importable
<1>8. CASE Opened
  BY <1>8 DEF Opened
<1>9. CASE OpenRaises
  BY <1>9 DEF OpenRaises
<1>10. CASE Close
  BY <1>10 DEF Close, Outermost
<1>11. CASE StopEmulator
  BY <1>11 DEF StopEmulator
<1>12. CASE EmulatorsStopped
  BY <1>12 DEF EmulatorsStopped
<1>13. CASE StopPatcher
  BY <1>13 DEF StopPatcher
<1>14. CASE PatchersStopped
  BY <1>14 DEF PatchersStopped
<1>15. CASE RemoveAiohttp
  BY <1>15 DEF RemoveAiohttp, RestoreAiohttp
<1>16. CASE RemoveHttp
  BY <1>16 DEF RemoveHttp
<1>17. CASE ResetOnClose
  BY <1>17 DEF ResetOnClose, ResetBackends
<1>18. CASE Call
  BY <1>18 DEF Call, UserCode
<1>19. CASE IssueCall
  BY <1>19 DEF IssueCall, UserCode
<1>20. CASE ExecuteCall
  BY <1>20 DEF ExecuteCall
<1>21. CASE SetEnv
  BY <1>21 DEF SetEnv, UserCode
<1>22. CASE SetUpRaises
  BY <1>22 DEF SetUpRaises, UserCode
<1>23. CASE AwaitBody
  BY <1>23 DEF AwaitBody
<1>24. CASE BodyEnds
  BY <1>24 DEF BodyEnds
<1>25. CASE UNCHANGED vars
  BY <1>25 DEF vars
<1> QED
  BY <1>1, <1>2, <1>3, <1>4, <1>5, <1>6, <1>7, <1>8, <1>9, <1>10, <1>11, <1>12, <1>13, <1>14, <1>15, <1>16, <1>17, <1>18, <1>19, <1>20, <1>21, <1>22, <1>23, <1>24, <1>25
  DEF Next, Start, Stop, User

LEMMA StepInv == IInv /\ [Next]_vars => IInv'
<1> SUFFICES ASSUME IInv, [Next]_vars PROVE IInv'
  OBVIOUS
<1>1. TypeOK /\ Begun
  BY DEF IInv
<1>2. TypeOK' /\ Begun'
  BY <1>1, StepType
<1>3. ASSUME Unharmed' PROVE (Counted /\ Installed /\ PatchersInForce /\ EmulatorsInForce)'
  <2>1. Counted' /\ Installed'
    BY <1>1, <1>3, StepCounted DEF IInv
  <2>2. PatchersInForce'
    BY <1>1, <1>3, StepPatchers DEF IInv
  <2>3. EmulatorsInForce'
    BY <1>1, <1>3, StepEmulators DEF IInv
  <2> QED
    BY <2>1, <2>2, <2>3
<1>4. ASSUME faults' = {} PROVE OwnDataOnly'
  <2>1. faults = {} => Counted /\ OwnDataOnly
    BY DEF IInv, Unharmed
  <2> QED
    BY <1>1, <1>4, <2>1, StepData
<1> QED
  BY <1>2, <1>3, <1>4 DEF IInv

LEMMA Invariant == Spec => []IInv
  BY InitInv, StepInv, PTL DEF Spec

(* Every variable of the model has its type in every reachable state, for  *)
(* any number of patchers, emulators, scopes and faults.                   *)
THEOREM TypeCorrect == Spec => []TypeOK
<1>1. IInv => TypeOK
  BY DEF IInv
<1> QED
  BY <1>1, Invariant, PTL

(* However deeply scopes are nested, and whatever RPCs outlive them, code  *)
(* that runs inside one runs against every mock DrongoController.start     *)
(* installs, as long as no start and no setUp has raised.                  *)
THEOREM ScopesAreMocked == Spec => []ScopeMocked
<1>1. IInv => ScopeMocked
  BY DEF IInv, Unharmed, ScopeMocked, Mocked, Installed, PatchersInForce,
         EmulatorsInForce
<1> QED
  BY <1>1, Invariant, PTL

(* A test reads only what was written since its own outermost scope        *)
(* opened, as long as nothing has raised and no RPC has outlived a scope.  *)
THEOREM ScopesAreIsolated == Spec => []Isolated
<1>1. IInv => Isolated
  BY DEF IInv, Unharmed, Isolated, OwnDataOnly
<1> QED
  BY <1>1, Invariant, PTL

(* When the outermost scope has closed the process is as it would be had   *)
(* drongo never run: nothing patched, nothing stored, and each             *)
(* *_EMULATOR_HOST variable holds what the user gave it.                   *)
THEOREM ProcessIsRestored == Spec => []Restored
<1>1. IInv => Restored
  BY DEF IInv, Unharmed, Restored, Unmocked, Installed, PatchersInForce,
         EmulatorsInForce, OwnDataOnly, Starting, Stopping
<1> QED
  BY <1>1, Invariant, PTL

------------------------------------------------------------------------------
(* Whatever raises, depth stays at least the number of open scopes, and    *)
(* start and stop go past their first line only when none is open.         *)
Nested ==
  /\ depth \in Nat /\ scopes \in Nat /\ scopes <= depth
  /\ pc \in Starting => depth > 0
  /\ pc # "user" => scopes = 0

LEMMA StepNested ==
  ASSUME Nested, pc \in Starting \union Stopping \union {"user"}, [Next]_vars
  PROVE  Nested'
<1> USE ControllerAssumption DEF Nested, Starting, Stopping, mocks, emus, ghost, asyn
<1>1. ASSUME NEW kind \in {"sync", "async"}, Open(kind)
      PROVE  Nested'
  BY <1>1 DEF Open, UserCode
<1>2. CASE ResetOnOpen
  BY <1>2 DEF ResetOnOpen, ResetBackends
<1>3. CASE InstallHttp
  BY <1>3 DEF InstallHttp
<1>4. CASE InstallAiohttp
  BY <1>4 DEF InstallAiohttp, PatchAiohttp
<1>5. CASE StartPatcher
  BY <1>5 DEF StartPatcher
<1>6. CASE PatchersStarted
  BY <1>6 DEF PatchersStarted
<1>7. CASE StartEmulator
  BY <1>7 DEF StartEmulator, Importable
<1>8. CASE Opened
  BY <1>8 DEF Opened
<1>9. CASE OpenRaises
  BY <1>9 DEF OpenRaises
<1>10. CASE Close
  BY <1>10 DEF Close, Outermost
<1>11. CASE StopEmulator
  BY <1>11 DEF StopEmulator
<1>12. CASE EmulatorsStopped
  BY <1>12 DEF EmulatorsStopped
<1>13. CASE StopPatcher
  BY <1>13 DEF StopPatcher
<1>14. CASE PatchersStopped
  BY <1>14 DEF PatchersStopped
<1>15. CASE RemoveAiohttp
  BY <1>15 DEF RemoveAiohttp, RestoreAiohttp
<1>16. CASE RemoveHttp
  BY <1>16 DEF RemoveHttp
<1>17. CASE ResetOnClose
  BY <1>17 DEF ResetOnClose, ResetBackends
<1>18. CASE Call
  BY <1>18 DEF Call, UserCode
<1>19. CASE IssueCall
  BY <1>19 DEF IssueCall, UserCode
<1>20. CASE ExecuteCall
  BY <1>20 DEF ExecuteCall
<1>21. CASE SetEnv
  BY <1>21 DEF SetEnv, UserCode
<1>22. CASE SetUpRaises
  BY <1>22 DEF SetUpRaises, UserCode
<1>23. CASE AwaitBody
  BY <1>23 DEF AwaitBody
<1>24. CASE BodyEnds
  BY <1>24 DEF BodyEnds
<1>25. CASE UNCHANGED vars
  BY <1>25 DEF vars
<1> QED
  BY <1>1, <1>2, <1>3, <1>4, <1>5, <1>6, <1>7, <1>8, <1>9, <1>10, <1>11, <1>12, <1>13, <1>14, <1>15, <1>16, <1>17, <1>18, <1>19, <1>20, <1>21, <1>22, <1>23, <1>24, <1>25
  DEF Next, Start, Stop, User

LEMMA NestedInvariant == Spec => []Nested
<1>1. Init => Nested
  BY DEF Init, Nested, Starting
<1>2. TypeOK /\ Nested /\ [Next]_vars => Nested'
  BY StepNested DEF TypeOK, Starting, Stopping
<1> QED
  BY <1>1, <1>2, TypeCorrect, PTL DEF Spec

(* No step of start, stop or anything else takes the mocks or the data     *)
(* away from a scope that stays open, even after a start or a setUp that   *)
(* raised: they leave depth too high, never too low.                       *)
THEOREM OpenScopesKeepState == Spec => OpenScopesUndisturbed
<1> DEFINE Kept == (Mocked => Mocked') /\ data \subseteq data'
<1>1. ASSUME Nested, [Next]_vars, scopes > 0, scopes' > 0 PROVE Kept
  <2>1. pc = "user" /\ depth > 0 /\ (depth = 1 => scopes = 1)
    BY <1>1 DEF Nested
  <2>2. \/ UNCHANGED <<http, aio, patched, env, touched, available>> /\ data \subseteq data'
        \/ SetEnv
    BY <1>1, <2>1
    DEF Next, Start, Stop, User, vars, mocks, emus, ghost, asyn, Open, ResetOnOpen,
        InstallHttp, InstallAiohttp, StartPatcher, PatchersStarted, StartEmulator,
        Opened, OpenRaises, Close, Outermost, StopEmulator, EmulatorsStopped,
        StopPatcher, PatchersStopped, RemoveAiohttp, RemoveHttp, ResetOnClose,
        Call, IssueCall, ExecuteCall, SetUpRaises, AwaitBody, BodyEnds
  <2>3. CASE UNCHANGED <<http, aio, patched, env, touched, available>> /\ data \subseteq data'
    BY <2>3 DEF Mocked
  <2>4. CASE SetEnv
    BY <1>1, <2>4 DEF SetEnv, Mocked, mocks
  <2> QED
    BY <2>2, <2>3, <2>4
<1>2. Nested /\ [Next]_vars => [scopes > 0 /\ scopes' > 0 => Kept]_vars
  BY <1>1
<1> QED
  BY <1>2, NestedInvariant, PTL DEF Spec, OpenScopesUndisturbed

------------------------------------------------------------------------------
(* The scope contract's view of a state: the number of open scopes, and    *)
(* what is stored while there are any.                                     *)
Viewed ==
  /\ scopes \in Nat
  /\ (scopes > 0 /\ Mocked) = (scopes > 0)
  /\ scopes > 0 => pc = "user" /\ depth = scopes
  /\ epoch \in Nat /\ (scopes > 0 => epoch \in 1..MaxEpoch)
  /\ pc \in Starting \/ (pc = "user" /\ scopes = 0) => data = {}

LEMMA View == IInv /\ faults = {} => Viewed
<1> SUFFICES ASSUME IInv, faults = {} PROVE Viewed
  OBVIOUS
<1>1. scopes \in Nat /\ epoch \in Nat
  BY DEF IInv, TypeOK
<1>2. scopes > 0 => pc = "user" /\ depth = scopes
  BY <1>1 DEF IInv, TypeOK, Unharmed, Counted, Starting, Stopping
<1>3. scopes > 0 => Mocked
  BY <1>2 DEF IInv, Unharmed, Mocked, Installed, PatchersInForce, EmulatorsInForce
<1>4. scopes > 0 => epoch \in 1..MaxEpoch
  BY <1>1, ControllerAssumption DEF IInv, Begun
<1>5. pc \in Starting \/ (pc = "user" /\ scopes = 0) => data = {}
  BY DEF IInv, OwnDataOnly
<1> QED
  BY <1>1, <1>2, <1>3, <1>4, <1>5 DEF Viewed

LEMMA InitRefines == Init => Contract!Init
  BY DEF Init, Contract!Init

LEMMA StepRefines ==
  ASSUME IInv, faults = {} => Viewed, faults' = {} => Viewed', [Next]_vars
  PROVE  [Contract!Next \/ faults' # {}]_(Contract!scopeVars)
<1> SUFFICES ASSUME faults' = {}
             PROVE  Contract!Next \/ UNCHANGED Contract!scopeVars
  OBVIOUS
<1>1. faults = {}
  BY DEF Next, Start, Stop, User, vars, mocks, emus, ghost, asyn, Open, ResetOnOpen,
         InstallHttp, InstallAiohttp, StartPatcher, PatchersStarted, StartEmulator,
         Opened, OpenRaises, Close, StopEmulator, EmulatorsStopped, StopPatcher,
         PatchersStopped, RemoveAiohttp, RemoveHttp, ResetOnClose, Call, IssueCall,
         ExecuteCall, SetEnv, SetUpRaises, AwaitBody, BodyEnds
<1>2. Viewed
  BY <1>1
<1>3. Viewed'
  OBVIOUS
<1>4. ASSUME scopes' = scopes, scopes > 0 => data' = data
      PROVE  UNCHANGED Contract!scopeVars
  BY <1>2, <1>3, <1>4 DEF Viewed, Contract!scopeVars
<1>5. ASSUME scopes' = scopes + 1, data' = data, scopes > 0 \/ data = {}
      PROVE  Contract!Next
  BY <1>2, <1>3, <1>5 DEF Viewed, Contract!Next, Contract!Enter
<1>6. ASSUME NEW e \in 1..MaxEpoch, scopes > 0, scopes' = scopes, data' = data \union {e}
      PROVE  Contract!Next
  BY <1>2, <1>3, <1>6 DEF Viewed, Contract!Next, Contract!Write
<1>7. ASSUME scopes > 0, scopes' = scopes - 1, data' = data
      PROVE  Contract!Next
  BY <1>2, <1>3, <1>7 DEF Viewed, Contract!Next, Contract!Leave
<1>8. CASE pc # "user"
  <2>1. scopes = 0
    BY <1>2, <1>8 DEF Viewed
  <2>2. CASE Opened
    <3>1. data = {}
      BY <1>2, <2>2 DEF Opened, Viewed, Starting
    <3> QED
      BY <1>5, <2>2, <3>1 DEF Opened
  <2>3. CASE ~Opened
    <3>1. scopes' = scopes
      BY <1>8, <2>1, <2>3
      DEF Next, Start, Stop, User, vars, ResetOnOpen, InstallHttp, InstallAiohttp,
          StartPatcher, PatchersStarted, StartEmulator, OpenRaises, StopEmulator,
          EmulatorsStopped, StopPatcher, PatchersStopped, RemoveAiohttp, RemoveHttp,
          ResetOnClose, ExecuteCall, Open, Close, Call, IssueCall, SetEnv,
          SetUpRaises, AwaitBody, BodyEnds, UserCode
    <3> QED
      BY <1>4, <2>1, <3>1
  <2> QED
    BY <2>2, <2>3
<1>9. CASE pc = "user"
  <2>1. ASSUME NEW kind \in {"sync", "async"}, Open(kind)
        PROVE  Contract!Next \/ UNCHANGED Contract!scopeVars
    <3>1. CASE scopes > 0
      BY <1>2, <1>5, <1>9, <2>1, <3>1 DEF Open, Viewed
    <3>2. CASE scopes = 0
      <4>1. data = {} /\ (depth = 0 => scopes' = scopes)
        BY <1>2, <1>9, <2>1, <3>2 DEF Open, Viewed
      <4>2. depth > 0 => scopes' = scopes + 1
        BY <2>1 DEF Open
      <4>3. depth \in Nat /\ data' = data
        BY <2>1 DEF Open, IInv, TypeOK
      <4> QED
        BY <1>4, <1>5, <3>2, <4>1, <4>2, <4>3
    <3> QED
      BY <1>2, <3>1, <3>2 DEF Viewed
  <2>2. CASE Close
    BY <1>7, <2>2 DEF Close
  <2>3. CASE Call
    BY <1>2, <1>6, <2>3 DEF Call, UserCode, Viewed
  <2>4. CASE ExecuteCall
    <3>1. PICK e \in calls : data' = data \union {e}
      BY <2>4 DEF ExecuteCall
    <3>2. scopes' = scopes
      BY <2>4 DEF ExecuteCall
    <3>3. e \in 1..epoch
      BY DEF IInv, TypeOK
    <3>4. scopes > 0 => e \in 1..MaxEpoch
      BY <1>2, <3>3, ControllerAssumption DEF Viewed
    <3> QED
      BY <1>2, <1>4, <1>6, <3>1, <3>2, <3>4 DEF Viewed
  <2>5. CASE IssueCall \/ SetEnv \/ AwaitBody \/ BodyEnds \/ UNCHANGED vars
    BY <1>4, <2>5 DEF IssueCall, SetEnv, AwaitBody, BodyEnds, vars
  <2>6. ~SetUpRaises
    BY DEF SetUpRaises
  <2>7. ~Start /\ ~Stop
    BY <1>9
    DEF Start, Stop, ResetOnOpen, InstallHttp, InstallAiohttp, StartPatcher,
        PatchersStarted, StartEmulator, Opened, OpenRaises, StopEmulator,
        EmulatorsStopped, StopPatcher, PatchersStopped, RemoveAiohttp, RemoveHttp,
        ResetOnClose
  <2> QED
    BY <2>1, <2>2, <2>3, <2>4, <2>5, <2>6, <2>7 DEF Next, User
<1> QED
  BY <1>8, <1>9

(* Until something goes wrong, start, stop and the code between them       *)
(* implement the scope contract: nested scopes share one store, which is   *)
(* empty when the outermost opens and gone when it closes.                 *)
THEOREM ControllerIsScope == Spec => ImplementsScope
<1>1. Spec => [](faults = {} => Viewed)
  BY Invariant, View, PTL
<1>2. IInv /\ (faults = {} => Viewed) /\ (faults = {} => Viewed)' /\ [Next]_vars
        => [Contract!Next \/ faults' # {}]_(Contract!scopeVars)
  BY StepRefines
<1> QED
  BY <1>1, <1>2, Invariant, InitRefines, PTL DEF Spec, ImplementsScope
==============================================================================
