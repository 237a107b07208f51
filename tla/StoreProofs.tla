----------------------------- MODULE StoreProofs -----------------------------
(***************************************************************************)
(* The configuration and its listeners, for any configurations, any number *)
(* of saving threads and any failures and crashes.                         *)
(***************************************************************************)
EXTENDS Store, TLAPS

StoreSpec == StoreInit /\ [][StoreNext]_storeVars

Replacing == {"lans", "clients", "open", "write"}
Notifying == {"listeners", "bind", "routes", "apply"}
StorePCs  == {"idle", "down", "read", "parse"} \cup Replacing \cup Notifying
Contents  == Documents \cup {<<>>, Torn}

StoreShape == /\ storePc \in [Threads -> StorePCs]
              /\ storeDoc \in [Threads -> Contents]
              /\ keysOf \in Contents /\ lansOf \in Contents /\ clientsOf \in Contents
              /\ file \in Contents
              /\ writers \subseteq Threads
              /\ failed \in BOOLEAN /\ overlapped \in BOOLEAN

(* Until the server has started nobody saves, and what is loaded is put in *)
(* force without failing on the way to the ports.                          *)
BootAlone == /\ storePc[Boot] # "idle" => \A t \in Savers : storePc[t] = "down"
             /\ storePc[Boot] \in {"idle", "down", "read", "parse", "bind"} \cup Replacing
             /\ \A t \in Savers : storePc[t] # "read"
             /\ storePc[Boot] = "idle" => \A t \in Savers : storePc[t] # "down"
             /\ storePc[Boot] \in {"clients", "open", "write", "bind"}
                => lansOf = storeDoc[Boot]

(* What replaces the maps and the file was accepted by the loop.           *)
Accepted == /\ \A t \in Threads :
                 /\ storePc[t] \in Replacing \cup {"parse"} => storeDoc[t] # Torn
                 /\ storePc[t] \in Replacing => Valid(storeDoc[t])
            /\ storePc[Boot] = "parse" => Valid(storeDoc[Boot])
            /\ \A d \in {keysOf, lansOf, clientsOf} \cup ({file} \ {Torn}) : Valid(d)

FilesOpen  == writers \subseteq {t \in Threads : storePc[t] = "write"}
PortsBound == bound \cap (TakenPorts \cup BadPorts) = {}

(* The ports in force are bound, or a thread has still to bind them.       *)
PortsFollow ==
  ~failed /\ storePc[Boot] = "idle" =>
    \/ Ports(lansOf) \ TakenPorts \subseteq bound
    \/ \E t \in Threads : storePc[t] \in Replacing \cup {"listeners"}
    \/ \E t \in Threads : storePc[t] = "bind" /\ storeDoc[t] = lansOf

(* The routes are those in force, or a thread has still to look at what is *)
(* in force; nobody applies what was replaced unless such a thread follows.*)
Pending(t) == storePc[t] \in Replacing \cup {"listeners", "bind", "routes"}
RoutesFollow ==
  ~failed /\ storePc[Boot] = "idle" =>
    \/ \E t \in Threads : Pending(t)
    \/ /\ routed = <<keysOf, lansOf>> \/ \E t \in Threads : storePc[t] = "apply"
       /\ \A t \in Threads : storePc[t] = "apply" => storeDoc[t] = keysOf

(* One update at a time: how far it has come.                              *)
OneUpdate ==
  ~overlapped =>
    /\ \A s, t \in Busy : s = t
    /\ ~failed => \A t \in Threads :
         /\ storePc[t] \in Replacing => keysOf = storeDoc[t]
         /\ storePc[t] \in {"clients", "open", "write"} => lansOf = storeDoc[t]
         /\ storePc[t] \in {"open", "write"} => clientsOf = storeDoc[t]
         /\ storePc[t] = "write" => file \in {<<>>, storeDoc[t]}
         /\ storePc[t] \in Notifying
            => keysOf = lansOf /\ lansOf = clientsOf /\ clientsOf = file
    /\ ~failed /\ storePc[Boot] = "idle" /\ (\A t \in Busy : storePc[t] = "parse")
       => keysOf = lansOf /\ lansOf = clientsOf /\ clientsOf = file

StoreInv == /\ StoreShape /\ BootAlone /\ Accepted /\ FilesOpen /\ PortsBound
            /\ PortsFollow /\ RoutesFollow /\ OneUpdate

USE StoreAssumption
------------------------------------------------------------------------------
LEMMA EmptyIsValid == Valid(<<>>)
BY DEF Valid

LEMMA StoreInitInv == StoreInit => StoreInv
<1> SUFFICES ASSUME StoreInit PROVE StoreInv OBVIOUS
<1> USE EmptyIsValid DEF StoreInit, Threads
<1>1. StoreShape BY DEF StoreShape, StorePCs, Contents
<1>2. BootAlone /\ Accepted BY DEF BootAlone, Accepted, Replacing
<1>3. FilesOpen /\ PortsBound /\ PortsFollow /\ RoutesFollow
  BY DEF FilesOpen, PortsBound, PortsFollow, RoutesFollow
<1>4. OneUpdate BY DEF OneUpdate, Busy, Replacing, Notifying
<1> QED BY <1>1, <1>2, <1>3, <1>4 DEF StoreInv

(* Every variable keeps its type.                                          *)
LEMMA ShapeStep == ASSUME StoreInv, [StoreNext]_storeVars PROVE StoreShape'
<1> USE EmptyIsValid DEF StoreInv, StoreShape, StorePCs, Replacing, Notifying, Contents,
    Threads, Step, Busy, memory, notes, storeVars, Accepted
<1>1. ASSUME NEW t \in Savers, Save(t) PROVE StoreShape' BY <1>1 DEF Save
<1>2. ASSUME NEW t \in Threads, Reject(t) PROVE StoreShape' BY <1>2 DEF Reject
<1>3. ASSUME NEW t \in Threads, ReplaceKeys(t) PROVE StoreShape' BY <1>3 DEF ReplaceKeys
<1>4. ASSUME NEW t \in Threads, ReplaceLans(t) PROVE StoreShape' BY <1>4 DEF ReplaceLans
<1>5. ASSUME NEW t \in Threads, ReplaceClients(t) PROVE StoreShape'
  BY <1>5 DEF ReplaceClients
<1>6. ASSUME NEW t \in Threads, OpenFile(t) PROVE StoreShape' BY <1>6 DEF OpenFile
<1>7. ASSUME NEW t \in Threads, WriteFile(t) PROVE StoreShape' BY <1>7 DEF WriteFile
<1>8. ASSUME NEW t \in Threads, FileFails(t) PROVE StoreShape'
  BY <1>8 DEF FileFails, Ended
<1>9. ASSUME NEW t \in Threads, SnapshotPorts(t) PROVE StoreShape'
  BY <1>9 DEF SnapshotPorts
<1>10. ASSUME NEW t \in Threads, BindPorts(t) PROVE StoreShape' BY <1>10 DEF BindPorts
<1>11. ASSUME NEW t \in Threads, BindThrows(t) PROVE StoreShape'
  BY <1>11 DEF BindThrows, BindSome, Ended
<1>12. ASSUME NEW t \in Threads, SnapshotKeys(t) PROVE StoreShape'
  BY <1>12 DEF SnapshotKeys
<1>13. ASSUME NEW t \in Threads, ChangeRoutes(t) PROVE StoreShape'
  BY <1>13 DEF ChangeRoutes
<1>14. CASE Load BY <1>14 DEF Load
<1>15. CASE Start BY <1>15 DEF Start
<1>16. CASE CrashStore BY <1>16 DEF CrashStore
<1>17. CASE UNCHANGED storeVars BY <1>17
<1> QED BY <1>1, <1>2, <1>3, <1>4, <1>5, <1>6, <1>7, <1>8, <1>9, <1>10, <1>11, <1>12,
    <1>13, <1>14, <1>15, <1>16, <1>17 DEF StoreNext

(* Nobody saves before the server has started.                             *)
LEMMA BootStep == ASSUME StoreInv, [StoreNext]_storeVars PROVE BootAlone'
<1> USE EmptyIsValid DEF StoreInv, StoreShape, StorePCs, Replacing, Notifying, Contents,
    Threads, Step, Busy, memory, notes, storeVars, BootAlone, Accepted
<1>1. ASSUME NEW t \in Savers, Save(t) PROVE BootAlone' BY <1>1 DEF Save
<1>2. ASSUME NEW t \in Threads, Reject(t) PROVE BootAlone' BY <1>2 DEF Reject
<1>3. ASSUME NEW t \in Threads, ReplaceKeys(t) PROVE BootAlone' BY <1>3 DEF ReplaceKeys
<1>4. ASSUME NEW t \in Threads, ReplaceLans(t) PROVE BootAlone' BY <1>4 DEF ReplaceLans
<1>5. ASSUME NEW t \in Threads, ReplaceClients(t) PROVE BootAlone'
  BY <1>5 DEF ReplaceClients
<1>6. ASSUME NEW t \in Threads, OpenFile(t) PROVE BootAlone' BY <1>6 DEF OpenFile
<1>7. ASSUME NEW t \in Threads, WriteFile(t) PROVE BootAlone' BY <1>7 DEF WriteFile
<1>8. ASSUME NEW t \in Threads, FileFails(t) PROVE BootAlone' BY <1>8 DEF FileFails, Ended
<1>9. ASSUME NEW t \in Threads, SnapshotPorts(t) PROVE BootAlone'
  BY <1>9 DEF SnapshotPorts
<1>10. ASSUME NEW t \in Threads, BindPorts(t) PROVE BootAlone' BY <1>10 DEF BindPorts
<1>11. ASSUME NEW t \in Threads, BindThrows(t) PROVE BootAlone'
  BY <1>11 DEF BindThrows, BindSome, Ended
<1>12. ASSUME NEW t \in Threads, SnapshotKeys(t) PROVE BootAlone'
  BY <1>12 DEF SnapshotKeys
<1>13. ASSUME NEW t \in Threads, ChangeRoutes(t) PROVE BootAlone'
  BY <1>13 DEF ChangeRoutes
<1>14. CASE Load BY <1>14 DEF Load
<1>15. CASE Start BY <1>15 DEF Start
<1>16. CASE CrashStore BY <1>16 DEF CrashStore
<1>17. CASE UNCHANGED storeVars BY <1>17
<1> QED BY <1>1, <1>2, <1>3, <1>4, <1>5, <1>6, <1>7, <1>8, <1>9, <1>10, <1>11, <1>12,
    <1>13, <1>14, <1>15, <1>16, <1>17 DEF StoreNext

(* Only configurations without a second key or port are put in force.      *)
LEMMA AcceptedStep == ASSUME StoreInv, [StoreNext]_storeVars PROVE Accepted'
<1> USE EmptyIsValid DEF StoreInv, StoreShape, StorePCs, Replacing, Notifying, Contents,
    Threads, Step, Busy, memory, notes, storeVars, Accepted
<1>1. ASSUME NEW t \in Savers, Save(t) PROVE Accepted' BY <1>1 DEF Save
<1>2. ASSUME NEW t \in Threads, Reject(t) PROVE Accepted' BY <1>2 DEF Reject
<1>3. ASSUME NEW t \in Threads, ReplaceKeys(t) PROVE Accepted' BY <1>3 DEF ReplaceKeys
<1>4. ASSUME NEW t \in Threads, ReplaceLans(t) PROVE Accepted' BY <1>4 DEF ReplaceLans
<1>5. ASSUME NEW t \in Threads, ReplaceClients(t) PROVE Accepted'
  BY <1>5 DEF ReplaceClients
<1>6. ASSUME NEW t \in Threads, OpenFile(t) PROVE Accepted' BY <1>6 DEF OpenFile
<1>7. ASSUME NEW t \in Threads, WriteFile(t) PROVE Accepted' BY <1>7 DEF WriteFile
<1>8. ASSUME NEW t \in Threads, FileFails(t) PROVE Accepted' BY <1>8 DEF FileFails, Ended
<1>9. ASSUME NEW t \in Threads, SnapshotPorts(t) PROVE Accepted' BY <1>9 DEF SnapshotPorts
<1>10. ASSUME NEW t \in Threads, BindPorts(t) PROVE Accepted' BY <1>10 DEF BindPorts
<1>11. ASSUME NEW t \in Threads, BindThrows(t) PROVE Accepted'
  BY <1>11 DEF BindThrows, BindSome, Ended
<1>12. ASSUME NEW t \in Threads, SnapshotKeys(t) PROVE Accepted' BY <1>12 DEF SnapshotKeys
<1>13. ASSUME NEW t \in Threads, ChangeRoutes(t) PROVE Accepted' BY <1>13 DEF ChangeRoutes
<1>14. CASE Load BY <1>14 DEF Load
<1>15. CASE Start BY <1>15 DEF Start
<1>16. CASE CrashStore BY <1>16 DEF CrashStore
<1>17. CASE UNCHANGED storeVars BY <1>17
<1> QED BY <1>1, <1>2, <1>3, <1>4, <1>5, <1>6, <1>7, <1>8, <1>9, <1>10, <1>11, <1>12,
    <1>13, <1>14, <1>15, <1>16, <1>17 DEF StoreNext

(* The file is open only while it is written.                              *)
LEMMA FilesStep == ASSUME StoreInv, [StoreNext]_storeVars PROVE FilesOpen'
<1> USE EmptyIsValid DEF StoreInv, StoreShape, StorePCs, Replacing, Notifying, Contents,
    Threads, Step, Busy, memory, notes, storeVars, FilesOpen, BootAlone
<1>1. ASSUME NEW t \in Savers, Save(t) PROVE FilesOpen' BY <1>1 DEF Save
<1>2. ASSUME NEW t \in Threads, Reject(t) PROVE FilesOpen' BY <1>2 DEF Reject
<1>3. ASSUME NEW t \in Threads, ReplaceKeys(t) PROVE FilesOpen' BY <1>3 DEF ReplaceKeys
<1>4. ASSUME NEW t \in Threads, ReplaceLans(t) PROVE FilesOpen' BY <1>4 DEF ReplaceLans
<1>5. ASSUME NEW t \in Threads, ReplaceClients(t) PROVE FilesOpen'
  BY <1>5 DEF ReplaceClients
<1>6. ASSUME NEW t \in Threads, OpenFile(t) PROVE FilesOpen' BY <1>6 DEF OpenFile
<1>7. ASSUME NEW t \in Threads, WriteFile(t) PROVE FilesOpen' BY <1>7 DEF WriteFile
<1>8. ASSUME NEW t \in Threads, FileFails(t) PROVE FilesOpen' BY <1>8 DEF FileFails, Ended
<1>9. ASSUME NEW t \in Threads, SnapshotPorts(t) PROVE FilesOpen'
  BY <1>9 DEF SnapshotPorts
<1>10. ASSUME NEW t \in Threads, BindPorts(t) PROVE FilesOpen' BY <1>10 DEF BindPorts
<1>11. ASSUME NEW t \in Threads, BindThrows(t) PROVE FilesOpen'
  BY <1>11 DEF BindThrows, BindSome, Ended
<1>12. ASSUME NEW t \in Threads, SnapshotKeys(t) PROVE FilesOpen'
  BY <1>12 DEF SnapshotKeys
<1>13. ASSUME NEW t \in Threads, ChangeRoutes(t) PROVE FilesOpen'
  BY <1>13 DEF ChangeRoutes
<1>14. CASE Load BY <1>14 DEF Load
<1>15. CASE Start BY <1>15 DEF Start
<1>16. CASE CrashStore BY <1>16 DEF CrashStore
<1>17. CASE UNCHANGED storeVars BY <1>17
<1> QED BY <1>1, <1>2, <1>3, <1>4, <1>5, <1>6, <1>7, <1>8, <1>9, <1>10, <1>11, <1>12,
    <1>13, <1>14, <1>15, <1>16, <1>17 DEF StoreNext

(* A port that cannot be bound is not taken for bound.                     *)
LEMMA BoundStep == ASSUME StoreInv, [StoreNext]_storeVars PROVE PortsBound'
<1> USE EmptyIsValid DEF StoreInv, StoreShape, StorePCs, Replacing, Notifying, Contents,
    Threads, Step, Busy, memory, notes, storeVars, PortsBound
<1>1. ASSUME NEW t \in Savers, Save(t) PROVE PortsBound' BY <1>1 DEF Save
<1>2. ASSUME NEW t \in Threads, Reject(t) PROVE PortsBound' BY <1>2 DEF Reject
<1>3. ASSUME NEW t \in Threads, ReplaceKeys(t) PROVE PortsBound' BY <1>3 DEF ReplaceKeys
<1>4. ASSUME NEW t \in Threads, ReplaceLans(t) PROVE PortsBound' BY <1>4 DEF ReplaceLans
<1>5. ASSUME NEW t \in Threads, ReplaceClients(t) PROVE PortsBound'
  BY <1>5 DEF ReplaceClients
<1>6. ASSUME NEW t \in Threads, OpenFile(t) PROVE PortsBound' BY <1>6 DEF OpenFile
<1>7. ASSUME NEW t \in Threads, WriteFile(t) PROVE PortsBound' BY <1>7 DEF WriteFile
<1>8. ASSUME NEW t \in Threads, FileFails(t) PROVE PortsBound'
  BY <1>8 DEF FileFails, Ended
<1>9. ASSUME NEW t \in Threads, SnapshotPorts(t) PROVE PortsBound'
  BY <1>9 DEF SnapshotPorts
<1>10. ASSUME NEW t \in Threads, BindPorts(t) PROVE PortsBound' BY <1>10 DEF BindPorts
<1>11. ASSUME NEW t \in Threads, BindThrows(t) PROVE PortsBound'
  BY <1>11 DEF BindThrows, BindSome, Ended
<1>12. ASSUME NEW t \in Threads, SnapshotKeys(t) PROVE PortsBound'
  BY <1>12 DEF SnapshotKeys
<1>13. ASSUME NEW t \in Threads, ChangeRoutes(t) PROVE PortsBound'
  BY <1>13 DEF ChangeRoutes
<1>14. CASE Load BY <1>14 DEF Load
<1>15. CASE Start BY <1>15 DEF Start
<1>16. CASE CrashStore BY <1>16 DEF CrashStore
<1>17. CASE UNCHANGED storeVars BY <1>17
<1> QED BY <1>1, <1>2, <1>3, <1>4, <1>5, <1>6, <1>7, <1>8, <1>9, <1>10, <1>11, <1>12,
    <1>13, <1>14, <1>15, <1>16, <1>17 DEF StoreNext

(* Each update binds the ports in force after its maps were replaced.      *)
LEMMA PortsStep == ASSUME StoreInv, [StoreNext]_storeVars PROVE PortsFollow'
<1> USE EmptyIsValid DEF StoreInv, StoreShape, StorePCs, Replacing, Notifying, Contents,
    Threads, Step, Busy, memory, notes, storeVars, PortsFollow, BootAlone, Accepted
<1>1. ASSUME NEW t \in Savers, Save(t) PROVE PortsFollow' BY <1>1 DEF Save
<1>2. ASSUME NEW t \in Threads, Reject(t) PROVE PortsFollow' BY <1>2 DEF Reject
<1>3. ASSUME NEW t \in Threads, ReplaceKeys(t) PROVE PortsFollow' BY <1>3 DEF ReplaceKeys
<1>4. ASSUME NEW t \in Threads, ReplaceLans(t) PROVE PortsFollow' BY <1>4 DEF ReplaceLans
<1>5. ASSUME NEW t \in Threads, ReplaceClients(t) PROVE PortsFollow'
  BY <1>5 DEF ReplaceClients
<1>6. ASSUME NEW t \in Threads, OpenFile(t) PROVE PortsFollow' BY <1>6 DEF OpenFile
<1>7. ASSUME NEW t \in Threads, WriteFile(t) PROVE PortsFollow' BY <1>7 DEF WriteFile
<1>8. ASSUME NEW t \in Threads, FileFails(t) PROVE PortsFollow'
  BY <1>8 DEF FileFails, Ended
<1>9. ASSUME NEW t \in Threads, SnapshotPorts(t) PROVE PortsFollow'
  BY <1>9 DEF SnapshotPorts
<1>10. ASSUME NEW t \in Threads, BindPorts(t) PROVE PortsFollow' BY <1>10 DEF BindPorts
<1>11. ASSUME NEW t \in Threads, BindThrows(t) PROVE PortsFollow'
  BY <1>11 DEF BindThrows, BindSome, Ended
<1>12. ASSUME NEW t \in Threads, SnapshotKeys(t) PROVE PortsFollow'
  BY <1>12 DEF SnapshotKeys
<1>13. ASSUME NEW t \in Threads, ChangeRoutes(t) PROVE PortsFollow'
  BY <1>13 DEF ChangeRoutes
<1>14. CASE Load BY <1>14 DEF Load
<1>15. CASE Start BY <1>15 DEF Start
<1>16. CASE CrashStore BY <1>16 DEF CrashStore
<1>17. CASE UNCHANGED storeVars BY <1>17
<1> QED BY <1>1, <1>2, <1>3, <1>4, <1>5, <1>6, <1>7, <1>8, <1>9, <1>10, <1>11, <1>12,
    <1>13, <1>14, <1>15, <1>16, <1>17 DEF StoreNext

(* onChanged excludes itself: what it applies was not read before another  *)
(* one's, and what is replaced meanwhile is somebody's to apply.           *)
LEMMA RoutesStep == ASSUME StoreInv, [StoreNext]_storeVars PROVE RoutesFollow'
<1> USE EmptyIsValid DEF StoreInv, StoreShape, StorePCs, Replacing, Notifying, Contents,
    Threads, Step, Busy, memory, notes, storeVars, RoutesFollow, BootAlone, Accepted, Pending
<1>1. ASSUME NEW t \in Savers, Save(t) PROVE RoutesFollow' BY <1>1 DEF Save
<1>2. ASSUME NEW t \in Threads, Reject(t) PROVE RoutesFollow' BY <1>2 DEF Reject
<1>3. ASSUME NEW t \in Threads, ReplaceKeys(t) PROVE RoutesFollow' BY <1>3 DEF ReplaceKeys
<1>4. ASSUME NEW t \in Threads, ReplaceLans(t) PROVE RoutesFollow' BY <1>4 DEF ReplaceLans
<1>5. ASSUME NEW t \in Threads, ReplaceClients(t) PROVE RoutesFollow'
  BY <1>5 DEF ReplaceClients
<1>6. ASSUME NEW t \in Threads, OpenFile(t) PROVE RoutesFollow' BY <1>6 DEF OpenFile
<1>7. ASSUME NEW t \in Threads, WriteFile(t) PROVE RoutesFollow' BY <1>7 DEF WriteFile
<1>8. ASSUME NEW t \in Threads, FileFails(t) PROVE RoutesFollow'
  BY <1>8 DEF FileFails, Ended
<1>9. ASSUME NEW t \in Threads, SnapshotPorts(t) PROVE RoutesFollow'
  BY <1>9 DEF SnapshotPorts
<1>10. ASSUME NEW t \in Threads, BindPorts(t) PROVE RoutesFollow' BY <1>10 DEF BindPorts
<1>11. ASSUME NEW t \in Threads, BindThrows(t) PROVE RoutesFollow'
  BY <1>11 DEF BindThrows, BindSome, Ended
<1>12. ASSUME NEW t \in Threads, SnapshotKeys(t) PROVE RoutesFollow'
  BY <1>12 DEF SnapshotKeys
<1>13. ASSUME NEW t \in Threads, ChangeRoutes(t) PROVE RoutesFollow'
  BY <1>13 DEF ChangeRoutes
<1>14. CASE Load BY <1>14 DEF Load
<1>15. CASE Start BY <1>15 DEF Start
<1>16. CASE CrashStore BY <1>16 DEF CrashStore
<1>17. CASE UNCHANGED storeVars BY <1>17
<1> QED BY <1>1, <1>2, <1>3, <1>4, <1>5, <1>6, <1>7, <1>8, <1>9, <1>10, <1>11, <1>12,
    <1>13, <1>14, <1>15, <1>16, <1>17 DEF StoreNext

(* An update that runs alone replaces all three maps and then the file.    *)
LEMMA UpdateStep == ASSUME StoreInv, [StoreNext]_storeVars PROVE OneUpdate'
<1> USE EmptyIsValid DEF StoreInv, StoreShape, StorePCs, Replacing, Notifying, Contents,
    Threads, Step, Busy, memory, notes, storeVars, OneUpdate, BootAlone, Accepted
<1>1. ASSUME NEW t \in Savers, Save(t) PROVE OneUpdate' BY <1>1 DEF Save
<1>2. ASSUME NEW t \in Threads, Reject(t) PROVE OneUpdate' BY <1>2 DEF Reject
<1>3. ASSUME NEW t \in Threads, ReplaceKeys(t) PROVE OneUpdate' BY <1>3 DEF ReplaceKeys
<1>4. ASSUME NEW t \in Threads, ReplaceLans(t) PROVE OneUpdate' BY <1>4 DEF ReplaceLans
<1>5. ASSUME NEW t \in Threads, ReplaceClients(t) PROVE OneUpdate'
  BY <1>5 DEF ReplaceClients
<1>6. ASSUME NEW t \in Threads, OpenFile(t) PROVE OneUpdate' BY <1>6 DEF OpenFile
<1>7. ASSUME NEW t \in Threads, WriteFile(t) PROVE OneUpdate' BY <1>7 DEF WriteFile
<1>8. ASSUME NEW t \in Threads, FileFails(t) PROVE OneUpdate' BY <1>8 DEF FileFails, Ended
<1>9. ASSUME NEW t \in Threads, SnapshotPorts(t) PROVE OneUpdate'
  BY <1>9 DEF SnapshotPorts
<1>10. ASSUME NEW t \in Threads, BindPorts(t) PROVE OneUpdate' BY <1>10 DEF BindPorts
<1>11. ASSUME NEW t \in Threads, BindThrows(t) PROVE OneUpdate'
  BY <1>11 DEF BindThrows, BindSome, Ended
<1>12. ASSUME NEW t \in Threads, SnapshotKeys(t) PROVE OneUpdate'
  BY <1>12 DEF SnapshotKeys
<1>13. ASSUME NEW t \in Threads, ChangeRoutes(t) PROVE OneUpdate'
  BY <1>13 DEF ChangeRoutes
<1>14. CASE Load BY <1>14 DEF Load
<1>15. CASE Start BY <1>15 DEF Start
<1>16. CASE CrashStore BY <1>16 DEF CrashStore
<1>17. CASE UNCHANGED storeVars BY <1>17
<1> QED BY <1>1, <1>2, <1>3, <1>4, <1>5, <1>6, <1>7, <1>8, <1>9, <1>10, <1>11, <1>12,
    <1>13, <1>14, <1>15, <1>16, <1>17 DEF StoreNext

------------------------------------------------------------------------------
THEOREM StoreInvariant == StoreSpec => []StoreInv
<1>1. StoreInv /\ [StoreNext]_storeVars => StoreInv'
  BY ShapeStep, BootStep, AcceptedStep, FilesStep, BoundStep, PortsStep, RoutesStep,
     UpdateStep DEF StoreInv
<1> QED BY StoreInitInv, <1>1, PTL DEF StoreSpec

(* No configuration with a second key or port is ever in force or in the    *)
(* file that the server starts with.                                        *)
THEOREM StoreTypesCorrect == StoreSpec => []StoreTypeOK
<1>1. StoreInv => StoreTypeOK
  BY DEF StoreInv, StoreShape, Accepted, FilesOpen, PortsBound, StoreTypeOK
<1> QED BY StoreInvariant, <1>1, PTL

(* Whatever updates overlap, when all are through without an exception, the *)
(* ports in force are bound and the routes are those in force.              *)
THEOREM ListenersFollowConfiguration == StoreSpec => []ListenersFollow
<1>1. StoreInv => ListenersFollow
  BY DEF StoreInv, PortsFollow, RoutesFollow, Pending, ListenersFollow, Quiet, Busy,
         Replacing
<1> QED BY StoreInvariant, <1>1, PTL

(* After an update that ran alone the maps and the file agree, so the       *)
(* server that is started again has the configuration that was in force.    *)
THEOREM QuietStoresAgree == StoreSpec => []QuietStoreAgrees
<1>1. StoreInv => QuietStoreAgrees BY DEF StoreInv, OneUpdate, QuietStoreAgrees, Quiet
<1> QED BY StoreInvariant, <1>1, PTL
==============================================================================
