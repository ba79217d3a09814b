----------------------------- MODULE StartupProofs -----------------------------
(***************************************************************************)
(* The safety of start-up for any deployments and any number of outages.   *)
(*                                                                         *)
(* The inductive invariant says what a check leaves behind: a check of the *)
(* main function of a process is still to come, or what it found is still  *)
(* true.  That is so for the buckets, which nobody removes, and for the    *)
(* settings, which do not change; of a service that was reached nothing is *)
(* left.                                                                   *)
(***************************************************************************)
EXTENDS Startup, SequenceTheorems, TLAPS

Elements(q) == {q[i] : i \in 1..Len(q)}

(* What a check found that stays.                                          *)
Found(p, check) ==
    /\ check = "load" => IF p = "storage" THEN LoadStorage ELSE LoadServer
    /\ check = "files" => "files" \in made
    /\ check = "archives" => "archives" \in made /\ setting.flaw # "archives"
    /\ check = "repository" => setting.flaw # "database"
    /\ check = "client" => Google
    /\ check # "unknown"

Settled(p) ==
    /\ pc[p] \in {"booting", "serving"} =>
          \A check \in Elements(Main[p]) : check \in Elements(todo[p]) \/ Found(p, check)
    /\ pc[p] = "serving" => todo[p] = <<>>

Migrated ==
    setting.platform = "compose" => \A p \in Processes : pc[p] # "off" => "schema" \in made

Inv == TypeOK /\ Migrated /\ \A p \in Processes : Settled(p)

-----------------------------------------------------------------------------
(* Sequences of checks.                                                    *)

LEMMA ElementsTail ==
  ASSUME NEW q \in Seq(Checks), q # <<>>
  PROVE  Tail(q) \in Seq(Checks) /\ Elements(q) = {Head(q)} \cup Elements(Tail(q))
<1>1. /\ Tail(q) \in Seq(Checks) /\ Len(Tail(q)) = Len(q) - 1 /\ Len(q) \in Nat \ {0}
      /\ Head(q) = q[1]
      /\ \A i \in 1..Len(Tail(q)) : Tail(q)[i] = q[i + 1]
  OBVIOUS
<1>2. ASSUME NEW i \in 1..Len(q), i # 1 PROVE i - 1 \in 1..Len(Tail(q)) /\ q[i] = Tail(q)[i - 1]
  <2>1. i - 1 \in 1..Len(Tail(q)) /\ (i - 1) + 1 = i
    BY <1>1, <1>2
  <2> QED
    BY <1>1, <2>1
<1>3. \A i \in 1..Len(Tail(q)) : i + 1 \in 1..Len(q)
  BY <1>1
<1>4. 1 \in 1..Len(q)
  BY <1>1
<1> QED
  BY <1>1, <1>2, <1>3, <1>4 DEF Elements

LEMMA ElementsConcat ==
  ASSUME NEW s \in Seq(Checks), NEW t \in Seq(Checks)
  PROVE  s \o t \in Seq(Checks) /\ Elements(s) \cup Elements(t) \subseteq Elements(s \o t)
<1>1. /\ s \o t \in Seq(Checks) /\ Len(s \o t) = Len(s) + Len(t) /\ Len(s) \in Nat /\ Len(t) \in Nat
      /\ \A i \in 1..Len(s) : (s \o t)[i] = s[i]
      /\ \A i \in 1..Len(t) : (s \o t)[Len(s) + i] = t[i]
  BY ConcatProperties
<1>2. /\ \A i \in 1..Len(s) : i \in 1..Len(s \o t)
      /\ \A i \in 1..Len(t) : Len(s) + i \in 1..Len(s \o t)
  BY <1>1
<1> QED
  BY <1>1, <1>2 DEF Elements

(* The checks of each main function.                                       *)
LEMMA Mains ==
  /\ \A p \in Processes : Main[p] \in Seq(Checks) /\ "load" \in Elements(Main[p])
  /\ \A p \in {"server", "worker"} : "client" \in Elements(Main[p])
  /\ "repository" \in Elements(Main["storage"])
  /\ setting.backend = "s3" => {"files", "archives"} \subseteq Elements(Main["storage"])
  /\ setting.backend \notin {"local", "s3"} => "unknown" \in Elements(Main["storage"])
<1> DEFINE start == <<"load", "observe">>
           rest == <<"repository">>
<1>1. start \in Seq(Checks) /\ rest \in Seq(Checks) /\ start[1] = "load" /\ Len(start) = 2
  BY DEF Checks
<1>2. NewProvider \in Seq(Checks)
  <2>1. /\ <<>> \in Seq(Checks) /\ <<"files", "archives">> \in Seq(Checks) /\ <<"unknown">> \in Seq(Checks)
    BY DEF Checks
  <2> QED
    BY <2>1 DEF NewProvider
<1>3. "load" \in Elements(start) /\ "repository" \in Elements(rest)
  <2>1. Len(rest) = 1 /\ rest[1] = "repository"
    OBVIOUS
  <2> QED
    BY <1>1, <2>1 DEF Elements
<1> HIDE DEF start, rest
<1>4. /\ start \o NewProvider \in Seq(Checks)
      /\ Elements(start) \cup Elements(NewProvider) \subseteq Elements(start \o NewProvider)
  BY <1>1, <1>2, ElementsConcat
<1>5. /\ (start \o NewProvider) \o rest \in Seq(Checks)
      /\ Elements(start \o NewProvider) \cup Elements(rest) \subseteq Elements((start \o NewProvider) \o rest)
  BY <1>1, <1>4, ElementsConcat
<1>6. Main["storage"] = (start \o NewProvider) \o rest
  BY DEF Main, StorageMain, start, rest
<1>7. /\ Main["storage"] \in Seq(Checks) /\ {"load", "repository"} \subseteq Elements(Main["storage"])
      /\ Elements(NewProvider) \subseteq Elements(Main["storage"])
  BY <1>3, <1>4, <1>5, <1>6
<1>8. setting.backend = "s3" => {"files", "archives"} \subseteq Elements(NewProvider)
  <2> SUFFICES ASSUME setting.backend = "s3" PROVE {"files", "archives"} \subseteq Elements(NewProvider)
    OBVIOUS
  <2>1. NewProvider = <<"files", "archives">>
    BY DEF NewProvider
  <2>2. Len(NewProvider) = 2 /\ NewProvider[1] = "files" /\ NewProvider[2] = "archives"
    BY <2>1
  <2> QED
    BY <2>2 DEF Elements
<1>9. setting.backend \notin {"local", "s3"} => "unknown" \in Elements(NewProvider)
  <2> SUFFICES ASSUME setting.backend \notin {"local", "s3"} PROVE "unknown" \in Elements(NewProvider)
    OBVIOUS
  <2>1. NewProvider = <<"unknown">>
    BY DEF NewProvider
  <2>2. Len(NewProvider) = 1 /\ NewProvider[1] = "unknown"
    BY <2>1
  <2> QED
    BY <2>2 DEF Elements
<1>10. /\ Main["server"] \in Seq(Checks) /\ Len(Main["server"]) = 5
       /\ Main["server"][1] = "load" /\ Main["server"][4] = "client"
  <2>1. Main["server"] = <<"load", "observe", "redis", "client", "temporal">>
    BY DEF Main, ServerMain
  <2> QED
    BY <2>1 DEF Checks
<1>11. /\ Main["worker"] \in Seq(Checks) /\ Len(Main["worker"]) = 4
       /\ Main["worker"][1] = "load" /\ Main["worker"][4] = "client"
  <2>1. Main["worker"] = <<"load", "observe", "temporal", "client">>
    BY DEF Main, WorkerMain
  <2> QED
    BY <2>1 DEF Checks
<1>12. \A p \in {"server", "worker"} : {"load", "client"} \subseteq Elements(Main[p])
  BY <1>10, <1>11 DEF Elements
<1> QED
  BY <1>7, <1>8, <1>9, <1>10, <1>11, <1>12 DEF Processes

-----------------------------------------------------------------------------
LEMMA InitInv == Init => Inv
<1> SUFFICES ASSUME Init PROVE Inv
  OBVIOUS
<1>1. TypeOK
  BY SettingsAssumption DEF Init, TypeOK, Services, OnDemand
<1>2. Migrated /\ \A p \in Processes : Settled(p)
  BY DEF Init, Migrated, Settled
<1> QED
  BY <1>1, <1>2 DEF Inv

(* A check that was made holds on, as the world only gains buckets.        *)
LEMMA FoundKept ==
  ASSUME setting' = setting, made \subseteq made', NEW p, NEW check, Found(p, check)
  PROVE  Found(p, check)'
  BY DEF Found, LoadStorage, LoadServer, Google

LEMMA SettledKept ==
  ASSUME setting' = setting, made \subseteq made', NEW p, Settled(p),
         todo'[p] = todo[p], pc'[p] \in {pc[p], "off", "exited"}
  PROVE  Settled(p)'
<1>1. Main' = Main
  BY DEF Main, StorageMain, ServerMain, WorkerMain, NewProvider
<1> QED
  BY <1>1, FoundKept DEF Settled

LEMMA WorldInv ==
  ASSUME Inv, Migrate \/ (\E bucket \in {"files", "archives"} : MakeBucket(bucket))
              \/ (\E s \in Services : Recover(s) \/ Outage(s))
              \/ (\E p \in Processes : Ask(p) \/ Serve(p)) \/ UNCHANGED vars
  PROVE  Inv'
<1>1. /\ UNCHANGED <<setting, pc, todo>> /\ made \subseteq made'
      /\ made' \subseteq made \cup {"schema", "files", "archives"} /\ up' \subseteq up \cup Services
      /\ asked' \subseteq asked \cup OnDemand
  BY DEF Migrate, MakeBucket, Recover, Outage, Ask, Serve, vars
<1>2. outages' \in 0..MaxOutages
  BY SettingsAssumption DEF Inv, TypeOK, Migrate, MakeBucket, Recover, Outage, Ask, Serve, vars
<1>3. TypeOK' /\ Migrated'
  BY <1>1, <1>2 DEF Inv, TypeOK, Migrated
<1>4. ASSUME NEW p \in Processes PROVE Settled(p)'
  BY <1>1, SettledKept DEF Inv
<1> QED
  BY <1>3, <1>4 DEF Inv

LEMMA StartInv == ASSUME Inv, NEW p \in Processes, Start(p) PROVE Inv'
<1>1. /\ UNCHANGED <<setting, up, made, asked, outages>>
      /\ pc' = [pc EXCEPT ![p] = "booting"] /\ todo' = [todo EXCEPT ![p] = Main[p]]
  BY DEF Start
<1>2. Main[p] \in Seq(Checks) /\ Main' = Main
  BY <1>1, Mains DEF Main, StorageMain, ServerMain, WorkerMain, NewProvider
<1>3. TypeOK'
  BY <1>1, <1>2 DEF Inv, TypeOK
<1>4. Migrated'
  <2>1. setting.platform = "compose" => "schema" \in made
    BY DEF Start, DependsOn, Inv, Migrated, Processes, TypeOK, SettingType
  <2> QED
    BY <1>1, <2>1 DEF Migrated
<1>5. Settled(p)'
  BY <1>1, <1>2 DEF Inv, TypeOK, Settled
<1>6. ASSUME NEW q \in Processes \ {p} PROVE Settled(q)'
  BY <1>1, SettledKept DEF Inv, TypeOK
<1> QED
  BY <1>3, <1>4, <1>5, <1>6 DEF Inv

LEMMA CheckInv == ASSUME Inv, NEW p \in Processes, Check(p) PROVE Inv'
<1>1. /\ UNCHANGED <<setting, up, made, pc, asked, outages>> /\ pc[p] = "booting"
      /\ todo' = [todo EXCEPT ![p] = Tail(@)] /\ todo[p] # <<>> /\ Passed(p)
      /\ todo[p] \in Seq(Checks)
  BY DEF Check, Inv, TypeOK
<1>2. Tail(todo[p]) \in Seq(Checks) /\ Elements(todo[p]) = {Head(todo[p])} \cup Elements(Tail(todo[p]))
  BY <1>1, ElementsTail
<1>3. TypeOK' /\ Migrated'
  BY <1>1, <1>2 DEF Inv, TypeOK, Migrated
<1>4. Found(p, Head(todo[p]))
  BY <1>1 DEF Passed, Found, NewStore, HeadBucket, NewRepository, NewStorageClient
<1>5. Main' = Main
  BY <1>1 DEF Main, StorageMain, ServerMain, WorkerMain, NewProvider
<1>6. Settled(p)'
  <2>1. todo'[p] = Tail(todo[p]) /\ pc'[p] = "booting"
    BY <1>1 DEF Inv, TypeOK
  <2>2. ASSUME NEW check \in Elements(Main[p]) PROVE check \in Elements(Tail(todo[p])) \/ Found(p, check)'
    BY <1>1, <1>2, <1>4, FoundKept DEF Inv, Settled
  <2> QED
    BY <1>5, <2>1, <2>2 DEF Settled
<1>7. ASSUME NEW q \in Processes \ {p} PROVE Settled(q)'
  BY <1>1, SettledKept DEF Inv, TypeOK
<1> QED
  BY <1>3, <1>6, <1>7 DEF Inv

LEMMA ServeInv ==
  ASSUME Inv, NEW p \in Processes, ListenAndServe(p) \/ (p = "worker" /\ Run) PROVE Inv'
<1>1. /\ UNCHANGED <<setting, up, made, todo, asked, outages>>
      /\ pc[p] = "booting" /\ todo[p] = <<>> /\ pc' = [pc EXCEPT ![p] = "serving"]
  BY DEF ListenAndServe, Run
<1>2. TypeOK' /\ Migrated'
  BY <1>1 DEF Inv, TypeOK, Migrated
<1>3. Main' = Main
  BY <1>1 DEF Main, StorageMain, ServerMain, WorkerMain, NewProvider
<1>4. Settled(p)'
  BY <1>1, <1>3, FoundKept DEF Inv, TypeOK, Settled
<1>5. ASSUME NEW q \in Processes \ {p} PROVE Settled(q)'
  BY <1>1, SettledKept DEF Inv, TypeOK
<1> QED
  BY <1>2, <1>4, <1>5 DEF Inv

LEMMA ExitInv ==
  ASSUME Inv, NEW p \in Processes, CheckFails(p) \/ Die(p) \/ ScaleDown(p) \/ (p = "worker" /\ RunFails)
  PROVE  Inv'
<1>1. /\ UNCHANGED <<setting, up, made, todo, asked>>
      /\ \E end \in {"off", "exited"} : pc' = [pc EXCEPT ![p] = end]
      /\ pc[p] \in {"booting", "serving"} /\ outages' \in 0..MaxOutages
  BY SettingsAssumption DEF CheckFails, Die, ScaleDown, RunFails, Exit, Inv, TypeOK
<1>2. TypeOK' /\ Migrated'
  BY <1>1 DEF Inv, TypeOK, Migrated
<1>3. ASSUME NEW q \in Processes PROVE Settled(q)'
  BY <1>1, SettledKept DEF Inv, TypeOK
<1> QED
  BY <1>2, <1>3 DEF Inv

THEOREM InductiveInv == Spec => []Inv
<1>1. ASSUME Inv, [Next]_vars PROVE Inv'
  <2>1. ASSUME NEW p \in Processes, Start(p) \/ ProcessStep(p) \/ Die(p) \/ ScaleDown(p) PROVE Inv'
    BY <1>1, <2>1, StartInv, CheckInv, ServeInv, ExitInv DEF ProcessStep
  <2>2. CASE WorkerStep
    BY <1>1, <2>2, ServeInv, ExitInv DEF WorkerStep, Processes
  <2> QED
    BY <1>1, <2>1, <2>2, WorldInv DEF Next
<1> QED
  BY InitInv, <1>1, PTL DEF Spec

(* The parts of the state keep their types: what is left of a main         *)
(* function is a sequence of checks.                                       *)
THEOREM TypeCorrect == Spec => []TypeOK
<1>1. Inv => TypeOK
  BY DEF Inv
<1> QED
  BY InductiveInv, <1>1, PTL

(* Under compose nothing serves before the tables exist, for any number of *)
(* outages in between.                                                     *)
THEOREM SchemaFirst == Spec => []ServesOnSchema
<1>1. Inv => ServesOnSchema
  BY DEF Inv, Migrated, ServesOnSchema, Serving
<1> QED
  BY InductiveInv, <1>1, PTL

(* What serves has each of its needs met that the checks vouch for, for    *)
(* any deployments, whatever their flaws, and any number of outages.       *)
THEOREM ServingIsAble == Spec => []ServingCanWork
<1>1. Inv => ServingCanWork
  <2> SUFFICES ASSUME Inv, NEW p \in Processes, Serving(p),
                      NEW need \in Needs(p) \ (Unasked(p) \cup Unordered)
               PROVE  Met(need)
    BY DEF ServingCanWork, Vouched
  <2>1. todo[p] = <<>> /\ \A check \in Elements(Main[p]) : check \in Elements(<<>>) \/ Found(p, check)
    BY DEF Inv, Settled, Serving
  <2>2. Elements(<<>>) = {}
    BY DEF Elements
  <2>3. \A check \in Elements(Main[p]) : Found(p, check)
    BY <2>1, <2>2
  <2>4. setting \in SettingType
    BY SettingsAssumption DEF Inv, TypeOK
  <2>5. need = "schema" => need \in made /\ setting.flaw # need
    <3>1. need = "schema" => setting.platform = "compose"
      BY <2>4 DEF Unordered, SettingType
    <3> QED
      BY <2>4, <3>1 DEF Inv, Migrated, Serving, SettingType, Flaws
  <2>6. CASE p = "storage"
    <3>1. LoadStorage /\ setting.flaw # "database"
      BY <2>3, <2>6, Mains DEF Found
    <3>2. setting.backend = "s3" => {"files", "archives"} \subseteq made /\ setting.flaw # "archives"
      BY <2>3, <2>6, Mains DEF Found
    <3>3. setting.backend \in {"local", "s3"}
      BY <2>3, <2>6, Mains DEF Found
    <3>4. need \in {"backend", "database", "schema", "files", "archives", "dirs"}
      BY <2>6 DEF Needs, Unasked
    <3>5. /\ need = "dirs" => setting.backend # "s3"
          /\ need \in {"files", "archives"} => setting.backend = "s3"
      BY <2>6 DEF Needs
    <3>6. setting.flaw \notin {"backend", "files"}
      BY <2>4 DEF SettingType, Flaws
    <3> QED
      BY <2>5, <3>1, <3>2, <3>3, <3>4, <3>5, <3>6 DEF Met, LoadStorage
  <2>7. CASE p \in {"server", "worker"}
    <3>1. LoadServer /\ Google
      BY <2>3, <2>7, Mains DEF Found
    <3>2. need \in {"sizes", "schema", "google"}
      BY <2>7 DEF Needs, Unasked
    <3> QED
      BY <2>5, <3>1, <3>2 DEF Met, LoadServer, Google
  <2> QED
    BY <2>6, <2>7 DEF Processes
<1> QED
  BY InductiveInv, <1>1, PTL

=============================================================================
