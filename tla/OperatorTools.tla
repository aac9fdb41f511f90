---------------------------- MODULE OperatorTools ----------------------------
(***************************************************************************)
(* The tools an operator runs on the host, side by side: each is a program *)
(* of steps that may fail, be killed, find the host changed or rebooted    *)
(* under it, and be run again.  One behaviour is the life of one of them;  *)
(* `tool' says which, and the tool's INSTANCE what s1 to s12 hold.  What   *)
(* the tools promise is the same for all: a report that is true, a record  *)
(* that is true, and a way back.                                           *)
(***************************************************************************)
EXTENDS Naturals, Sequences

CONSTANTS
    MaxTrouble,     \* bound on failures, kills, reboots and disturbances
    MaxRuns,        \* MaintenanceCutover: bound on the runs of --apply
    MaxBuilds,      \* SyncCanary: bound on image builds
    MaxCommits,     \* SyncCanary: bound on commits to the release tree
    MaxUploads,     \* CloudflareAop: bound on CAs made
    MaxMade,       \* LegacyRetirement: bound on directories made anew
    Replies,        \* CloudflareAop: what may become of an upload
    None

ASSUME BoundAssumption ==
    {MaxTrouble, MaxRuns, MaxBuilds, MaxCommits, MaxUploads, MaxMade} \subseteq Nat

(* No answer of Cloudflare breaks off while it is read: CloudflareAop has a    *)
(* run of its own about those.                                               *)
ASSUME ReplyAssumption == Replies \subseteq {"ok", "lost", "rejected"}

VARIABLES tool, s1, s2, s3, s4, s5, s6, s7, s8, s9, s10, s11, s12, run, outcome, trouble

vars == <<tool, s1, s2, s3, s4, s5, s6, s7, s8, s9, s10, s11, s12, run, outcome, trouble>>

Redis == INSTANCE HardenRedis WITH host <- s1, recovery <- s2, kept <- s3

Rpcbind ==
    INSTANCE HardenRpcbind WITH
        units <- s1, busyPort <- s2, evidence <- s3, record <- s4, prior <- s5, NoRecord <- None

SyncUnit ==
    INSTANCE HardenSyncService WITH
        dropin <- s1, dir <- s2, loaded <- s3, process <- s4, fits <- s5, contract <- s6

Direct == INSTANCE NginxDirect WITH disk <- s1, live <- s2, sound <- s3

Aop ==
    INSTANCE CloudflareAop WITH
        certs <- s1, assoc <- s2, put <- s3, ca <- s4, made <- s5, state <- s6, nginx <- s7,
        proof <- s8, install <- s9

Retire ==
    INSTANCE LegacyRetirement WITH
        legacy <- s1, target <- s2, sound <- s3, cache <- s4, dirs <- s5, upstream <- s6,
        logsClean <- s7, record <- s8, retire <- s9, made <- s10,
        stat <- s11, whole <- s12, NoRecord <- None, NoDir <- None

Canary ==
    INSTANCE SyncCanary WITH
        unit <- s1, box <- s2, bound <- s3, head <- s4, tag <- s5, note <- s6, kept <- s7,
        passed <- s8, builds <- s9, NoNote <- None

Cut ==
    INSTANCE MaintenanceCutover WITH
        legacy <- s1, cont <- s2, ready <- s3, data <- s4, acl <- s5, file <- s6, live <- s7,
        record <- s8, late <- s9, behind <- s10, bare <- s11, runs <- s12, ctl <- run, NoRecord <- None

ASSUME NoneAssumption ==
    /\ None \notin Nat /\ None \notin Retire!Journals \cup Rpcbind!Notes \cup Cut!Documents
    /\ None \notin Aop!ControlRecords \cup Aop!Associations \cup Aop!InstallStates \cup Aop!Sites

-----------------------------------------------------------------------------
(* What a tool does not use stays empty.                                     *)
From10 == <<s10, s11, s12>>
From7  == <<s7, s8, s9, From10>>
From6  == <<s6, From7>>
From4  == <<s4, s5, From6>>

Empty10 == s10 = None /\ s11 = None /\ s12 = None
Empty7  == s7 = None /\ s8 = None /\ s9 = None /\ Empty10
Empty6  == s6 = None /\ Empty7
Empty4  == s4 = None /\ s5 = None /\ Empty6

Init ==
    \/ tool = "redis"   /\ Redis!Init    /\ Empty4
    \/ tool = "rpcbind" /\ Rpcbind!Init  /\ Empty6
    \/ tool = "unit"    /\ SyncUnit!Init /\ Empty7
    \/ tool = "direct"  /\ Direct!Init   /\ Empty4
    \/ tool = "aop"     /\ Aop!Init      /\ Empty10 /\ outcome = None
    \/ tool = "retire"  /\ Retire!Init
    \/ tool = "canary"  /\ Canary!Init   /\ Empty10
    \/ tool = "cutover" /\ Cut!Init

Redises  == tool = "redis"   /\ Redis!Next    /\ UNCHANGED <<tool, From4>>
Rpcbinds == tool = "rpcbind" /\ Rpcbind!Next  /\ UNCHANGED <<tool, From6>>
Units    == tool = "unit"    /\ SyncUnit!Next /\ UNCHANGED <<tool, From7>>
Directs  == tool = "direct"  /\ Direct!Next   /\ UNCHANGED <<tool, From4>>
Aops     == tool = "aop"     /\ Aop!Next      /\ UNCHANGED <<tool, From10, outcome>>
Retires  == tool = "retire"  /\ Retire!Next   /\ UNCHANGED tool
Canaries == tool = "canary"  /\ Canary!Next   /\ UNCHANGED <<tool, From10>>
Cutovers == tool = "cutover" /\ Cut!Next      /\ UNCHANGED tool

Next == Redises \/ Rpcbinds \/ Units \/ Directs \/ Aops \/ Retires \/ Canaries \/ Cutovers

(* The cutover's own fairness: its process runs on, and the operator runs     *)
(* --recover as long as there is a record.                                   *)
Fairness ==
    /\ WF_vars(tool = "cutover" /\ Cut!Works /\ UNCHANGED tool)
    /\ WF_vars(tool = "cutover" /\ Cut!Recovers /\ UNCHANGED tool)

Spec == Init /\ [][Next]_vars /\ Fairness

-----------------------------------------------------------------------------
(* Shape of the host and of the program, each tool's own.                    *)
TypeOK ==
    CASE tool = "redis"   -> Redis!TypeOK
      [] tool = "rpcbind" -> Rpcbind!TypeOK
      [] tool = "unit"    -> SyncUnit!TypeOK
      [] tool = "direct"  -> Direct!TypeOK
      [] tool = "aop"     -> Aop!TypeOK
      [] tool = "retire"  -> Retire!TypeOK
      [] tool = "canary"  -> Canary!TypeOK
      [] tool = "cutover" -> Cut!TypeOK

(* The three hardening tools: "hardened" and "restored" are true of the files, *)
(* the units and what runs (harden-legacy-redis.py, harden-rpcbind.py,        *)
(* harden-legacy-sync-service.py).                                           *)
HardeningReportsAreTrue ==
    /\ tool = "redis"   => Redis!RedisReportIsTrue
    /\ tool = "rpcbind" => Rpcbind!RpcbindReportIsTrue
    /\ tool = "unit"    => SyncUnit!SyncServiceReportIsTrue

(* NginxDirect: the reported configuration is on disk and loaded, and Nginx   *)
(* never runs a half of the new one (install-nginx-direct-v1.py).             *)
NginxIsWhole ==
    /\ [](tool = "direct" => Direct!NginxReportIsTrue)
    /\ [][tool = "direct" => Direct!LoadsWhole]_vars

(* CloudflareAop: a certificate that is there is one the record accounts for, *)
(* and an associated record is true (configure-cloudflare-aop.py).            *)
AopRecordIsTrue == tool = "aop" => Aop!AopRecordIsTrue

(* CloudflareAop: another's hostname association is never taken over.         *)
NothingOverwritten == [][tool = "aop" => Aop!KeepsForeign]_vars

(* CloudflareAop with install-nginx-aop.sh: required is only where Cloudflare *)
(* presents a certificate that Nginx trusts.                                 *)
RequiredIsPassable == tool = "aop" => Aop!RequiredIsPassable

(* LegacyRetirement: a directory is removed after the gates, for the recorded  *)
(* identity, or because it was made after that was checked.                  *)
OnlyRecordedRemoved == [][tool = "retire" => Retire!RemovesRecorded]_vars

(* LegacyRetirement: what the record says is retired and trimmed is so.       *)
ProgressIsTrue == tool = "retire" => Retire!ProgressIsTrue

(* TrafficCanary, as the retirement runs beside it: the target application is *)
(* started on the data that were proved.                                     *)
AppStartsOnProvedData == [][tool = "retire" => Retire!T!StartsProved]_vars

(* SyncCanary: a reported promotion, rollback or restore is the host's state. *)
CanaryReportIsTrue == tool = "canary" => Canary!ReportIsTrue

(* SyncCanary: a reboot in the middle of a promotion finds a relay to start.  *)
RebootServes == tool = "canary" => Canary!RebootServes

(* SyncCanary: the stable relay gets the image the canary was proved with.    *)
PromotedWasProved == [][tool = "canary" => Canary!StartsWhatWasProved]_vars

(* MaintenanceCutover: without a record the host is as it was or migrated.     *)
NoRecordNoTrace == tool = "cutover" => Cut!NoRecordNoTrace

(* MaintenanceCutover: nothing is taken down under the traffic it gets, and   *)
(* nothing is copied beside a writer (maintenance-cutover.py, execute and     *)
(* rollback).                                                                *)
MovesSafely == [][tool = "cutover" => Cut!SparesServing /\ Cut!CopiesAlone]_vars

(* MaintenanceCutover: once the trouble is over --recover ends without a      *)
(* record, unless a container is there that the record does not know.        *)
RecoveryEnds == (tool = "cutover" /\ Cut!Recorded) ~> (tool = "cutover" /\ (~Cut!Recorded \/ Cut!Strange))

(* MaintenanceCutover: some upstream serves again in the end.                *)
ServiceReturns ==
    (tool = "cutover" /\ Cut!AppStopped) ~> (tool = "cutover" /\ (s11 \/ Cut!SomeServes))

-----------------------------------------------------------------------------
(* The tools that promise a way back implement ReversibleChange.             *)
Where ==
    CASE tool = "redis"   -> Redis!Place
      [] tool = "rpcbind" -> Rpcbind!Place
      [] OTHER            -> "before"

HasNote ==
    \/ tool = "redis"   /\ Redis!Noted
    \/ tool = "rpcbind" /\ Rpcbind!Recorded

Way == INSTANCE ReversibleChange WITH place <- Where, noted <- HasNote

(* A host between the two configurations has the record of how it was, and    *)
(* only steps of a noted change move it (harden-legacy-redis.py,              *)
(* harden-rpcbind.py).                                                       *)
GoesBack == Way!Spec
=============================================================================
