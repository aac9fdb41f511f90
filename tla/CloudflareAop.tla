---------------------------- MODULE CloudflareAop ----------------------------
(***************************************************************************)
(* deploy/configure-cloudflare-aop.py and deploy/install-nginx-aop.sh: a   *)
(* client certificate is made under a new CA and uploaded to Cloudflare,   *)
(* Nginx trusts the CA (optional), the hostname is associated with the     *)
(* certificate, a public probe proves the path, and Nginx requires it.     *)
(* Cloudflare's answers get lost; what was sent is known from the control  *)
(* record alone.  The n-th CA and the certificate under it are both n.     *)
(***************************************************************************)
EXTENDS Naturals, Sequences

CONSTANTS
    MaxTrouble,     \* bound on failures, kills, reboots and lost answers
    MaxUploads,     \* bound on CAs made
    Replies,        \* what may become of an upload: ok, lost, rejected, broken
    None

VARIABLES
    certs, assoc,   \* Cloudflare: the certificates, the hostname's association
    put,            \* an association request that has not arrived
    ca, made,       \* client-ca.pem; CAs made so far
    state,          \* the control record
    nginx,          \* stage on disk, stage and CA of the running Nginx, install-state
    proof,          \* the CA a fresh probe proof is about
    run,            \* configure-cloudflare-aop.py, if it runs
    install,        \* install-nginx-aop.sh, if it runs
    trouble

cloud == <<certs, assoc, put>>
local == <<ca, made, state>>
vars  == <<cloud, local, nginx, proof, run, install, trouble>>

Foreign == 0
Resting == [at |-> "idle", copy |-> None]
Uninstalled == [at |-> "idle", to |-> "off", old |-> None]
Busy   == run.at # "idle"
Locked ==
    \/ install.at # "idle"
    \/ run.at \in {"check", "begin", "put", "poll", "associated"}
    \/ run.at = "mark" /\ run.copy.phase = "associate_unknown"

Active(c) == assoc = [cert |-> c, status |-> "active"]
Goes(at, copy) == run' = [at |-> at, copy |-> copy]
Rests == run' = Resting
Trouble == trouble < MaxTrouble /\ trouble' = trouble + 1
Phase(p) == [run.copy EXCEPT !.phase = p]

-----------------------------------------------------------------------------
(* upload_aop. It takes no lock.                                             *)
UploadBegins ==
    /\ ~Busy
    /\ ca = None /\ state = None
    /\ nginx.state = None /\ nginx.disk = "off"
    /\ assoc = None
    /\ Goes("ca", None)
    /\ UNCHANGED <<cloud, local, nginx, proof, install, trouble>>

WritesCA ==
    /\ run.at = "ca" /\ ca = None /\ made < MaxUploads
    /\ made' = made + 1 /\ ca' = made'
    /\ Goes("record", [phase |-> "upload_in_flight", ca |-> made', cert |-> None])
    /\ UNCHANGED <<cloud, state, nginx, proof, install, trouble>>

MutantRecords ==
    /\ run.at = "record"
    /\ UNCHANGED state
    /\ Goes("post", run.copy)
    /\ UNCHANGED <<cloud, ca, made, nginx, proof, install, trouble>>

Records ==
    /\ run.at = "record"
    /\ state' = run.copy
    /\ Goes("post", run.copy)
    /\ UNCHANGED <<cloud, ca, made, nginx, proof, install, trouble>>

MutantForgetsId == Phase("uploaded")

(* The answer names the certificate.                                         *)
Uploaded == [Phase("uploaded") EXCEPT !.cert = ca]

(* CloudflareAopClient.request: a timeout, a 5xx, an answer that does not     *)
(* parse is unknown, anything else that goes wrong is a rejection; so is an   *)
(* answer that breaks off, whose http.client exception is no OSError.        *)
Posts ==
    /\ run.at = "post"
    /\ \E reply \in Replies :
         /\ IF reply = "ok" THEN UNCHANGED trouble ELSE Trouble
         /\ certs' \in (IF reply = "rejected" THEN {certs}
                        ELSE IF reply = "lost" THEN {certs, certs \cup {ca}}
                        ELSE {certs \cup {ca}})
         /\ CASE reply = "ok"   -> Goes("uploaded", Uploaded)
              [] reply = "lost" -> Goes("mark", Phase("upload_unknown"))
              [] OTHER          -> Goes("remove", run.copy)
    /\ UNCHANGED <<assoc, put, local, nginx, proof, install>>

(* remove_local_control_artifacts, the record first.                         *)
Removes ==
    /\ run.at \in {"remove", "remove ca"}
    /\ IF run.at = "remove" THEN state' = None /\ UNCHANGED ca /\ Goes("remove ca", run.copy)
       ELSE ca' = None /\ UNCHANGED state /\ Rests
    /\ UNCHANGED <<cloud, made, nginx, proof, install, trouble>>

(* The record is written, the private material is gone.                      *)
NotesUploaded ==
    /\ run.at = "uploaded"
    /\ state' = run.copy
    /\ Rests
    /\ UNCHANGED <<cloud, ca, made, nginx, proof, install, trouble>>

(* _mark_unknown *)
Marks ==
    /\ run.at = "mark"
    /\ state' = run.copy
    /\ Rests
    /\ UNCHANGED <<cloud, ca, made, nginx, proof, install, trouble>>

-----------------------------------------------------------------------------
(* validate_optional_readiness *)
OptionalReady ==
    /\ nginx.disk = "optional"
    /\ nginx.state = [stage |-> "optional", ca |-> ca] /\ ca # None

(* associate_aop, under the Nginx operation lock, up to the first request.    *)
AssociateBegins ==
    /\ ~Busy /\ ~Locked
    /\ state # None /\ state.ca = ca /\ state.phase # "upload_in_flight"
    /\ OptionalReady
    /\ Goes("check", state)
    /\ UNCHANGED <<cloud, local, nginx, proof, install, trouble>>

MutantAdmitsPut(copy) == copy.phase \notin {"associated", "upload_unknown"}

AdmitsPut(copy) == /\ assoc = None \/ assoc.cert = copy.cert
                   /\ copy.phase \notin {"associated", "upload_unknown"}

(* The association is looked at: active already, nobody's, or another's.      *)
Checks ==
    /\ run.at = "check"
    /\ IF run.copy.cert # None /\ Active(run.copy.cert) THEN Goes("associated", Phase("associated"))
       ELSE IF AdmitsPut(run.copy) THEN Goes("begin", Phase("associate_in_flight"))
       ELSE Rests
    /\ UNCHANGED <<cloud, local, nginx, proof, install, trouble>>

Begins ==
    /\ run.at = "begin"
    /\ state' = run.copy
    /\ Goes("put", run.copy)
    /\ UNCHANGED <<cloud, ca, made, nginx, proof, install, trouble>>

(* What the answer is does not matter. *)
Puts ==
    /\ run.at = "put"
    /\ put' = run.copy.cert
    /\ Goes("poll", run.copy)
    /\ UNCHANGED <<certs, assoc, local, nginx, proof, install, trouble>>

(* poll_active_association *)
Polls ==
    /\ run.at = "poll"
    /\ IF Active(run.copy.cert) THEN Goes("associated", Phase("associated"))
       ELSE Goes("mark", Phase("associate_unknown"))
    /\ UNCHANGED <<cloud, local, nginx, proof, install, trouble>>

NotesAssociated ==
    /\ run.at = "associated"
    /\ state' = run.copy
    /\ Rests
    /\ UNCHANGED <<cloud, ca, made, nginx, proof, install, trouble>>

-----------------------------------------------------------------------------
(* Cloudflare: a request arrives, or never does; an association is deployed.  *)
Arrives ==
    /\ put # None
    /\ put' = None
    /\ assoc' \in {assoc, IF put \notin certs \/ Active(put) THEN assoc
                          ELSE [cert |-> put, status |-> "pending"]}
    /\ UNCHANGED <<certs, local, nginx, proof, run, install, trouble>>

Deploys ==
    /\ assoc # None /\ assoc.status = "pending"
    /\ assoc' = [assoc EXCEPT !.status = "active"]
    /\ UNCHANGED <<certs, put, local, nginx, proof, run, install, trouble>>

-----------------------------------------------------------------------------
(* run_public_probe: Cloudflare's certificate is under the CA of the running  *)
(* Nginx.                                                                    *)
ProbePasses == nginx.live # "off" /\ nginx.liveCA # None /\ Active(nginx.liveCA)

Probes ==
    /\ ~Locked
    /\ OptionalReady /\ ProbePasses
    /\ proof' = ca
    /\ UNCHANGED <<cloud, local, nginx, run, install, trouble>>

MutantAdmitsRequired == OptionalReady

(* validate_fresh_probe_proof *)
AdmitsRequired == OptionalReady /\ proof = ca

(* The installer up to the files on disk; `required` consumes the proof.      *)
Installs(stage) ==
    /\ ~Locked
    /\ ca # None /\ nginx.live # "down"
    /\ stage = "required" => AdmitsRequired
    /\ proof' = IF stage = "required" THEN None ELSE proof
    /\ install' = [at |-> "reload", to |-> stage, old |-> nginx]
    /\ nginx' = [nginx EXCEPT !.disk = stage]
    /\ UNCHANGED <<cloud, local, run, trouble>>

Reloads ==
    /\ install.at = "reload" /\ ca # None
    /\ nginx' = [nginx EXCEPT !.live = install.to, !.liveCA = ca]
    /\ install' = [install EXCEPT !.at = "commit"]
    /\ UNCHANGED <<cloud, local, proof, run, trouble>>

(* The post-reload probe of `required`; `optional` forgets the proof.         *)
CommitsInstall ==
    /\ install.at = "commit" /\ ca # None
    /\ install.to = "required" => ProbePasses
    /\ nginx' = [nginx EXCEPT !.state = [stage |-> install.to, ca |-> ca]]
    /\ proof' = None
    /\ install' = Uninstalled
    /\ UNCHANGED <<cloud, local, run, trouble>>

(* restore: the files of before, and a reload.                               *)
InstallFails ==
    /\ install.at \in {"reload", "commit"}
    /\ \/ Trouble
       \/ UNCHANGED trouble /\ (ca = None \/ (install.at = "commit" /\ ~ProbePasses))
    /\ nginx' = [install.old EXCEPT
                    !.live   = IF install.old.disk = "off" \/ ca # None THEN install.old.disk ELSE nginx.live,
                    !.liveCA = IF install.old.disk = "off" THEN None ELSE IF ca # None THEN ca ELSE nginx.liveCA]
    /\ install' = Uninstalled
    /\ UNCHANGED <<cloud, local, proof, run>>

-----------------------------------------------------------------------------
(* A step of the tool fails: writes with or without their effect.  A failed   *)
(* record of an upload or an association is marked unknown, a failed mark     *)
(* leaves the record as it is.                                               *)
Writes == {"record", "begin", "uploaded", "associated", "mark"}

StepFails ==
    /\ Trouble
    /\ Busy /\ run.at \notin {"post", "put"}
    /\ state' \in (IF run.at \in Writes THEN {state, run.copy} ELSE {state})
    /\ CASE run.at = "record"     -> Goes("remove", run.copy)
         [] run.at = "uploaded"   -> Goes("mark", Phase("upload_unknown"))
         [] run.at \in {"associated", "poll"} -> Goes("mark", Phase("associate_unknown"))
         [] OTHER                 -> Rests
    /\ UNCHANGED <<cloud, ca, made, nginx, proof, install>>

(* The tool or the installer is killed. *)
Killed ==
    /\ Trouble
    /\ \/ Busy /\ Rests /\ UNCHANGED install
       \/ install.at # "idle" /\ install' = Uninstalled /\ UNCHANGED run
    /\ UNCHANGED <<cloud, local, nginx, proof>>

(* Nginx starts from the disk; the proof is of another boot.                 *)
Reboots ==
    /\ Trouble
    /\ Rests /\ install' = Uninstalled
    /\ proof' = None
    /\ nginx' = [nginx EXCEPT
                    !.live   = IF nginx.disk # "off" /\ ca = None THEN "down" ELSE nginx.disk,
                    !.liveCA = IF nginx.disk = "off" THEN None ELSE ca]
    /\ UNCHANGED <<cloud, local>>

(* The operator takes client certificates out of Nginx.                      *)
OperatorRetiresNginx ==
    /\ ~Locked /\ nginx.disk # "off"
    /\ nginx' = [disk |-> "off", live |-> "off", liveCA |-> None, state |-> None]
    /\ UNCHANGED <<cloud, local, proof, run, install, trouble>>

(* The operator reconciles with Cloudflare: what the record is about goes.    *)
OperatorReconciles ==
    /\ ~Busy /\ ~Locked /\ put = None
    /\ nginx.disk = "off" /\ nginx.live = "off"
    /\ certs' = IF state = None THEN certs ELSE certs \ {state.ca}
    /\ assoc' = IF assoc # None /\ assoc.cert \notin certs' THEN None ELSE assoc
    /\ state' = None /\ ca' = None
    /\ UNCHANGED <<put, made, nginx, proof, run, install, trouble>>

(* Somebody associates the hostname with a certificate of their own, or ends  *)
(* that: not while an association is under way.                              *)
OthersAssociate ==
    /\ Trouble
    /\ ~Locked /\ put = None
    /\ \/ assoc = None /\ assoc' = [cert |-> Foreign, status |-> "active"]
       \/ assoc # None /\ assoc.cert = Foreign /\ assoc' = None
    /\ UNCHANGED <<certs, put, local, nginx, proof, run, install>>

Init ==
    /\ certs = {Foreign} /\ assoc \in {None, [cert |-> Foreign, status |-> "active"]} /\ put = None
    /\ ca = None /\ made = 0 /\ state = None
    /\ nginx = [disk |-> "off", live |-> "off", liveCA |-> None, state |-> None]
    /\ proof = None
    /\ run = Resting /\ install = Uninstalled
    /\ trouble = 0

Next ==
    \/ UploadBegins \/ WritesCA \/ Records \/ Posts \/ Removes \/ NotesUploaded \/ Marks
    \/ AssociateBegins \/ Checks \/ Begins \/ Puts \/ Polls \/ NotesAssociated
    \/ Arrives \/ Deploys
    \/ Probes \/ Installs("optional") \/ Installs("required") \/ Reloads \/ CommitsInstall \/ InstallFails
    \/ StepFails \/ Killed \/ Reboots
    \/ OperatorRetiresNginx \/ OperatorReconciles \/ OthersAssociate

Spec == Init /\ [][Next]_vars

-----------------------------------------------------------------------------
Phases == {"upload_in_flight", "upload_unknown", "uploaded",
           "associate_in_flight", "associate_unknown", "associated"}

Uploading   == {"ca", "record", "post", "remove", "remove ca"}
Associating == {"check", "begin", "put", "poll", "associated"}

(* The control record, the association, the files and the process of Nginx.   *)
ControlRecords == [phase : Phases, ca : Nat, cert : Nat \cup {None}]
Associations   == [cert : Nat, status : {"pending", "active"}]
Stages         == {"off", "optional", "required"}
InstallStates  == [stage : Stages, ca : Nat]
Sites ==
    [disk : Stages, live : Stages \cup {"down"}, liveCA : (Nat \ {0}) \cup {None}, state : InstallStates \cup {None}]

TypeOK ==
    /\ Foreign \in certs /\ certs \subseteq Nat
    /\ assoc \in Associations \cup {None} /\ put \in Nat \cup {None}
    /\ made \in Nat /\ ca \in 1..made \cup {None} /\ proof \in 1..made \cup {None}
    /\ state \in ControlRecords \cup {None}
    /\ (state # None /\ state.phase \notin {"upload_in_flight", "upload_unknown"}) => state.cert # None
    /\ nginx \in Sites
    /\ run \in [at : {"idle", "uploaded", "mark"} \cup Uploading \cup Associating,
               copy : ControlRecords \cup {None}]
    /\ install \in [at : {"idle", "reload", "commit"}, to : Stages, old : Sites \cup {None}]
    /\ install.at # "idle" => install.old # None

(* There is one CA at a time, and the record, the certificates, the           *)
(* association, the request on its way and the proof are about it.           *)
OneCA ==
    /\ state # None => state.ca = ca /\ state.cert \in {None, ca}
    /\ assoc # None => assoc.cert \in certs
    /\ put # None => put = ca /\ (assoc = None \/ assoc.cert = ca)
    /\ proof # None /\ proof = ca => Active(ca)

(* What the tool that runs knows, at each of its places: before the upload    *)
(* nothing of its CA is at Cloudflare, later its copy of the record is about  *)
(* the present CA and there is a record.                                     *)
Fresh == certs = {Foreign} /\ put = None

Copies(phase) ==
    /\ run.copy # None /\ run.copy.phase = phase
    /\ run.copy.ca = ca /\ run.copy.cert \in {None, ca}

CopiesNamed(phase) == state # None /\ Copies(phase) /\ run.copy.cert = ca

KnowsRecord ==
    /\ run.at = "ca"         => Fresh /\ state = None
    /\ run.at = "record"     => Fresh /\ state = None /\ Copies("upload_in_flight")
    /\ run.at = "post"       => Fresh /\ Copies("upload_in_flight") /\ state = run.copy
    /\ run.at = "remove"     => Fresh /\ Copies("upload_in_flight")
    /\ run.at = "remove ca"  => Fresh /\ state = None
    /\ run.at = "uploaded"   => CopiesNamed("uploaded")
    /\ run.at = "mark"       => \/ state # None /\ Copies("upload_unknown")
                                \/ CopiesNamed("associate_unknown")
    /\ run.at = "check"      => state # None /\ state = run.copy /\ state.phase # "upload_in_flight"
    /\ run.at \in {"begin", "put"} => CopiesNamed("associate_in_flight") /\ (assoc = None \/ assoc.cert = ca)
    /\ run.at = "poll"       => CopiesNamed("associate_in_flight")
    /\ run.at = "associated" => CopiesNamed("associated") /\ Active(ca)

(* Where `required' is on disk, runs, is being installed or would be restored, *)
(* the certificate under the present CA is associated.                       *)
Requires ==
    \/ "required" \in {nginx.disk, nginx.live}
    \/ install.at # "idle" /\ "required" \in {install.to, install.old.disk}

RequiredStands ==
    /\ Requires => ca # None /\ Active(ca)
    /\ nginx.live = "required" => nginx.liveCA = ca

(* deploy/README.md:530: a certificate at Cloudflare whose upload was not     *)
(* answered well is not forgotten: the record is about it, by its name or as  *)
(* an upload whose result is unknown.                                        *)
CertificateIsAccounted ==
    \A c \in certs \ {Foreign} :
        /\ state # None /\ state.ca = c
        /\ state.cert = c \/ state.phase \in {"upload_in_flight", "upload_unknown"}

(* A record that says associated is true of Cloudflare, and no certificate    *)
(* is there that the record does not account for.                            *)
AopRecordIsTrue ==
    /\ CertificateIsAccounted
    /\ (state # None /\ state.phase = "associated") => Active(state.cert)

(* The hostname of another's certificate is never taken over.                *)
KeepsForeign == (assoc # None /\ assoc' # None) => assoc'.cert = assoc.cert
NothingOverwritten == [][KeepsForeign]_vars

(* Where Nginx requires Cloudflare's certificate, Cloudflare presents one     *)
(* under the CA Nginx trusts: the site is reachable.                         *)
RequiredIsPassable == nginx.live = "required" => Active(nginx.liveCA)
=============================================================================
