---------------------------- MODULE BlobRetention ----------------------------
(***************************************************************************)
(* Raw-byte retention and purge over the shared content-addressed store.   *)
(*                                                                         *)
(* Every process (CLI call, web thread, gateway) opens its own connection  *)
(* to one SQLite database and works on one blob directory.  A short write  *)
(* transaction is one action, guarded by the database's write lock; the    *)
(* purge transaction, which touches the file system while it holds that    *)
(* lock, is three actions (decide, unlink, commit), so that the file       *)
(* operations of writers, which take no lock, fall between them.           *)
(*                                                                         *)
(* A request of a subject that does not own the source is refused before   *)
(* it changes anything, and the owner of a source never changes (the CLI   *)
(* copies it), so requests below are those of the owner.                   *)
(***************************************************************************)
EXTENDS Naturals

CONSTANTS
    UploadSources,   \* sources with a fresh "upload:<uuid>" locator
    GatewaySources,  \* sources captured, possibly many times, by the gateway
    Digests,
    Procs,           \* processes; each runs one operation at a time
    MaxPolicyRev,    \* bound: policy revisions per source
    None             \* no source, no digest, nobody

Sources == UploadSources \cup GatewaySources

ASSUME DisjointKinds == UploadSources \cap GatewaySources = {}
ASSUME NoneIsFresh == None \notin Sources \cup Digests \cup Procs
ASSUME MaxPolicyRevIsPos == MaxPolicyRev \in Nat \ {0}

VARIABLES
    sources,    \* rows of testamur_sources
    revisions,  \* rows of testamur_source_revisions: <<source, digest>>
    snapshots,  \* captured rows of testamur_source_snapshots
    policy,     \* latest access-policy revision of each source
    event,      \* latest retention event of each <<source, digest>>
    claims,     \* rows of testamur_blob_ingest_claims: <<source, digest>>
    lock,       \* the process inside BEGIN IMMEDIATE, or None
    file,       \* the blob file of each digest
    pc, job     \* what each process is doing, and its local variables

db   == <<sources, revisions, snapshots, policy, event, claims>>
vars == <<sources, revisions, snapshots, policy, event, claims,
          lock, file, pc, job>>

RawPolicies == {"retain", "purge_on_request"}

NoPolicy == [rev |-> 0, raw |-> "retain"]
NoEvent  == [action |-> "none", rev |-> 0]

(* Local variables of an operation that starts.                            *)
NewJob(s, d, raw, digests) == [src |-> s, dig |-> d, raw |-> raw, todo |-> digests]
NoJob == NewJob(None, None, None, {})

Policy == [rev : 0..MaxPolicyRev, raw : RawPolicies]
Event  == [action : {"none", "retain", "release"}, rev : 0..MaxPolicyRev]
Job    == [src  : Sources \cup {None}, dig : Digests \cup {None},
           raw  : RawPolicies \cup {None}, todo : SUBSET Digests]

PC == {"idle", "claim", "put", "rename", "policy", "revision", "snapshot",
       "unclaim", "set_policy", "retain_list", "retaining",
       "purging", "unlink", "commit"}

(* Where an operation waits for the write lock.                            *)
WritingPC == {"claim", "policy", "revision", "snapshot", "unclaim",
              "set_policy"}

TypeOK ==
    /\ sources \subseteq Sources
    /\ revisions \subseteq Sources \X Digests
    /\ snapshots \subseteq Sources \X Digests
    /\ policy \in [Sources -> Policy]
    /\ event \in [Sources \X Digests -> Event]
    /\ claims \subseteq UploadSources \X Digests
    /\ lock \in Procs \cup {None}
    /\ file \in [Digests -> {"absent", "intact", "corrupt"}]
    /\ pc \in [Procs -> PC]
    /\ job \in [Procs -> Job]

Init ==
    /\ sources = {}
    /\ revisions = {}
    /\ snapshots = {}
    /\ policy = [s \in Sources |-> NoPolicy]
    /\ event = [r \in Sources \X Digests |-> NoEvent]
    /\ claims = {}
    /\ lock = None
    /\ file = [d \in Digests |-> "absent"]
    /\ pc = [p \in Procs |-> "idle"]
    /\ job = [p \in Procs |-> NoJob]

-----------------------------------------------------------------------------
(* References and blockers.                                                *)

Released_AnyEpoch(s, e) ==
    /\ e.action = "release"
    /\ policy[s].rev # 0
    /\ policy[s].raw = "purge_on_request"

(* The negation of the blocker condition of _active_reference_count_conn:  *)
(* latest event e of source s is a release under its current policy        *)
(* revision, and that revision permits purge.                              *)
Released(s, e) ==
    /\ e.action = "release"
    /\ policy[s].rev # 0
    /\ e.rev = policy[s].rev
    /\ policy[s].raw = "purge_on_request"

ActiveRefs_WithEventOnly(d, ev) ==
    {s \in Sources : <<s, d>> \in revisions /\ ev[<<s, d>>].action = "retain"}

(* Sources that still require the bytes of d, given the latest events ev.  *)
ActiveRefs(d, ev) ==
    {s \in Sources : <<s, d>> \in revisions /\ ~Released(s, ev[<<s, d>>])}

ClaimsOn_Ignored(d) == {}

ClaimsOn(d) == {c \in claims : c[2] = d}

DigestsOf(s) == {d \in Digests : <<s, d>> \in revisions}

(* The release event that purging process p holds in its open transaction, *)
(* as if it were committed.                                                *)
WithRelease_NextEpoch(s, d) ==
    [event EXCEPT ![<<s, d>>] = [action |-> "release", rev |-> policy[s].rev + 1]]

WithRelease(s, d) ==
    [event EXCEPT ![<<s, d>>] = [action |-> "release", rev |-> policy[s].rev]]

-----------------------------------------------------------------------------
(* Helpers of the actions.                                                 *)

Goto(p, label) == pc' = [pc EXCEPT ![p] = label]

Return(p) ==
    /\ pc' = [pc EXCEPT ![p] = "idle"]
    /\ job' = [job EXCEPT ![p] = NoJob]

Unlocked == lock = None

IsUpload(p) == job[p].src \in UploadSources

-----------------------------------------------------------------------------
(* TestamurUserFileIngest.ingest_bytes and TestamurSourceGateway.fetch.    *)

(* ingest_bytes: a fresh opaque locator, hence a fresh source.             *)
UploadStart(p, s, d, raw) ==
    /\ pc[p] = "idle"
    /\ Unlocked
    /\ s \in UploadSources \ sources
    /\ sources' = sources \cup {s}
    /\ job' = [job EXCEPT ![p] = NewJob(s, d, raw, {})]
    /\ Goto(p, "claim")
    /\ UNCHANGED <<revisions, snapshots, policy, event, claims, lock, file>>

Claim(p) ==
    /\ pc[p] = "claim"
    /\ Unlocked
    /\ claims' = claims \cup {<<job[p].src, job[p].dig>>}
    /\ Goto(p, "put")
    /\ UNCHANGED <<sources, revisions, snapshots, policy, event, lock, file, job>>

(* fetch: the bytes have been retrieved; the same locator may be fetched   *)
(* again, with the same or other content.  No claim is taken.              *)
GatewayStart(p, s, d) ==
    /\ pc[p] = "idle"
    /\ s \in sources \/ Unlocked
    /\ s \in GatewaySources
    /\ sources' = sources \cup {s}
    /\ job' = [job EXCEPT ![p] = NewJob(s, d, None, {})]
    /\ Goto(p, "put")
    /\ UNCHANGED <<revisions, snapshots, policy, event, claims, lock, file>>

AfterPut(p) == IF IsUpload(p) THEN "policy" ELSE "revision"

(* put: the existence check.  Existing bytes are verified, not rewritten;  *)
(* corrupt ones raise.                                                     *)
PutCheck(p) ==
    /\ pc[p] = "put"
    /\ \/ /\ file[job[p].dig] = "absent"
          /\ Goto(p, "rename")
          /\ UNCHANGED job
       \/ /\ file[job[p].dig] = "intact"
          /\ Goto(p, AfterPut(p))
          /\ UNCHANGED job
       \/ /\ file[job[p].dig] = "corrupt"
          /\ IF IsUpload(p) THEN Goto(p, "unclaim") /\ UNCHANGED job
                            ELSE Return(p)
    /\ UNCHANGED <<db, lock, file>>

(* put: the temporary file replaces the target.                            *)
PutRename(p) ==
    /\ pc[p] = "rename"
    /\ file' = [file EXCEPT ![job[p].dig] = "intact"]
    /\ Goto(p, AfterPut(p))
    /\ UNCHANGED <<db, lock, job>>

(* record_policy inside ingest_bytes; private_metadata.set follows it and  *)
(* writes a table nothing here reads.                                      *)
RecordPolicy(p) ==
    /\ pc[p] = "policy"
    /\ Unlocked
    /\ policy' = [policy EXCEPT ![job[p].src] = [rev |-> 1, raw |-> job[p].raw]]
    /\ Goto(p, "revision")
    /\ UNCHANGED <<sources, revisions, snapshots, event, claims, lock, file, job>>

EnsureRevision_UnclaimFirst(p) ==
    /\ pc[p] = "revision"
    /\ Unlocked
    /\ \/ /\ <<job[p].src, job[p].dig>> \in claims
          /\ claims' = claims \ {<<job[p].src, job[p].dig>>}
          /\ UNCHANGED <<revisions, pc>>
       \/ /\ <<job[p].src, job[p].dig>> \notin claims
          /\ revisions' = revisions \cup {<<job[p].src, job[p].dig>>}
          /\ Goto(p, "snapshot")
          /\ UNCHANGED claims
    /\ UNCHANGED <<sources, snapshots, policy, event, lock, file, job>>

(* record_snapshot: the revision row is a transaction of its own ...       *)
EnsureRevision(p) ==
    /\ pc[p] = "revision"
    /\ Unlocked
    /\ revisions' = revisions \cup {<<job[p].src, job[p].dig>>}
    /\ Goto(p, "snapshot")
    /\ UNCHANGED <<sources, snapshots, policy, event, claims, lock, file, job>>

(* ... and the snapshot row another.                                       *)
RecordSnapshot(p) ==
    /\ pc[p] = "snapshot"
    /\ Unlocked
    /\ snapshots' = snapshots \cup {<<job[p].src, job[p].dig>>}
    /\ IF IsUpload(p) THEN Goto(p, "unclaim") /\ UNCHANGED job ELSE Return(p)
    /\ UNCHANGED <<sources, revisions, policy, event, claims, lock, file>>

(* The finally block of ingest_bytes.                                      *)
ReleaseClaim(p) ==
    /\ pc[p] = "unclaim"
    /\ Unlocked
    /\ claims' = claims \ {<<job[p].src, job[p].dig>>}
    /\ Return(p)
    /\ UNCHANGED <<sources, revisions, snapshots, policy, event, lock, file>>

(* Any exception after the claim runs the finally block.                   *)
UploadRaises(p) ==
    /\ pc[p] \in {"put", "rename", "policy", "revision", "snapshot"}
    /\ IsUpload(p)
    /\ Goto(p, "unclaim")
    /\ UNCHANGED <<db, lock, file, job>>

-----------------------------------------------------------------------------
(* `testamur source retention`: record_policy, then retain_source.         *)

RetentionStart(p, s, raw) ==
    /\ pc[p] = "idle"
    /\ s \in sources
    /\ policy[s].rev \in 1..(MaxPolicyRev - 1)
    /\ job' = [job EXCEPT ![p] = NewJob(s, None, raw, {})]
    /\ Goto(p, "set_policy")
    /\ UNCHANGED <<db, lock, file>>

SetPolicy(p) ==
    /\ pc[p] = "set_policy"
    /\ Unlocked
    /\ policy[job[p].src].rev < MaxPolicyRev
    /\ policy' = [policy EXCEPT ![job[p].src] =
                    [rev |-> @.rev + 1, raw |-> job[p].raw]]
    /\ IF job[p].raw = "retain" THEN Goto(p, "retain_list") /\ UNCHANGED job
                                ELSE Return(p)
    /\ UNCHANGED <<sources, revisions, snapshots, event, claims, lock, file>>

(* The bound on policy revisions was reached by another process.           *)
SetPolicyBound(p) ==
    /\ pc[p] = "set_policy"
    /\ policy[job[p].src].rev = MaxPolicyRev
    /\ Return(p)
    /\ UNCHANGED <<db, lock, file>>

(* retain_source: the digests are listed before any event is appended.     *)
RetainList(p) ==
    /\ pc[p] = "retain_list"
    /\ job' = [job EXCEPT ![p].todo = DigestsOf(job[p].src)]
    /\ Goto(p, "retaining")
    /\ UNCHANGED <<db, lock, file>>

(* record_event(action="retain"), one locked transaction per digest.  An   *)
(* equal latest event is reused; writing it again changes nothing.         *)
RetainOne(p, d) ==
    /\ pc[p] = "retaining"
    /\ Unlocked
    /\ d \in job[p].todo
    /\ event' = [event EXCEPT ![<<job[p].src, d>>] =
                   [action |-> "retain", rev |-> policy[job[p].src].rev]]
    /\ job' = [job EXCEPT ![p].todo = @ \ {d}]
    /\ UNCHANGED <<sources, revisions, snapshots, policy, claims, lock, file, pc>>

RetainDone(p) ==
    /\ pc[p] = "retaining"
    /\ job[p].todo = {}
    /\ Return(p)
    /\ UNCHANGED <<db, lock, file>>

-----------------------------------------------------------------------------
(* `testamur source purge`: purge_source and _purge_digest.                *)

(* The policy is read, then the digests; the policy is read again under    *)
(* the lock for every digest, so the two reads are one step here.          *)
PurgeStart(p, s) ==
    /\ pc[p] = "idle"
    /\ s \in sources
    /\ policy[s].rev # 0
    /\ policy[s].raw = "purge_on_request"
    /\ job' = [job EXCEPT ![p] = NewJob(s, None, None, DigestsOf(s))]
    /\ Goto(p, "purging")
    /\ UNCHANGED <<db, lock, file>>

(* BEGIN IMMEDIATE; the current policy no longer permits purge: rollback.  *)
PurgeRefused(p) ==
    /\ pc[p] = "purging"
    /\ Unlocked
    /\ job[p].todo # {}
    /\ policy[job[p].src].raw # "purge_on_request"
    /\ Return(p)
    /\ UNCHANGED <<db, lock, file>>

(* BEGIN IMMEDIATE; a reference or a claim blocks: commit the release and  *)
(* keep the bytes ("retained_shared_or_inflight").                         *)
PurgeKept_Retry(p, d) ==
    /\ pc[p] = "purging"
    /\ Unlocked
    /\ d \in job[p].todo
    /\ policy[job[p].src].raw = "purge_on_request"
    /\ ActiveRefs(d, WithRelease(job[p].src, d)) # {} \/ ClaimsOn(d) # {}
    /\ event' = WithRelease(job[p].src, d)
    /\ UNCHANGED <<sources, revisions, snapshots, policy, claims, lock, file, pc, job>>

PurgeKept(p, d) ==
    /\ pc[p] = "purging"
    /\ Unlocked
    /\ d \in job[p].todo
    /\ policy[job[p].src].raw = "purge_on_request"
    /\ ActiveRefs(d, WithRelease(job[p].src, d)) # {} \/ ClaimsOn(d) # {}
    /\ event' = WithRelease(job[p].src, d)
    /\ job' = [job EXCEPT ![p].todo = @ \ {d}]
    /\ UNCHANGED <<sources, revisions, snapshots, policy, claims, lock, file, pc>>

(* BEGIN IMMEDIATE; nothing blocks: go on to unlink with the lock held.    *)
PurgeDecide_Deferred(p, d) ==
    /\ pc[p] = "purging"
    /\ Unlocked
    /\ d \in job[p].todo
    /\ policy[job[p].src].raw = "purge_on_request"
    /\ ActiveRefs(d, WithRelease(job[p].src, d)) = {} /\ ClaimsOn(d) = {}
    /\ job' = [job EXCEPT ![p].dig = d]
    /\ Goto(p, "unlink")
    /\ UNCHANGED <<db, lock, file>>

PurgeDecide(p, d) ==
    /\ pc[p] = "purging"
    /\ Unlocked
    /\ d \in job[p].todo
    /\ policy[job[p].src].raw = "purge_on_request"
    /\ ActiveRefs(d, WithRelease(job[p].src, d)) = {} /\ ClaimsOn(d) = {}
    /\ lock' = p
    /\ job' = [job EXCEPT ![p].dig = d]
    /\ Goto(p, "unlink")
    /\ UNCHANGED <<db, file>>

(* delete_verified, inside the transaction; corrupt bytes raise and the    *)
(* release event is rolled back.                                           *)
PurgeUnlink(p) ==
    /\ pc[p] = "unlink"
    /\ \/ /\ file[job[p].dig] = "corrupt"
          /\ lock' = None
          /\ Return(p)
          /\ UNCHANGED file
       \/ /\ file[job[p].dig] # "corrupt"
          /\ file' = [file EXCEPT ![job[p].dig] = "absent"]
          /\ Goto(p, "commit")
          /\ UNCHANGED <<lock, job>>
    /\ UNCHANGED db

PurgeCommit(p) ==
    /\ pc[p] = "commit"
    /\ event' = WithRelease(job[p].src, job[p].dig)
    /\ lock' = None
    /\ job' = [job EXCEPT ![p].todo = @ \ {job[p].dig}, ![p].dig = None]
    /\ Goto(p, "purging")
    /\ UNCHANGED <<sources, revisions, snapshots, policy, claims, file>>

PurgeDone(p) ==
    /\ pc[p] = "purging"
    /\ job[p].todo = {}
    /\ Return(p)
    /\ UNCHANGED <<db, lock, file>>

-----------------------------------------------------------------------------
(* Failures.                                                               *)

WaitsForLock(p) ==
    \/ pc[p] \in WritingPC
    \/ pc[p] \in {"retaining", "purging"} /\ job[p].todo # {}

(* sqlite3.connect(timeout=15): a writer that waits too long raises.  An   *)
(* upload then still tries to release its claim; when it is that very      *)
(* delete which times out, the claim stays.                                *)
LockTimeout(p) ==
    /\ ~Unlocked
    /\ WaitsForLock(p)
    /\ IF pc[p] \in {"policy", "revision", "snapshot"} /\ IsUpload(p)
       THEN Goto(p, "unclaim") /\ UNCHANGED job
       ELSE Return(p)
    /\ UNCHANGED <<db, lock, file>>

(* The process dies, or its operation raises with nothing to clean up.  An *)
(* open transaction is rolled back; files and claims stay as they are.     *)
Crash(p) ==
    /\ pc[p] # "idle"
    /\ Return(p)
    /\ lock' = IF lock = p THEN None ELSE lock
    /\ UNCHANGED <<db, file>>

(* Bytes on disk stop matching their digest.                               *)
Corrupt(d) ==
    /\ file[d] = "intact"
    /\ file' = [file EXCEPT ![d] = "corrupt"]
    /\ UNCHANGED <<db, lock, pc, job>>

-----------------------------------------------------------------------------
Request(p) ==
    \/ \E s \in Sources, d \in Digests :
          \/ \E raw \in RawPolicies : UploadStart(p, s, d, raw)
          \/ GatewayStart(p, s, d)
    \/ \E s \in Sources, raw \in RawPolicies : RetentionStart(p, s, raw)
    \/ \E s \in Sources : PurgeStart(p, s)

Capture(p) ==
    \/ Claim(p) \/ PutCheck(p) \/ PutRename(p) \/ RecordPolicy(p)
    \/ EnsureRevision(p) \/ RecordSnapshot(p) \/ ReleaseClaim(p)

Retain(p) ==
    \/ SetPolicy(p) \/ SetPolicyBound(p) \/ RetainList(p) \/ RetainDone(p)
    \/ \E d \in Digests : RetainOne(p, d)

Purge(p) ==
    \/ PurgeRefused(p) \/ PurgeUnlink(p) \/ PurgeCommit(p) \/ PurgeDone(p)
    \/ \E d \in Digests : PurgeKept(p, d) \/ PurgeDecide(p, d)

(* What a running process does by itself.                                  *)
Work(p) == Capture(p) \/ Retain(p) \/ Purge(p) \/ LockTimeout(p)

Next ==
    \/ \E p \in Procs : Request(p) \/ Work(p) \/ UploadRaises(p) \/ Crash(p)
    \/ \E d \in Digests : Corrupt(d)

Spec == Init /\ [][Next]_vars

FairSpec == Spec /\ \A p \in Procs : WF_vars(Work(p))

-----------------------------------------------------------------------------
(* Properties.                                                             *)

(* The claim taken before put protects the bytes: an upload that is past   *)
(* put and has not started to clean up finds its bytes in the store,       *)
(* whatever purges run (_purge_digest counts claims under its lock).       *)
ClaimedWriterHasBytes ==
    \A p \in Procs :
        /\ IsUpload(p)
        /\ pc[p] \in {"policy", "revision", "snapshot"}
        => file[job[p].dig] # "absent"

(* Deleting shared bytes for one source does not take them from another:   *)
(* an uploaded revision whose source has only ever had its initial retain  *)
(* policy keeps its bytes, through purges of every other source and        *)
(* crashes at any point (ActiveRefs, claims and the purge lock together).  *)
NeverPurgeableKept ==
    \A s \in UploadSources, d \in Digests :
        /\ <<s, d>> \in revisions
        /\ policy[s] = [rev |-> 1, raw |-> "retain"]
        => file[d] # "absent"

(* The latest event of a reference as the purge that is past its decision  *)
(* sees it: its own release, not yet committed.                            *)
Deciding(s, d) ==
    \E p \in Procs : /\ pc[p] \in {"unlink", "commit"}
                     /\ job[p].src = s
                     /\ job[p].dig = d

SeenEvent(s, d) ==
    IF Deciding(s, d) THEN WithRelease(s, d)[<<s, d>>] ELSE event[<<s, d>>]

(* Bytes leave the store only when, at that very step, every source that   *)
(* references them has released them under its current policy and no       *)
(* capture of them is in flight: the decision taken two steps earlier      *)
(* still holds (the write lock of _purge_digest).                          *)
DeletionIsUnreferenced ==
    [][\A d \in Digests :
          file[d] # "absent" /\ file'[d] = "absent"
          => /\ ClaimsOn(d) = {}
             /\ \A s \in Sources : <<s, d>> \in revisions
                                   => Released(s, SeenEvent(s, d))]_vars

(* A release of an older policy epoch never becomes effective again: a     *)
(* reference stops being active only by a purge of its own source, under   *)
(* the policy revision that is current before and after the step.          *)
ReleaseNeverRevives ==
    [][\A s \in Sources, d \in Digests :
          /\ <<s, d>> \in revisions
          /\ ~Released(s, event[<<s, d>>])
          /\ Released(s, event[<<s, d>>])'
          => /\ policy'[s] = policy[s]
             /\ \E p \in Procs : pc[p] \in {"purging", "commit"}
                                 /\ job[p].src = s]_vars

(* Every upload, fetch, retention change and purge comes to an end, with   *)
(* or without success, although all of them compete for one write lock     *)
(* (busy timeout) and a purge finds blockers it cannot remove.             *)
OperationsReturn == \A p \in Procs : pc[p] # "idle" ~> pc[p] = "idle"

(* TESTAMUR_BLOB_RETENTION.md 6-7 and the class comment: the put-to-record *)
(* window is closed, so a captured revision of a source nobody can purge   *)
(* has its bytes.  Gateway sources have no policy and are never released.  *)
GatewayReferenceHasBytes ==
    \A r \in snapshots : r[1] \in GatewaySources => file[r[2]] # "absent"

(* TESTAMUR_BLOB_RETENTION.md 3 and 5: no retention event means retain, so *)
(* while no purge is in its critical section the bytes of an uploaded      *)
(* revision without an event are in the store.  A crash between unlink and *)
(* commit breaks this, as the README describes; no run checks it.          *)
NoEventMeansRetained ==
    \A r \in revisions :
        r[1] \in UploadSources /\ event[r] = NoEvent /\ Unlocked
        => file[r[2]] # "absent"

-----------------------------------------------------------------------------
(* Refinement of ByteCustody: which upload may still ask for which bytes.  *)
stored == {d \in Digests : file[d] # "absent"}

custody ==
    [r \in UploadSources \X Digests |->
        IF r \notin revisions THEN "none"
        ELSE IF Released(r[1], SeenEvent(r[1], r[2])) THEN "released"
        ELSE IF r[2] \in stored THEN "held" ELSE "lost"]

Custody == INSTANCE ByteCustody
           WITH Sources <- UploadSources, Digests <- Digests,
                stored <- stored, custody <- custody

(* For uploads, whose writers take claims, the store implements            *)
(* ByteCustody whatever the gateway does beside them: a captured reference *)
(* can lose its bytes only after its own source released them.             *)
CustodySpec == Custody!Spec

-----------------------------------------------------------------------------
(* The inductive invariant behind the theorems of BlobRetention_proof.     *)

BeforePolicyPC == {"claim", "put", "rename", "policy"}
CapturePC      == BeforePolicyPC \cup {"revision", "snapshot", "unclaim"}
ClaimedPC      == {"put", "rename", "policy", "revision", "snapshot"}
CriticalPC     == {"unlink", "commit"}

(* A running operation has the local variables it uses.                    *)
JobFits ==
    \A p \in Procs :
        /\ pc[p] # "idle" => job[p].src \in sources
        /\ pc[p] \in CapturePC \cup CriticalPC => job[p].dig \in Digests
        /\ pc[p] \in {"claim", "policy", "unclaim"} => IsUpload(p)
        /\ pc[p] \in BeforePolicyPC /\ IsUpload(p) => job[p].raw \in RawPolicies
        /\ pc[p] = "set_policy" => /\ job[p].raw \in RawPolicies
                                   /\ policy[job[p].src].rev # 0

(* Every upload has a source of its own.                                   *)
UploadsApart ==
    \A p, q \in Procs :
        /\ pc[p] \in CapturePC
        /\ pc[q] \in CapturePC
        /\ IsUpload(p)
        /\ job[p].src = job[q].src
        => p = q

RevisionsHaveSources == \A r \in revisions : r[1] \in sources

(* An upload records its revision after its policy.                        *)
PolicyFirst ==
    \A p \in Procs, d \in Digests :
        pc[p] \in BeforePolicyPC /\ IsUpload(p)
        => <<job[p].src, d>> \notin revisions

UploadHoldsClaim ==
    \A p \in Procs :
        pc[p] \in ClaimedPC /\ IsUpload(p)
        => <<job[p].src, job[p].dig>> \in claims

(* What a purge found when it took the lock still holds: the lock keeps    *)
(* every other writer out.                                                 *)
DecisionHolds ==
    \A p \in Procs :
        pc[p] \in CriticalPC
        => /\ lock = p
           /\ ActiveRefs(job[p].dig, WithRelease(job[p].src, job[p].dig)) = {}
           /\ ClaimsOn(job[p].dig) = {}

IInv ==
    /\ TypeOK
    /\ JobFits
    /\ UploadsApart
    /\ RevisionsHaveSources
    /\ PolicyFirst
    /\ UploadHoldsClaim
    /\ DecisionHolds
    /\ ClaimedWriterHasBytes
    /\ NeverPurgeableKept
=============================================================================
