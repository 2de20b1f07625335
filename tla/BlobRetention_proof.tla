------------------------- MODULE BlobRetention_proof -------------------------
(***************************************************************************)
(* Proofs about BlobRetention for any sets of sources, digests and         *)
(* processes.  IInv, defined there, is inductive: the write lock freezes   *)
(* what a purge decided on (DecisionHolds), a running upload keeps its     *)
(* claim (UploadHoldsClaim, which needs UploadsApart: nobody else deletes  *)
(* it), so an unlink meets neither a claim nor an active reference.        *)
(* EpochInv adds that events belong to recorded revisions and to policy    *)
(* epochs that have begun; from it follow ReleaseNeverRevives and, action  *)
(* by action, that the store implements ByteCustody.                       *)
(***************************************************************************)
EXTENDS BlobRetention, TLAPS

USE DisjointKinds, NoneIsFresh, MaxPolicyRevIsPos
    DEF Sources, Policy, Event, Job, PC, RawPolicies, NoPolicy, NoEvent, NoJob,
        NewJob, db, Goto, Return, Unlocked, IsUpload

(* The empty database and the empty blob directory.                        *)
LEMMA InitIInv == Init => IInv
<1> SUFFICES ASSUME Init PROVE IInv
  OBVIOUS
<1> USE DEF Init
<1>1. TypeOK
  BY DEF TypeOK
<1>2. /\ JobFits /\ UploadsApart /\ RevisionsHaveSources
      /\ PolicyFirst /\ UploadHoldsClaim
  BY DEF JobFits, UploadsApart, RevisionsHaveSources, PolicyFirst,
     UploadHoldsClaim, BeforePolicyPC, CapturePC, CriticalPC
<1>3. DecisionHolds /\ ClaimedWriterHasBytes /\ NeverPurgeableKept
  BY DEF DecisionHolds, ClaimedWriterHasBytes, NeverPurgeableKept, CriticalPC
<1> QED BY <1>1, <1>2, <1>3 DEF IInv

(* Moving a process to another label keeps pc typed.                       *)
LEMMA GotoTyped ==
    ASSUME TypeOK, NEW p \in Procs, NEW label \in PC, Goto(p, label)
    PROVE  pc' \in [Procs -> PC]
BY DEF TypeOK

(* So does ending its operation.                                           *)
LEMMA ReturnTyped ==
    ASSUME TypeOK, NEW p \in Procs, Return(p)
    PROVE  pc' \in [Procs -> PC] /\ job' \in [Procs -> Job]
<1>1. NoJob \in Job
  OBVIOUS
<1> QED BY DEF TypeOK

(* Updating the list of digests to retain or purge keeps job typed ...     *)
LEMMA TodoTyped ==
    ASSUME TypeOK, NEW p \in Procs, NEW D \in SUBSET Digests
    PROVE  [job EXCEPT ![p].todo = D] \in [Procs -> Job]
<1>1. job \in [Procs -> Job] /\ job[p] \in Job
  BY DEF TypeOK
<1> QED BY <1>1

(* ... and so does setting the digest a purge is about to unlink.          *)
LEMMA DigTyped ==
    ASSUME TypeOK, NEW p \in Procs, NEW d \in Digests
    PROVE  [job EXCEPT ![p].dig = d] \in [Procs -> Job]
<1>1. job \in [Procs -> Job] /\ job[p] \in Job
  BY DEF TypeOK
<1> QED BY <1>1

(* An operation that ends, normally or not, without touching rows or files *)
(* disturbs nothing; it may give back the lock it holds.                   *)
LEMMA ReturnKeeps ==
    ASSUME IInv, NEW p \in Procs, Return(p), UNCHANGED <<db, file>>,
           lock' = lock \/ (lock = p /\ lock' = None)
    PROVE  IInv'
<1> USE DEF IInv
<1>1. TypeOK'
  BY DEF TypeOK
<1>2. JobFits'
  BY DEF TypeOK, JobFits, BeforePolicyPC, CapturePC, CriticalPC
<1>3. UploadsApart' /\ RevisionsHaveSources' /\ PolicyFirst'
  BY DEF UploadsApart, RevisionsHaveSources, PolicyFirst, BeforePolicyPC,
     CapturePC
<1>4. UploadHoldsClaim' /\ ClaimedWriterHasBytes'
  BY DEF UploadHoldsClaim, ClaimedWriterHasBytes, ClaimedPC
<1>5. DecisionHolds'
  BY DEF TypeOK, DecisionHolds, ActiveRefs, ClaimsOn, WithRelease, Released,
     CriticalPC
<1>6. NeverPurgeableKept'
  BY DEF NeverPurgeableKept
<1> QED BY <1>1, <1>2, <1>3, <1>4, <1>5, <1>6

(* An upload that turns to its finally block disturbs nothing.             *)
LEMMA UnclaimKeeps ==
    ASSUME IInv, NEW p \in Procs, Goto(p, "unclaim"), IsUpload(p),
           pc[p] \in CapturePC, UNCHANGED <<db, lock, file, job>>
    PROVE  IInv'
<1> USE DEF IInv
<1>1. TypeOK'
  BY DEF TypeOK
<1>2. JobFits'
  BY DEF JobFits, BeforePolicyPC, CapturePC
<1>3. UploadsApart' /\ RevisionsHaveSources' /\ PolicyFirst'
  BY DEF UploadsApart, RevisionsHaveSources, PolicyFirst, BeforePolicyPC
<1>4. UploadHoldsClaim' /\ ClaimedWriterHasBytes'
  BY DEF UploadHoldsClaim, ClaimedWriterHasBytes, ClaimedPC
<1>5. DecisionHolds'
  BY DEF DecisionHolds, ActiveRefs, ClaimsOn, WithRelease, Released, CriticalPC
<1>6. NeverPurgeableKept'
  BY DEF NeverPurgeableKept
<1> QED BY <1>1, <1>2, <1>3, <1>4, <1>5, <1>6

(* A request starts an operation with fresh local variables and a source
   that exists. *)
LEMMA RequestStep ==
    ASSUME IInv, NEW p \in Procs, Request(p)
    PROVE  IInv'
<1> USE DEF IInv
<1>1. ASSUME NEW s \in Sources, NEW d \in Digests, NEW raw \in RawPolicies,
            UploadStart(p, s, d, raw)
     PROVE  IInv'
  <2>1. TypeOK'
    BY <1>1 DEF UploadStart, TypeOK
  <2>2. JobFits'
    BY <1>1 DEF UploadStart, TypeOK, JobFits
  <2>3. UploadsApart' /\ RevisionsHaveSources' /\ PolicyFirst'
    BY <1>1 DEF UploadStart, TypeOK, JobFits, UploadsApart,
       RevisionsHaveSources, PolicyFirst, BeforePolicyPC, CapturePC
  <2>4. UploadHoldsClaim' /\ ClaimedWriterHasBytes'
    BY <1>1 DEF UploadStart, JobFits, UploadHoldsClaim,
       ClaimedWriterHasBytes, ClaimedPC
  <2>5. DecisionHolds'
    BY <1>1 DEF UploadStart, DecisionHolds, ActiveRefs, CriticalPC
  <2>6. NeverPurgeableKept'
    BY <1>1 DEF UploadStart, NeverPurgeableKept
  <2> QED BY <2>1, <2>2, <2>3, <2>4, <2>5, <2>6
<1>2. ASSUME NEW s \in Sources, NEW d \in Digests, GatewayStart(p, s, d)
     PROVE  IInv'
  <2>1. TypeOK'
    BY <1>2 DEF GatewayStart, TypeOK
  <2>2. JobFits'
    BY <1>2 DEF GatewayStart, TypeOK, JobFits
  <2>3. UploadsApart' /\ RevisionsHaveSources' /\ PolicyFirst'
    BY <1>2 DEF GatewayStart, TypeOK, UploadsApart, RevisionsHaveSources,
       PolicyFirst
  <2>4. UploadHoldsClaim' /\ ClaimedWriterHasBytes'
    BY <1>2 DEF GatewayStart, TypeOK, UploadHoldsClaim, ClaimedWriterHasBytes
  <2>5. DecisionHolds'
    BY <1>2 DEF GatewayStart, DecisionHolds, ActiveRefs, ClaimsOn,
       WithRelease, Released, CriticalPC
  <2>6. NeverPurgeableKept'
    BY <1>2 DEF GatewayStart, NeverPurgeableKept
  <2> QED BY <2>1, <2>2, <2>3, <2>4, <2>5, <2>6
<1>3. ASSUME NEW s \in Sources, NEW raw \in RawPolicies, RetentionStart(p, s,
            raw)
     PROVE  IInv'
  <2>1. TypeOK'
    BY <1>3 DEF RetentionStart, TypeOK
  <2>2. JobFits'
    BY <1>3 DEF RetentionStart, TypeOK, JobFits, BeforePolicyPC, CapturePC,
       CriticalPC
  <2>3. UploadsApart' /\ RevisionsHaveSources' /\ PolicyFirst'
    BY <1>3 DEF RetentionStart, UploadsApart, RevisionsHaveSources,
       PolicyFirst, BeforePolicyPC, CapturePC
  <2>4. UploadHoldsClaim' /\ ClaimedWriterHasBytes'
    BY <1>3 DEF RetentionStart, UploadHoldsClaim, ClaimedWriterHasBytes,
       ClaimedPC
  <2>5. DecisionHolds'
    BY <1>3 DEF RetentionStart, DecisionHolds, ActiveRefs, ClaimsOn,
       WithRelease, Released, CriticalPC
  <2>6. NeverPurgeableKept'
    BY <1>3 DEF RetentionStart, NeverPurgeableKept
  <2> QED BY <2>1, <2>2, <2>3, <2>4, <2>5, <2>6
<1>4. ASSUME NEW s \in Sources, PurgeStart(p, s) PROVE IInv'
  <2>1. TypeOK'
    BY <1>4 DEF PurgeStart, TypeOK, DigestsOf
  <2>2. JobFits'
    BY <1>4 DEF PurgeStart, TypeOK, JobFits, BeforePolicyPC, CapturePC,
       CriticalPC
  <2>3. UploadsApart' /\ RevisionsHaveSources' /\ PolicyFirst'
    BY <1>4 DEF PurgeStart, UploadsApart, RevisionsHaveSources, PolicyFirst,
       BeforePolicyPC, CapturePC
  <2>4. UploadHoldsClaim' /\ ClaimedWriterHasBytes'
    BY <1>4 DEF PurgeStart, UploadHoldsClaim, ClaimedWriterHasBytes, ClaimedPC
  <2>5. DecisionHolds'
    BY <1>4 DEF PurgeStart, DecisionHolds, ActiveRefs, ClaimsOn, WithRelease,
       Released, CriticalPC
  <2>6. NeverPurgeableKept'
    BY <1>4 DEF PurgeStart, NeverPurgeableKept
  <2> QED BY <2>1, <2>2, <2>3, <2>4, <2>5, <2>6
<1> QED BY <1>1, <1>2, <1>3, <1>4 DEF Request

(* Uploads and fetches. *)
LEMMA CaptureStep ==
    ASSUME IInv, NEW p \in Procs, Capture(p)
    PROVE  IInv'
<1> USE DEF IInv
<1>1. ASSUME Claim(p) PROVE IInv'
  <2>1. TypeOK'
    BY <1>1 DEF Claim, TypeOK, JobFits, BeforePolicyPC, CapturePC
  <2>2. JobFits'
    BY <1>1 DEF Claim, JobFits, BeforePolicyPC, CapturePC
  <2>3. UploadsApart' /\ RevisionsHaveSources' /\ PolicyFirst'
    BY <1>1 DEF Claim, UploadsApart, RevisionsHaveSources, PolicyFirst,
       BeforePolicyPC, CapturePC
  <2>4. UploadHoldsClaim' /\ ClaimedWriterHasBytes'
    BY <1>1 DEF Claim, UploadHoldsClaim, ClaimedWriterHasBytes
  <2>5. DecisionHolds'
    BY <1>1 DEF Claim, DecisionHolds, CriticalPC
  <2>6. NeverPurgeableKept'
    BY <1>1 DEF Claim, NeverPurgeableKept
  <2> QED BY <2>1, <2>2, <2>3, <2>4, <2>5, <2>6
<1>2. ASSUME PutCheck(p) PROVE IInv'
  <2>1. CASE file[job[p].dig] = "corrupt" /\ IsUpload(p)
    BY <1>2, <2>1, UnclaimKeeps DEF PutCheck, CapturePC, BeforePolicyPC
  <2>3. CASE file[job[p].dig] = "corrupt" /\ ~IsUpload(p)
    BY <1>2, <2>3, ReturnKeeps DEF PutCheck
  <2>2. CASE file[job[p].dig] # "corrupt"
    <3>1. TypeOK'
      BY <1>2, <2>2 DEF PutCheck, AfterPut, TypeOK
    <3>2. JobFits'
      BY <1>2, <2>2 DEF PutCheck, AfterPut, TypeOK, JobFits, BeforePolicyPC,
         CapturePC
    <3>3. UploadsApart' /\ RevisionsHaveSources' /\ PolicyFirst'
      <4>1. PICK next \in {"rename", "policy", "revision"} :
              Goto(p, next) /\ (next = "policy" => IsUpload(p))
                           /\ (IsUpload(p) => next # "revision")
        BY <1>2, <2>2 DEF PutCheck, AfterPut
      <4>2. UploadsApart'
        BY <1>2, <2>2, <4>1 DEF PutCheck, UploadsApart, CapturePC,
           BeforePolicyPC
      <4>3. RevisionsHaveSources' /\ PolicyFirst'
        BY <1>2, <2>2, <4>1 DEF PutCheck, RevisionsHaveSources, PolicyFirst,
           BeforePolicyPC
      <4> QED BY <4>2, <4>3
    <3>4. UploadHoldsClaim' /\ ClaimedWriterHasBytes'
      BY <1>2 DEF PutCheck, TypeOK, UploadHoldsClaim, ClaimedWriterHasBytes,
         ClaimedPC
    <3>5. DecisionHolds'
      BY <1>2 DEF PutCheck, AfterPut, TypeOK, DecisionHolds, ActiveRefs,
         ClaimsOn, WithRelease, Released, CriticalPC
    <3>6. NeverPurgeableKept'
      BY <1>2 DEF PutCheck, NeverPurgeableKept
    <3> QED BY <3>1, <3>2, <3>3, <3>4, <3>5, <3>6
  <2> QED BY <2>1, <2>2, <2>3
<1>3. ASSUME PutRename(p) PROVE IInv'
  <2>1. TypeOK'
    BY <1>3 DEF PutRename, AfterPut, TypeOK, JobFits, BeforePolicyPC, CapturePC
  <2>2. JobFits'
    BY <1>3 DEF PutRename, AfterPut, JobFits, BeforePolicyPC, CapturePC
  <2>3. UploadsApart' /\ RevisionsHaveSources' /\ PolicyFirst'
    BY <1>3 DEF PutRename, UploadsApart, RevisionsHaveSources, PolicyFirst,
       BeforePolicyPC, CapturePC
  <2>4. UploadHoldsClaim' /\ ClaimedWriterHasBytes'
    BY <1>3 DEF PutRename, TypeOK, JobFits, UploadHoldsClaim,
       ClaimedWriterHasBytes, BeforePolicyPC, CapturePC, ClaimedPC
  <2>5. DecisionHolds'
    BY <1>3 DEF PutRename, AfterPut, DecisionHolds, ActiveRefs, ClaimsOn,
       WithRelease, Released, CriticalPC
  <2>6. NeverPurgeableKept'
    BY <1>3 DEF PutRename, NeverPurgeableKept
  <2> QED BY <2>1, <2>2, <2>3, <2>4, <2>5, <2>6
<1>4. ASSUME RecordPolicy(p) PROVE IInv'
  <2>1. TypeOK'
    BY <1>4 DEF RecordPolicy, TypeOK, JobFits, BeforePolicyPC
  <2>2. JobFits'
    BY <1>4 DEF RecordPolicy, JobFits, BeforePolicyPC, CapturePC
  <2>3. UploadsApart' /\ RevisionsHaveSources' /\ PolicyFirst'
    BY <1>4 DEF RecordPolicy, UploadsApart, RevisionsHaveSources,
       PolicyFirst, BeforePolicyPC, CapturePC
  <2>4. UploadHoldsClaim' /\ ClaimedWriterHasBytes'
    BY <1>4 DEF RecordPolicy, UploadHoldsClaim, ClaimedWriterHasBytes,
       ClaimedPC
  <2>5. DecisionHolds'
    BY <1>4 DEF RecordPolicy, DecisionHolds, ActiveRefs, CriticalPC
  <2>6. NeverPurgeableKept'
    BY <1>4 DEF RecordPolicy, PolicyFirst, NeverPurgeableKept, BeforePolicyPC
  <2> QED BY <2>1, <2>2, <2>3, <2>4, <2>5, <2>6
<1>5. ASSUME EnsureRevision(p) PROVE IInv'
  <2>1. TypeOK'
    BY <1>5 DEF EnsureRevision, TypeOK, JobFits, CapturePC
  <2>2. JobFits'
    BY <1>5 DEF EnsureRevision, JobFits, BeforePolicyPC, CapturePC
  <2>3. UploadsApart' /\ RevisionsHaveSources' /\ PolicyFirst'
    BY <1>5 DEF EnsureRevision, JobFits, UploadsApart, RevisionsHaveSources,
       PolicyFirst, BeforePolicyPC, CapturePC
  <2>4. UploadHoldsClaim' /\ ClaimedWriterHasBytes'
    BY <1>5 DEF EnsureRevision, UploadHoldsClaim, ClaimedWriterHasBytes,
       ClaimedPC
  <2>5. DecisionHolds'
    BY <1>5 DEF EnsureRevision, DecisionHolds, ActiveRefs, CriticalPC
  <2>6. NeverPurgeableKept'
    BY <1>5 DEF EnsureRevision, ClaimedWriterHasBytes, NeverPurgeableKept
  <2> QED BY <2>1, <2>2, <2>3, <2>4, <2>5, <2>6
<1>6. ASSUME RecordSnapshot(p) PROVE IInv'
  <2>1. TypeOK'
    <3>1. job' \in [Procs -> Job] /\ pc' \in [Procs -> PC]
      <4>1. CASE Goto(p, "unclaim") /\ UNCHANGED job
        BY <4>1, GotoTyped DEF TypeOK
      <4>2. CASE Return(p)
        BY <4>2, ReturnTyped
      <4> QED BY <1>6, <4>1, <4>2 DEF RecordSnapshot
    <3>2. snapshots' \subseteq Sources \X Digests
      BY <1>6 DEF RecordSnapshot, TypeOK, JobFits, CapturePC
    <3> QED BY <1>6, <3>1, <3>2 DEF RecordSnapshot, TypeOK
  <2>2. JobFits'
    BY <1>6 DEF RecordSnapshot, TypeOK, JobFits, BeforePolicyPC, CapturePC,
       CriticalPC
  <2>3. UploadsApart' /\ RevisionsHaveSources' /\ PolicyFirst'
    BY <1>6 DEF RecordSnapshot, TypeOK, JobFits, UploadsApart,
       RevisionsHaveSources, PolicyFirst, BeforePolicyPC, CapturePC, CriticalPC
  <2>4. UploadHoldsClaim' /\ ClaimedWriterHasBytes'
    BY <1>6 DEF RecordSnapshot, TypeOK, UploadsApart, UploadHoldsClaim,
       ClaimedWriterHasBytes, BeforePolicyPC, CapturePC, ClaimedPC
  <2>5. DecisionHolds'
    BY <1>6 DEF RecordSnapshot, TypeOK, DecisionHolds, ActiveRefs, CriticalPC
  <2>6. NeverPurgeableKept'
    BY <1>6 DEF RecordSnapshot, NeverPurgeableKept
  <2> QED BY <2>1, <2>2, <2>3, <2>4, <2>5, <2>6
<1>7. ASSUME ReleaseClaim(p) PROVE IInv'
  <2>1. TypeOK'
    BY <1>7 DEF ReleaseClaim, TypeOK
  <2>2. JobFits'
    BY <1>7 DEF ReleaseClaim, TypeOK, JobFits, BeforePolicyPC, CapturePC,
       CriticalPC
  <2>3. UploadsApart' /\ RevisionsHaveSources' /\ PolicyFirst'
    BY <1>7 DEF ReleaseClaim, UploadsApart, RevisionsHaveSources,
       PolicyFirst, BeforePolicyPC, CapturePC
  <2>4. UploadHoldsClaim' /\ ClaimedWriterHasBytes'
    BY <1>7 DEF ReleaseClaim, JobFits, UploadsApart, UploadHoldsClaim,
       ClaimedWriterHasBytes, BeforePolicyPC, CapturePC, ClaimedPC
  <2>5. DecisionHolds'
    BY <1>7 DEF ReleaseClaim, DecisionHolds, ActiveRefs, CriticalPC
  <2>6. NeverPurgeableKept'
    BY <1>7 DEF ReleaseClaim, NeverPurgeableKept
  <2> QED BY <2>1, <2>2, <2>3, <2>4, <2>5, <2>6
<1> QED BY <1>1, <1>2, <1>3, <1>4, <1>5, <1>6, <1>7 DEF Capture

(* Policy changes and retain events. *)
LEMMA RetainStep ==
    ASSUME IInv, NEW p \in Procs, Retain(p)
    PROVE  IInv'
<1> USE DEF IInv
<1>1. ASSUME SetPolicy(p) PROVE IInv'
  <2>1. TypeOK'
    <3>1. job' \in [Procs -> Job] /\ pc' \in [Procs -> PC]
      <4>1. CASE Goto(p, "retain_list") /\ UNCHANGED job
        BY <4>1, GotoTyped DEF TypeOK
      <4>2. CASE Return(p)
        BY <4>2, ReturnTyped
      <4> QED BY <1>1, <4>1, <4>2 DEF SetPolicy
    <3>2. policy' \in [Sources -> Policy]
      BY <1>1 DEF SetPolicy, TypeOK, JobFits
    <3> QED BY <1>1, <3>1, <3>2 DEF SetPolicy, TypeOK
  <2>2. JobFits'
    BY <1>1 DEF SetPolicy, TypeOK, JobFits, BeforePolicyPC, CapturePC,
       CriticalPC
  <2>3. UploadsApart' /\ RevisionsHaveSources' /\ PolicyFirst'
    <3>1. pc'[p] \notin CapturePC
      BY <1>1 DEF SetPolicy, TypeOK, CapturePC, BeforePolicyPC
    <3>2. \A q \in Procs \ {p} : pc'[q] = pc[q] /\ job'[q] = job[q]
      BY <1>1 DEF SetPolicy, TypeOK
    <3>3. UploadsApart'
      BY <3>1, <3>2 DEF UploadsApart
    <3>4. RevisionsHaveSources' /\ PolicyFirst'
      BY <1>1, <3>1, <3>2 DEF SetPolicy, RevisionsHaveSources, PolicyFirst,
         CapturePC
    <3> QED BY <3>3, <3>4
  <2>4. UploadHoldsClaim' /\ ClaimedWriterHasBytes'
    BY <1>1 DEF SetPolicy, TypeOK, JobFits, UploadsApart, UploadHoldsClaim,
       ClaimedWriterHasBytes, DecisionHolds, BeforePolicyPC, CapturePC,
       ClaimedPC, CriticalPC
  <2>5. DecisionHolds'
    BY <1>1 DEF SetPolicy, TypeOK, DecisionHolds, ActiveRefs, CriticalPC
  <2>6. NeverPurgeableKept'
    <3> DEFINE s == job[p].src
    <3>1. s \in Sources /\ policy'[s].rev # 1
      <4>1. /\ s \in Sources
            /\ policy[s] \in Policy
            /\ policy[s].rev # 0
        BY <1>1 DEF SetPolicy, TypeOK, JobFits
      <4>2. policy'[s].rev = policy[s].rev + 1
        BY <1>1, <4>1 DEF SetPolicy, TypeOK
      <4> QED BY <4>1, <4>2
    <3>2. \A t \in Sources \ {s} : policy'[t] = policy[t]
      BY <1>1 DEF SetPolicy
    <3> QED BY <1>1, <3>1 DEF SetPolicy, NeverPurgeableKept
  <2> QED BY <2>1, <2>2, <2>3, <2>4, <2>5, <2>6
<1>2. ASSUME SetPolicyBound(p) PROVE IInv'
  BY <1>2, ReturnKeeps DEF SetPolicyBound
<1>3. ASSUME RetainList(p) PROVE IInv'
  <2>1. TypeOK'
    <3>1. job' \in [Procs -> Job]
      BY <1>3, TodoTyped DEF RetainList, DigestsOf
    <3>2. event' \in [Sources \X Digests -> Event]
      BY <1>3 DEF RetainList, TypeOK
    <3> QED BY <1>3, <3>1 DEF RetainList, TypeOK
  <2>2. JobFits'
    BY <1>3 DEF RetainList, JobFits, BeforePolicyPC, CapturePC, CriticalPC
  <2>3. UploadsApart' /\ RevisionsHaveSources' /\ PolicyFirst'
    BY <1>3 DEF RetainList, UploadsApart, RevisionsHaveSources, PolicyFirst,
       BeforePolicyPC, CapturePC
  <2>4. UploadHoldsClaim' /\ ClaimedWriterHasBytes'
    BY <1>3 DEF RetainList, UploadHoldsClaim, ClaimedWriterHasBytes, ClaimedPC
  <2>5. DecisionHolds'
    BY <1>3 DEF RetainList, DecisionHolds, ActiveRefs, ClaimsOn, WithRelease,
       Released, CriticalPC
  <2>6. NeverPurgeableKept'
    BY <1>3 DEF RetainList, NeverPurgeableKept
  <2> QED BY <2>1, <2>2, <2>3, <2>4, <2>5, <2>6
<1>4. ASSUME RetainDone(p) PROVE IInv'
  BY <1>4, ReturnKeeps DEF RetainDone
<1>5. ASSUME NEW d \in Digests, RetainOne(p, d) PROVE IInv'
  <2>1. TypeOK'
    <3>1. job' \in [Procs -> Job]
      <4>1. job[p].todo \ {d} \in SUBSET Digests
        BY DEF TypeOK
      <4> QED BY <1>5, <4>1, TodoTyped DEF RetainOne
    <3>2. event' \in [Sources \X Digests -> Event]
      BY <1>5 DEF RetainOne, TypeOK, JobFits
    <3> QED BY <1>5, <3>1, <3>2 DEF RetainOne, TypeOK
  <2>2. JobFits'
    BY <1>5 DEF RetainOne, JobFits
  <2>3. UploadsApart' /\ RevisionsHaveSources' /\ PolicyFirst'
    BY <1>5 DEF RetainOne, UploadsApart, RevisionsHaveSources, PolicyFirst
  <2>4. UploadHoldsClaim' /\ ClaimedWriterHasBytes'
    BY <1>5 DEF RetainOne, UploadHoldsClaim, ClaimedWriterHasBytes
  <2>5. DecisionHolds'
    BY <1>5 DEF RetainOne, TypeOK, JobFits, DecisionHolds, ActiveRefs,
       ClaimsOn, WithRelease, Released, CriticalPC
  <2>6. NeverPurgeableKept'
    BY <1>5 DEF RetainOne, NeverPurgeableKept
  <2> QED BY <2>1, <2>2, <2>3, <2>4, <2>5, <2>6
<1> QED BY <1>1, <1>2, <1>3, <1>4, <1>5 DEF Retain

(* Purges: only the unlink takes bytes away, and what the decision found
   rules out every harm. *)
LEMMA PurgeStep ==
    ASSUME IInv, NEW p \in Procs, Purge(p)
    PROVE  IInv'
<1> USE DEF IInv
<1>1. ASSUME PurgeRefused(p) PROVE IInv'
  BY <1>1, ReturnKeeps DEF PurgeRefused
<1>2. ASSUME PurgeUnlink(p) PROVE IInv'
  <2>1. CASE file[job[p].dig] = "corrupt"
    BY <1>2, <2>1, ReturnKeeps DEF PurgeUnlink, DecisionHolds, CriticalPC
  <2>2. CASE file[job[p].dig] # "corrupt"
    <3>1. TypeOK'
      <4>1. pc' \in [Procs -> PC]
        BY <1>2 DEF PurgeUnlink, TypeOK
      <4>2. file' \in [Digests -> {"absent", "intact", "corrupt"}]
        BY <1>2 DEF PurgeUnlink, TypeOK
      <4> QED BY <1>2, <2>2, <4>1 DEF PurgeUnlink, TypeOK
    <3>2. JobFits'
      BY <1>2 DEF PurgeUnlink, TypeOK, JobFits, BeforePolicyPC, CapturePC,
         CriticalPC
    <3>3. UploadsApart' /\ RevisionsHaveSources' /\ PolicyFirst'
      BY <1>2, <2>2 DEF PurgeUnlink, TypeOK, UploadsApart,
         RevisionsHaveSources, PolicyFirst, BeforePolicyPC, CapturePC
    <3>4. UploadHoldsClaim' /\ ClaimedWriterHasBytes'
      <4>1. UploadHoldsClaim'
        BY <1>2, <2>2 DEF PurgeUnlink, TypeOK, UploadHoldsClaim, ClaimedPC
      <4>2. ASSUME NEW q \in Procs, IsUpload(q),
                   pc[q] \in {"policy", "revision", "snapshot"}
            PROVE  job[q].dig # job[p].dig
        <5>1. <<job[q].src, job[q].dig>> \in claims
          BY <4>2 DEF UploadHoldsClaim, ClaimedPC
        <5>2. ClaimsOn(job[p].dig) = {}
          BY <1>2 DEF PurgeUnlink, DecisionHolds, CriticalPC
        <5> QED BY <5>1, <5>2 DEF ClaimsOn
      <4>3. ClaimedWriterHasBytes'
        BY <1>2, <4>2 DEF PurgeUnlink, TypeOK, JobFits,
           ClaimedWriterHasBytes, CapturePC, BeforePolicyPC
      <4> QED BY <4>1, <4>3
    <3>5. DecisionHolds'
      BY <1>2 DEF PurgeUnlink, TypeOK, DecisionHolds, ActiveRefs, ClaimsOn,
         WithRelease, Released, CriticalPC
    <3>6. NeverPurgeableKept'
      BY <1>2 DEF PurgeUnlink, TypeOK, NeverPurgeableKept, DecisionHolds,
         ActiveRefs, Released, CriticalPC
    <3> QED BY <3>1, <3>2, <3>3, <3>4, <3>5, <3>6
  <2> QED BY <2>1, <2>2
<1>3. ASSUME PurgeCommit(p) PROVE IInv'
  <2>1. TypeOK'
    BY <1>3 DEF PurgeCommit, TypeOK, JobFits, CriticalPC
  <2>2. JobFits'
    BY <1>3 DEF PurgeCommit, TypeOK, JobFits, CriticalPC
  <2>3. UploadsApart' /\ RevisionsHaveSources' /\ PolicyFirst'
    BY <1>3 DEF PurgeCommit, TypeOK, UploadsApart, RevisionsHaveSources,
       PolicyFirst, BeforePolicyPC, CapturePC
  <2>4. UploadHoldsClaim' /\ ClaimedWriterHasBytes'
    BY <1>3 DEF PurgeCommit, TypeOK, UploadHoldsClaim, ClaimedWriterHasBytes,
       ClaimedPC
  <2>5. DecisionHolds'
    BY <1>3 DEF PurgeCommit, TypeOK, JobFits, DecisionHolds, ActiveRefs,
       ClaimsOn, WithRelease, Released, CriticalPC
  <2>6. NeverPurgeableKept'
    BY <1>3 DEF PurgeCommit, NeverPurgeableKept
  <2> QED BY <2>1, <2>2, <2>3, <2>4, <2>5, <2>6
<1>4. ASSUME PurgeDone(p) PROVE IInv'
  BY <1>4, ReturnKeeps DEF PurgeDone
<1>5. ASSUME NEW d \in Digests, PurgeKept(p, d) PROVE IInv'
  <2>1. TypeOK'
    <3>1. job' \in [Procs -> Job]
      <4>1. job[p].todo \ {d} \in SUBSET Digests
        BY DEF TypeOK
      <4> QED BY <1>5, <4>1, TodoTyped DEF PurgeKept
    <3>2. event' \in [Sources \X Digests -> Event]
      BY <1>5 DEF PurgeKept, TypeOK, JobFits, WithRelease
    <3> QED BY <1>5, <3>1, <3>2 DEF PurgeKept, TypeOK
  <2>2. JobFits'
    BY <1>5 DEF PurgeKept, JobFits
  <2>3. UploadsApart' /\ RevisionsHaveSources' /\ PolicyFirst'
    BY <1>5 DEF PurgeKept, UploadsApart, RevisionsHaveSources, PolicyFirst
  <2>4. UploadHoldsClaim' /\ ClaimedWriterHasBytes'
    BY <1>5 DEF PurgeKept, UploadHoldsClaim, ClaimedWriterHasBytes
  <2>5. DecisionHolds'
    BY <1>5 DEF PurgeKept, TypeOK, JobFits, DecisionHolds, ActiveRefs,
       ClaimsOn, WithRelease, Released, CriticalPC
  <2>6. NeverPurgeableKept'
    BY <1>5 DEF PurgeKept, NeverPurgeableKept
  <2> QED BY <2>1, <2>2, <2>3, <2>4, <2>5, <2>6
<1>6. ASSUME NEW d \in Digests, PurgeDecide(p, d) PROVE IInv'
  <2>1. TypeOK'
    <3>1. job' \in [Procs -> Job]
      BY <1>6, DigTyped DEF PurgeDecide
    <3> QED BY <1>6, <3>1 DEF PurgeDecide, TypeOK
  <2>2. JobFits'
    BY <1>6 DEF PurgeDecide, TypeOK, JobFits, BeforePolicyPC
  <2>3. UploadsApart' /\ RevisionsHaveSources' /\ PolicyFirst'
    BY <1>6 DEF PurgeDecide, UploadsApart, RevisionsHaveSources, PolicyFirst,
       BeforePolicyPC, CapturePC
  <2>4. UploadHoldsClaim' /\ ClaimedWriterHasBytes'
    BY <1>6 DEF PurgeDecide, UploadHoldsClaim, ClaimedWriterHasBytes, ClaimedPC
  <2>5. DecisionHolds'
    BY <1>6 DEF PurgeDecide, TypeOK, DecisionHolds, ActiveRefs, ClaimsOn,
       WithRelease, Released
  <2>6. NeverPurgeableKept'
    BY <1>6 DEF PurgeDecide, NeverPurgeableKept
  <2> QED BY <2>1, <2>2, <2>3, <2>4, <2>5, <2>6
<1> QED BY <1>1, <1>2, <1>3, <1>4, <1>5, <1>6 DEF Purge

(* Failures leave the files and the tables alone. *)
LEMMA FailureStep ==
    ASSUME IInv, NEW p \in Procs, LockTimeout(p) \/ UploadRaises(p) \/ Crash(p)
    PROVE  IInv'
<1> USE DEF IInv
<1>1. ASSUME LockTimeout(p) PROVE IInv'
  <2>1. CASE pc[p] \in {"policy", "revision", "snapshot"} /\ IsUpload(p)
    BY <1>1, <2>1, UnclaimKeeps DEF LockTimeout, CapturePC, BeforePolicyPC
  <2>2. CASE ~(pc[p] \in {"policy", "revision", "snapshot"} /\ IsUpload(p))
    BY <1>1, <2>2, ReturnKeeps DEF LockTimeout
  <2> QED BY <2>1, <2>2
<1>2. ASSUME UploadRaises(p) PROVE IInv'
  BY <1>2, UnclaimKeeps DEF UploadRaises, CapturePC, BeforePolicyPC
<1>3. ASSUME Crash(p) PROVE IInv'
  BY <1>3, ReturnKeeps DEF Crash
<1> QED BY <1>1, <1>2, <1>3

(* A step of the environment, or a stutter.                                *)
LEMMA CorruptStep ==
    ASSUME IInv, NEW d \in Digests, Corrupt(d)
    PROVE  IInv'
<1> USE DEF IInv
<1>1. TypeOK'
  BY DEF Corrupt, TypeOK
<1>2. JobFits'
  BY DEF Corrupt, JobFits
<1>3. UploadsApart' /\ RevisionsHaveSources' /\ PolicyFirst'
  BY DEF Corrupt, UploadsApart, RevisionsHaveSources, PolicyFirst
<1>4. UploadHoldsClaim' /\ ClaimedWriterHasBytes'
  BY DEF Corrupt, UploadHoldsClaim, ClaimedWriterHasBytes
<1>5. DecisionHolds'
  BY DEF Corrupt, DecisionHolds, ActiveRefs, ClaimsOn, WithRelease, Released
<1>6. NeverPurgeableKept'
  BY DEF Corrupt, NeverPurgeableKept
<1> QED BY <1>1, <1>2, <1>3, <1>4, <1>5, <1>6

(* Nothing changes.                                                        *)
LEMMA StutterStep ==
    ASSUME IInv, UNCHANGED vars
    PROVE  IInv'
<1> USE DEF IInv, vars
<1>1. TypeOK'
  BY DEF TypeOK
<1>2. JobFits'
  BY DEF JobFits
<1>3. UploadsApart' /\ RevisionsHaveSources' /\ PolicyFirst'
  BY DEF UploadsApart, RevisionsHaveSources, PolicyFirst
<1>4. UploadHoldsClaim' /\ ClaimedWriterHasBytes'
  BY DEF UploadHoldsClaim, ClaimedWriterHasBytes
<1>5. DecisionHolds'
  BY DEF DecisionHolds, ActiveRefs, ClaimsOn, WithRelease, Released
<1>6. NeverPurgeableKept'
  BY DEF NeverPurgeableKept
<1> QED BY <1>1, <1>2, <1>3, <1>4, <1>5, <1>6

(* Every step preserves the inductive invariant.                           *)
LEMMA StepIInv == IInv /\ [Next]_vars => IInv'
<1> SUFFICES ASSUME IInv, [Next]_vars PROVE IInv'
  OBVIOUS
<1>1. ASSUME NEW p \in Procs, Request(p) PROVE IInv'
  BY <1>1, RequestStep
<1>2. ASSUME NEW p \in Procs, Work(p) PROVE IInv'
  BY <1>2, CaptureStep, RetainStep, PurgeStep, FailureStep DEF Work
<1>3. ASSUME NEW p \in Procs, UploadRaises(p) \/ Crash(p) PROVE IInv'
  BY <1>3, FailureStep
<1>4. ASSUME NEW d \in Digests, Corrupt(d) PROVE IInv'
  BY <1>4, CorruptStep
<1>5. CASE UNCHANGED vars
  BY <1>5, StutterStep
<1> QED BY <1>1, <1>2, <1>3, <1>4, <1>5 DEF Next

-----------------------------------------------------------------------------
(* The inductive invariant holds in every reachable state.                 *)
THEOREM Invariance == Spec => []IInv
<1> QED BY InitIInv, StepIInv, PTL DEF Spec

(* The rows, files and local variables keep their shape: in particular the *)
(* policy epoch recorded with an event is one that exists.                 *)
THEOREM TypeCorrect == Spec => []TypeOK
<1>1. IInv => TypeOK
  BY DEF IInv
<1> QED BY <1>1, Invariance, PTL

(* An upload past put has its bytes, however many purges run beside it     *)
(* (ingest_bytes claims before blobs.put, _purge_digest counts claims).    *)
THEOREM ClaimProtectsWriter == Spec => []ClaimedWriterHasBytes
<1>1. IInv => ClaimedWriterHasBytes
  BY DEF IInv
<1> QED BY <1>1, Invariance, PTL

(* An uploaded revision under its first, retaining policy keeps its bytes, *)
(* whatever other sources purge and whoever crashes.                       *)
THEOREM SharedBytesSurvive == Spec => []NeverPurgeableKept
<1>1. IInv => NeverPurgeableKept
  BY DEF IInv
<1> QED BY <1>1, Invariance, PTL

(* The body of DeletionIsUnreferenced for one step.                        *)
LEMMA DeletionStep ==
    ASSUME IInv, [Next]_vars, NEW d \in Digests,
           file[d] # "absent", file'[d] = "absent"
    PROVE  /\ ClaimsOn(d) = {}
           /\ \A s \in Sources : <<s, d>> \in revisions
                                 => Released(s, SeenEvent(s, d))
<1>1. PICK p \in Procs : PurgeUnlink(p) /\ job[p].dig = d
  <2> USE DEF IInv, TypeOK
  <2>1. ASSUME NEW p \in Procs, Request(p) PROVE file' = file
    BY <2>1 DEF Request, UploadStart, GatewayStart, RetentionStart, PurgeStart
  <2>2. ASSUME NEW p \in Procs, Capture(p) PROVE file'[d] # "absent"
    BY <2>2 DEF Capture, Claim, PutCheck, PutRename, RecordPolicy,
       EnsureRevision, RecordSnapshot, ReleaseClaim
  <2>3. ASSUME NEW p \in Procs, Retain(p) PROVE file' = file
    BY <2>3 DEF Retain, SetPolicy, SetPolicyBound, RetainList, RetainDone,
       RetainOne
  <2>4. ASSUME NEW p \in Procs, Purge(p)
        PROVE  file' = file \/ (PurgeUnlink(p) /\ job[p].dig = d)
    BY <2>4 DEF Purge, PurgeRefused, PurgeUnlink, PurgeCommit, PurgeDone,
       PurgeKept, PurgeDecide
  <2>5. ASSUME NEW p \in Procs, LockTimeout(p) \/ UploadRaises(p) \/ Crash(p)
        PROVE  file' = file
    BY <2>5 DEF LockTimeout, UploadRaises, Crash
  <2>6. ASSUME NEW e \in Digests, Corrupt(e) PROVE file'[d] # "absent"
    BY <2>6 DEF Corrupt
  <2>7. CASE UNCHANGED vars
    BY <2>7 DEF vars
  <2> QED BY <2>1, <2>2, <2>3, <2>4, <2>5, <2>6, <2>7 DEF Next, Work
<1>2. /\ ActiveRefs(d, WithRelease(job[p].src, d)) = {}
      /\ ClaimsOn(d) = {}
  BY <1>1 DEF IInv, DecisionHolds, PurgeUnlink, CriticalPC
<1>3. ASSUME NEW s \in Sources, <<s, d>> \in revisions
      PROVE  Released(s, SeenEvent(s, d))
  <2>1. Released(s, WithRelease(job[p].src, d)[<<s, d>>])
    BY <1>2, <1>3 DEF ActiveRefs
  <2>2. CASE Deciding(s, d)
    BY <2>1, <2>2 DEF SeenEvent, WithRelease, Released
  <2>3. CASE ~Deciding(s, d)
    <3>1. job[p].src # s
      BY <1>1, <2>3 DEF Deciding, PurgeUnlink
    <3>2. WithRelease(job[p].src, d)[<<s, d>>] = event[<<s, d>>]
      BY <3>1 DEF WithRelease
    <3> QED BY <2>1, <2>3, <3>2 DEF SeenEvent
  <2> QED BY <2>2, <2>3
<1> QED BY <1>2, <1>3

(* At the step that removes bytes, nobody references or is capturing them. *)
THEOREM DeletionSafe == Spec => DeletionIsUnreferenced
<1>1. IInv /\ [Next]_vars =>
        [\A d \in Digests :
            file[d] # "absent" /\ file'[d] = "absent"
            => /\ ClaimsOn(d) = {}
               /\ \A s \in Sources : <<s, d>> \in revisions
                                     => Released(s, SeenEvent(s, d))]_vars
  BY DeletionStep
<1> QED BY <1>1, Invariance, PTL DEF Spec, DeletionIsUnreferenced
-----------------------------------------------------------------------------
(* What ties events to policies and to recorded revisions; it rests on     *)
(* IInv, and the two theorems below rest on it.                            *)

(* No event is of a policy epoch that is still to come, so a policy change *)
(* cannot make an old release effective.                                   *)
EpochsPast ==
    \A s \in Sources, d \in Digests : event[<<s, d>>].rev <= policy[s].rev

(* A source has no policy before its upload recorded the first one.        *)
NoPolicyYet ==
    /\ \A s \in Sources \ sources : policy[s].rev = 0
    /\ \A p \in Procs : pc[p] \in BeforePolicyPC /\ IsUpload(p)
                        => policy[job[p].src].rev = 0

(* Only recorded revisions have events, and only they are purged.          *)
EventsOfRevisions ==
    /\ \A r \in Sources \X Digests : r \notin revisions => event[r] = NoEvent
    /\ \A p \in Procs : \A d \in job[p].todo : <<job[p].src, d>> \in revisions
    /\ \A p \in Procs : pc[p] \in CriticalPC => job[p].dig \in job[p].todo

EpochInv == IInv /\ EpochsPast /\ NoPolicyYet /\ EventsOfRevisions

(* An empty database has no event and no policy.                           *)
LEMMA InitEpochInv == Init => EpochInv
<1> SUFFICES ASSUME Init PROVE EpochInv
  OBVIOUS
<1>1. EpochsPast /\ NoPolicyYet
  BY DEF Init, EpochsPast, NoPolicyYet, BeforePolicyPC
<1>2. EventsOfRevisions
  BY DEF Init, EventsOfRevisions, CriticalPC
<1> QED BY <1>1, <1>2, InitIInv DEF EpochInv

(* Policies that only gain revisions leave every event in the past ...     *)
LEMMA PoliciesGrow ==
    ASSUME EpochInv, TypeOK', event' = event,
           \A s \in Sources : policy'[s].rev >= policy[s].rev
    PROVE  EpochsPast'
<1> SUFFICES ASSUME NEW s \in Sources, NEW d \in Digests
             PROVE  event'[<<s, d>>].rev <= policy'[s].rev
  BY DEF EpochsPast
<1>1. event[<<s, d>>].rev <= policy[s].rev /\ policy'[s].rev >= policy[s].rev
  BY DEF EpochInv, EpochsPast
<1>2. event[<<s, d>>] \in Event
  BY DEF EpochInv, IInv, TypeOK
<1>3. policy[s] \in Policy /\ policy'[s] \in Policy
  BY DEF EpochInv, IInv, TypeOK
<1>4. event[<<s, d>>].rev \in Nat /\ policy[s].rev \in Nat
      /\ policy'[s].rev \in Nat
  BY <1>2, <1>3
<1> QED BY <1>1, <1>4

(* ... and so does an event of the current revision.                       *)
LEMMA EventAppended ==
    ASSUME EpochInv, NEW s \in Sources, NEW d \in Digests, NEW a,
           policy' = policy,
           event' = [event EXCEPT ![<<s, d>>] =
                       [action |-> a, rev |-> policy[s].rev]]
    PROVE  EpochsPast'
<1> SUFFICES ASSUME NEW t \in Sources, NEW c \in Digests
             PROVE  event'[<<t, c>>].rev <= policy[t].rev
  BY DEF EpochsPast
<1>1. policy[t].rev \in Nat /\ event \in [Sources \X Digests -> Event]
  BY DEF EpochInv, IInv, TypeOK
<1>2. CASE t = s /\ c = d
  BY <1>1, <1>2
<1>3. CASE ~(t = s /\ c = d)
  BY <1>1, <1>3 DEF EpochInv, EpochsPast
<1> QED BY <1>2, <1>3

(* Only policies and events can disturb the bound.                         *)
LEMMA EpochsPastStep ==
    ASSUME EpochInv, [Next]_vars PROVE EpochsPast'
<1> USE DEF EpochInv, IInv
<1>1. ASSUME UNCHANGED <<policy, event>> PROVE EpochsPast'
  BY <1>1 DEF EpochsPast
<1>2. ASSUME NEW p \in Procs, Request(p) PROVE EpochsPast'
  BY <1>1, <1>2 DEF Request, UploadStart, GatewayStart, RetentionStart,
     PurgeStart
<1>3. ASSUME NEW p \in Procs, Capture(p) PROVE EpochsPast'
  <2>1. CASE RecordPolicy(p)
    <3>1. /\ job[p].src \in Sources /\ policy[job[p].src].rev = 0
          /\ policy' = [policy EXCEPT ![job[p].src] =
                          [rev |-> 1, raw |-> job[p].raw]]
          /\ event' = event
      BY <2>1 DEF RecordPolicy, NoPolicyYet, BeforePolicyPC, JobFits, TypeOK
    <3>2. \A s \in Sources : policy'[s].rev >= policy[s].rev
      BY <3>1 DEF TypeOK
    <3>3. TypeOK'
      BY StepIInv
    <3> QED BY <3>1, <3>2, <3>3, PoliciesGrow
  <2>2. CASE ~RecordPolicy(p)
    BY <1>1, <1>3, <2>2 DEF Capture, Claim, PutCheck, PutRename,
       EnsureRevision, RecordSnapshot, ReleaseClaim
  <2> QED BY <2>1, <2>2
<1>4. ASSUME NEW p \in Procs, Retain(p) PROVE EpochsPast'
  <2>1. CASE SetPolicy(p)
    <3>1. /\ job[p].src \in Sources
          /\ policy' = [policy EXCEPT ![job[p].src] =
                          [rev |-> @.rev + 1, raw |-> job[p].raw]]
          /\ event' = event
      BY <2>1 DEF SetPolicy, JobFits, TypeOK
    <3>2. \A s \in Sources : policy'[s].rev >= policy[s].rev
      BY <3>1 DEF TypeOK
    <3>3. TypeOK'
      BY StepIInv
    <3> QED BY <3>1, <3>2, <3>3, PoliciesGrow
  <2>2. ASSUME NEW d \in Digests, RetainOne(p, d) PROVE EpochsPast'
    <3>1. job[p].src \in Sources
      BY <2>2 DEF RetainOne, JobFits, TypeOK
    <3> QED BY <2>2, <3>1, EventAppended DEF RetainOne
  <2>3. ASSUME SetPolicyBound(p) \/ RetainList(p) \/ RetainDone(p)
        PROVE  EpochsPast'
    BY <1>1, <2>3 DEF SetPolicyBound, RetainList, RetainDone
  <2> QED BY <1>4, <2>1, <2>2, <2>3 DEF Retain
<1>5. ASSUME NEW p \in Procs, Purge(p) PROVE EpochsPast'
  <2>1. ASSUME NEW s \in Sources, NEW d \in Digests, UNCHANGED policy,
               event' = WithRelease(s, d)
        PROVE  EpochsPast'
    BY <2>1, EventAppended DEF WithRelease
  <2>2. ASSUME NEW d \in Digests, PurgeKept(p, d) PROVE EpochsPast'
    BY <2>1, <2>2 DEF PurgeKept, JobFits, TypeOK
  <2>3. CASE PurgeCommit(p)
    BY <2>1, <2>3 DEF PurgeCommit, JobFits, TypeOK, CriticalPC
  <2>4. ASSUME NEW d \in Digests, PurgeDecide(p, d) PROVE EpochsPast'
    BY <1>1, <2>4 DEF PurgeDecide
  <2>5. ASSUME PurgeRefused(p) \/ PurgeUnlink(p) \/ PurgeDone(p)
        PROVE  EpochsPast'
    BY <1>1, <2>5 DEF PurgeRefused, PurgeUnlink, PurgeDone
  <2> QED BY <1>5, <2>2, <2>3, <2>4, <2>5 DEF Purge
<1>6. ASSUME NEW p \in Procs, LockTimeout(p) \/ UploadRaises(p) \/ Crash(p)
      PROVE  EpochsPast'
  BY <1>1, <1>6 DEF LockTimeout, UploadRaises, Crash
<1>7. ASSUME NEW d \in Digests, Corrupt(d) PROVE EpochsPast'
  BY <1>1, <1>7 DEF Corrupt
<1>8. CASE UNCHANGED vars
  BY <1>1, <1>8 DEF vars
<1> QED BY <1>2, <1>3, <1>4, <1>5, <1>6, <1>7, <1>8 DEF Next, Work

(* A source that exists has at most the policies its own requests recorded. *)
LEMMA NoPolicyYetStep ==
    ASSUME EpochInv, [Next]_vars PROVE NoPolicyYet'
<1> USE DEF EpochInv, IInv
<1>1. ASSUME policy' = policy, sources \subseteq sources',
             \A q \in Procs :
                 pc'[q] \in BeforePolicyPC /\ job'[q].src \in UploadSources
                 => \/ job'[q].src \in Sources \ sources
                    \/ /\ pc[q] \in BeforePolicyPC
                       /\ job'[q].src = job[q].src
      PROVE  NoPolicyYet'
  BY <1>1 DEF NoPolicyYet
<1>2. ASSUME NEW p \in Procs, Request(p) PROVE NoPolicyYet'
  BY <1>1, <1>2 DEF Request, UploadStart, GatewayStart, RetentionStart,
     PurgeStart, TypeOK, BeforePolicyPC
<1>3. ASSUME NEW p \in Procs, Capture(p) PROVE NoPolicyYet'
  <2>1. CASE RecordPolicy(p)
    <3>1. /\ job[p].src \in sources /\ sources \subseteq Sources
          /\ policy' = [policy EXCEPT ![job[p].src] =
                          [rev |-> 1, raw |-> job[p].raw]]
          /\ sources' = sources /\ job' = job
          /\ pc' = [pc EXCEPT ![p] = "revision"]
      BY <2>1 DEF RecordPolicy, JobFits, TypeOK
    <3>2. \A q \in Procs : pc'[q] \in BeforePolicyPC /\ IsUpload(q)
                           => job[q].src # job[p].src
      BY <2>1, <3>1 DEF RecordPolicy, UploadsApart, BeforePolicyPC, CapturePC,
         TypeOK
    <3>3. \A q \in Procs : pc'[q] \in BeforePolicyPC => pc[q] = pc'[q]
      BY <3>1 DEF BeforePolicyPC, TypeOK
    <3> QED BY <3>1, <3>2, <3>3 DEF NoPolicyYet
  <2>2. CASE ~RecordPolicy(p)
    BY <1>1, <1>3, <2>2 DEF Capture, Claim, PutCheck, PutRename, AfterPut,
       EnsureRevision, RecordSnapshot, ReleaseClaim, TypeOK, BeforePolicyPC
  <2> QED BY <2>1, <2>2
<1>4. ASSUME NEW p \in Procs, Retain(p) PROVE NoPolicyYet'
  <2>1. CASE SetPolicy(p)
    <3>1. /\ job[p].src \in sources /\ policy[job[p].src].rev # 0
          /\ \A s \in Sources : s # job[p].src => policy'[s] = policy[s]
          /\ sources' = sources
          /\ \A q \in Procs : pc'[q] \in BeforePolicyPC
                              => pc'[q] = pc[q] /\ job'[q] = job[q]
      BY <2>1 DEF SetPolicy, JobFits, TypeOK, BeforePolicyPC
    <3> QED BY <3>1 DEF NoPolicyYet
  <2>2. CASE ~SetPolicy(p)
    <3>1. /\ policy' = policy /\ sources' = sources
          /\ \/ Return(p)
             \/ pc' = [pc EXCEPT ![p] = "retaining"] \/ pc' = pc
          /\ Return(p) \/ \E D : job' = [job EXCEPT ![p].todo = D]
      BY <1>4, <2>2 DEF Retain, SetPolicyBound, RetainList, RetainDone,
         RetainOne
    <3>2. \A q \in Procs : pc'[q] \in BeforePolicyPC
                           => pc'[q] = pc[q] /\ job'[q].src = job[q].src
      BY <3>1 DEF TypeOK, BeforePolicyPC
    <3> QED BY <1>1, <3>1, <3>2
  <2> QED BY <2>1, <2>2
<1>5. ASSUME NEW p \in Procs, Purge(p) PROVE NoPolicyYet'
  BY <1>1, <1>5 DEF Purge, PurgeRefused, PurgeUnlink, PurgeCommit, PurgeDone,
     PurgeKept, PurgeDecide, TypeOK, BeforePolicyPC
<1>6. ASSUME NEW p \in Procs, LockTimeout(p) \/ UploadRaises(p) \/ Crash(p)
      PROVE  NoPolicyYet'
  BY <1>1, <1>6 DEF LockTimeout, UploadRaises, Crash, TypeOK, BeforePolicyPC
<1>7. ASSUME NEW d \in Digests, Corrupt(d) PROVE NoPolicyYet'
  BY <1>1, <1>7 DEF Corrupt
<1>8. CASE UNCHANGED vars
  BY <1>8 DEF vars, NoPolicyYet
<1> QED BY <1>2, <1>3, <1>4, <1>5, <1>6, <1>7, <1>8 DEF Next, Work

(* Revisions are only added, and the digests an operation works through    *)
(* are recorded ones.                                                      *)
LEMMA EventsOfRevisionsStep ==
    ASSUME EpochInv, [Next]_vars PROVE EventsOfRevisions'
<1> USE DEF EpochInv, IInv
<1>1. ASSUME revisions \subseteq revisions',
             \A r \in Sources \X Digests :
                 r \notin revisions' => event'[r] = event[r],
             \A q \in Procs :
                 /\ \A d \in job'[q].todo :
                        <<job'[q].src, d>> \in revisions
                 /\ pc'[q] \in CriticalPC => job'[q].dig \in job'[q].todo
      PROVE  EventsOfRevisions'
  BY <1>1 DEF EventsOfRevisions
<1>2. ASSUME NEW p \in Procs, Request(p) PROVE EventsOfRevisions'
  <2>1. UNCHANGED <<revisions, event>>
    BY <1>2 DEF Request, UploadStart, GatewayStart, RetentionStart, PurgeStart
  <2>2. PICK s, D, d, raw :
          /\ D = {} \/ D = DigestsOf(s)
          /\ job' = [job EXCEPT ![p] = NewJob(s, d, raw, D)]
    BY <1>2 DEF Request, UploadStart, GatewayStart, RetentionStart, PurgeStart
  <2>3. PICK label \in {"claim", "put", "set_policy", "purging"} :
          pc' = [pc EXCEPT ![p] = label]
    BY <1>2 DEF Request, UploadStart, GatewayStart, RetentionStart, PurgeStart
  <2>4. \A q \in Procs : q # p => job'[q] = job[q] /\ pc'[q] = pc[q]
    BY <2>2, <2>3 DEF TypeOK
  <2>5. /\ job'[p].src = s /\ job'[p].todo = D /\ pc'[p] = label
    BY <2>2, <2>3 DEF TypeOK
  <2> QED BY <1>1, <2>1, <2>2, <2>4, <2>5 DEF CriticalPC, DigestsOf,
          EventsOfRevisions
<1>3. ASSUME NEW p \in Procs, Capture(p) PROVE EventsOfRevisions'
  <2>1. event' = event /\ revisions \subseteq revisions'
    BY <1>3 DEF Capture, Claim, PutCheck, PutRename, RecordPolicy,
       EnsureRevision, RecordSnapshot, ReleaseClaim
  <2>2. UNCHANGED job \/ job' = [job EXCEPT ![p] = NoJob]
    BY <1>3 DEF Capture, Claim, PutCheck, PutRename, RecordPolicy,
       EnsureRevision, RecordSnapshot, ReleaseClaim
  <2>3. \A q \in Procs : pc'[q] \in CriticalPC => pc'[q] = pc[q] /\ q # p
    BY <1>3 DEF Capture, Claim, PutCheck, PutRename, AfterPut, RecordPolicy,
       EnsureRevision, RecordSnapshot, ReleaseClaim, TypeOK, CriticalPC
  <2> QED BY <1>1, <2>1, <2>2, <2>3 DEF EventsOfRevisions, TypeOK
<1>4. ASSUME NEW p \in Procs, Retain(p) PROVE EventsOfRevisions'
  <2>1. ASSUME NEW d \in Digests, RetainOne(p, d) PROVE EventsOfRevisions'
    <3>1. /\ revisions' = revisions /\ pc' = pc /\ pc[p] = "retaining"
          /\ <<job[p].src, d>> \in revisions
          /\ job' = [job EXCEPT ![p].todo = @ \ {d}]
      BY <2>1 DEF RetainOne, EventsOfRevisions
    <3>2. \A r \in Sources \X Digests : r \notin revisions
                                        => event'[r] = event[r]
      BY <2>1, <3>1 DEF RetainOne, TypeOK
    <3>3. \A q \in Procs : /\ job'[q].src = job[q].src
                           /\ job'[q].todo \subseteq job[q].todo
                           /\ q # p => job'[q] = job[q]
      BY <3>1 DEF TypeOK
    <3>4. \A q \in Procs :
             /\ \A c \in job'[q].todo : <<job'[q].src, c>> \in revisions
             /\ pc'[q] \in CriticalPC => job'[q].dig \in job'[q].todo
      BY <3>1, <3>3 DEF EventsOfRevisions, CriticalPC
    <3> QED BY <1>1, <3>1, <3>2, <3>4
  <2>2. ASSUME SetPolicy(p) \/ SetPolicyBound(p) \/ RetainList(p)
               \/ RetainDone(p)
        PROVE  EventsOfRevisions'
    <3>1. UNCHANGED <<revisions, event>>
      BY <2>2 DEF SetPolicy, SetPolicyBound, RetainList, RetainDone
    <3>2. \/ Return(p)
          \/ pc' = [pc EXCEPT ![p] = "retain_list"] /\ job' = job
          \/ /\ pc' = [pc EXCEPT ![p] = "retaining"]
             /\ job' = [job EXCEPT ![p].todo = DigestsOf(job[p].src)]
      BY <2>2 DEF SetPolicy, SetPolicyBound, RetainList, RetainDone
    <3>3. \A q \in Procs : q # p => job'[q] = job[q] /\ pc'[q] = pc[q]
      BY <3>2 DEF TypeOK
    <3>4. /\ pc'[p] \notin CriticalPC
          /\ \A d \in job'[p].todo : <<job'[p].src, d>> \in revisions
      BY <3>2 DEF TypeOK, CriticalPC, DigestsOf, EventsOfRevisions
    <3> QED BY <1>1, <3>1, <3>3, <3>4 DEF EventsOfRevisions
  <2> QED BY <1>4, <2>1, <2>2 DEF Retain
<1>5. ASSUME NEW p \in Procs, Purge(p) PROVE EventsOfRevisions'
  <2>1. ASSUME NEW d \in Digests, PurgeKept(p, d) PROVE EventsOfRevisions'
    <3>1. /\ revisions' = revisions /\ pc' = pc /\ pc[p] = "purging"
          /\ <<job[p].src, d>> \in revisions
          /\ job' = [job EXCEPT ![p].todo = @ \ {d}]
      BY <2>1 DEF PurgeKept, EventsOfRevisions
    <3>2. \A r \in Sources \X Digests : r \notin revisions
                                        => event'[r] = event[r]
      BY <2>1, <3>1 DEF PurgeKept, WithRelease, TypeOK
    <3>3. \A q \in Procs : /\ job'[q].src = job[q].src
                           /\ job'[q].todo \subseteq job[q].todo
                           /\ q # p => job'[q] = job[q]
      BY <3>1 DEF TypeOK
    <3>4. \A q \in Procs :
             /\ \A c \in job'[q].todo : <<job'[q].src, c>> \in revisions
             /\ pc'[q] \in CriticalPC => job'[q].dig \in job'[q].todo
      BY <3>1, <3>3 DEF EventsOfRevisions, CriticalPC
    <3> QED BY <1>1, <3>1, <3>2, <3>4
  <2>2. CASE PurgeCommit(p)
    <3>1. /\ revisions' = revisions
          /\ <<job[p].src, job[p].dig>> \in revisions
          /\ job' = [job EXCEPT ![p].todo = @ \ {job[p].dig}, ![p].dig = None]
          /\ pc' = [pc EXCEPT ![p] = "purging"]
      BY <2>2 DEF PurgeCommit, EventsOfRevisions, CriticalPC
    <3>2. \A r \in Sources \X Digests : r \notin revisions
                                        => event'[r] = event[r]
      BY <2>2, <3>1 DEF PurgeCommit, WithRelease, TypeOK
    <3>3. \A q \in Procs : /\ job'[q].src = job[q].src
                           /\ job'[q].todo \subseteq job[q].todo
                           /\ q # p => job'[q] = job[q] /\ pc'[q] = pc[q]
      BY <3>1 DEF TypeOK
    <3>4. pc'[p] = "purging"
      BY <3>1 DEF TypeOK
    <3>5. \A q \in Procs :
             /\ \A d \in job'[q].todo : <<job'[q].src, d>> \in revisions
             /\ pc'[q] \in CriticalPC => job'[q].dig \in job'[q].todo
      BY <3>3, <3>4 DEF EventsOfRevisions, CriticalPC
    <3> QED BY <1>1, <3>1, <3>2, <3>5
  <2>3. ASSUME NEW d \in Digests, PurgeDecide(p, d) PROVE EventsOfRevisions'
    BY <1>1, <2>3 DEF PurgeDecide, EventsOfRevisions, TypeOK, CriticalPC
  <2>4. ASSUME PurgeRefused(p) \/ PurgeUnlink(p) \/ PurgeDone(p)
        PROVE  EventsOfRevisions'
    <3>1. UNCHANGED <<revisions, event>>
      BY <2>4 DEF PurgeRefused, PurgeUnlink, PurgeDone
    <3>2. \/ Return(p)
          \/ /\ pc[p] = "unlink" /\ pc' = [pc EXCEPT ![p] = "commit"]
             /\ job' = job
      BY <2>4 DEF PurgeRefused, PurgeUnlink, PurgeDone
    <3>3. \A q \in Procs :
             /\ \A c \in job'[q].todo : <<job'[q].src, c>> \in revisions
             /\ pc'[q] \in CriticalPC => job'[q].dig \in job'[q].todo
      <4>1. \A q \in Procs : q # p => job'[q] = job[q] /\ pc'[q] = pc[q]
        BY <3>2 DEF TypeOK
      <4>2. \/ pc'[p] = "idle" /\ job'[p].todo = {}
            \/ pc[p] \in CriticalPC /\ job'[p] = job[p]
        BY <3>2 DEF TypeOK, CriticalPC
      <4> QED BY <4>1, <4>2 DEF EventsOfRevisions, CriticalPC
    <3> QED BY <1>1, <3>1, <3>3
  <2> QED BY <1>5, <2>1, <2>2, <2>3, <2>4 DEF Purge
<1>6. ASSUME NEW p \in Procs, LockTimeout(p) \/ UploadRaises(p) \/ Crash(p)
      PROVE  EventsOfRevisions'
  BY <1>1, <1>6 DEF LockTimeout, UploadRaises, Crash, EventsOfRevisions,
     TypeOK, CriticalPC
<1>7. ASSUME NEW d \in Digests, Corrupt(d) PROVE EventsOfRevisions'
  BY <1>1, <1>7 DEF Corrupt, EventsOfRevisions
<1>8. CASE UNCHANGED vars
  BY <1>1, <1>8 DEF vars, EventsOfRevisions
<1> QED BY <1>2, <1>3, <1>4, <1>5, <1>6, <1>7, <1>8 DEF Next, Work

(* Every reachable state has its events in order.                          *)
LEMMA EpochInvariance == Spec => []EpochInv
<1>1. EpochInv /\ [Next]_vars => EpochInv'
  BY StepIInv, EpochsPastStep, NoPolicyYetStep, EventsOfRevisionsStep
     DEF EpochInv
<1> QED BY <1>1, InitEpochInv, PTL DEF Spec

(* The body of ReleaseNeverRevives for one step: a policy change makes a   *)
(* revision of its own, and only a purge appends a release.                *)
LEMMA ReleaseStep ==
    ASSUME EpochInv, [Next]_vars, NEW s \in Sources, NEW d \in Digests,
           <<s, d>> \in revisions,
           ~Released(s, event[<<s, d>>]),
           Released(s, event[<<s, d>>])'
    PROVE  /\ policy'[s] = policy[s]
           /\ \E p \in Procs : pc[p] \in {"purging", "commit"}
                               /\ job[p].src = s
<1> USE DEF EpochInv, IInv
<1>1. ~(policy'[s] = policy[s] /\ event'[<<s, d>>] = event[<<s, d>>])
  BY DEF Released
<1>2. PICK p \in Procs :
         \/ RecordPolicy(p) \/ SetPolicy(p) \/ PurgeCommit(p)
         \/ \E c \in Digests : RetainOne(p, c) \/ PurgeKept(p, c)
  <2> USE <1>1
  <2>1. ASSUME NEW p \in Procs, Request(p) PROVE FALSE
    BY <2>1 DEF Request, UploadStart, GatewayStart, RetentionStart, PurgeStart
  <2>2. ASSUME NEW p \in Procs, Capture(p) PROVE RecordPolicy(p)
    BY <2>2 DEF Capture, Claim, PutCheck, PutRename, EnsureRevision,
       RecordSnapshot, ReleaseClaim
  <2>3. ASSUME NEW p \in Procs, Retain(p)
        PROVE  SetPolicy(p) \/ \E c \in Digests : RetainOne(p, c)
    BY <2>3 DEF Retain, SetPolicyBound, RetainList, RetainDone
  <2>4. ASSUME NEW p \in Procs, Purge(p)
        PROVE  PurgeCommit(p) \/ \E c \in Digests : PurgeKept(p, c)
    BY <2>4 DEF Purge, PurgeRefused, PurgeUnlink, PurgeDone, PurgeDecide
  <2>5. ASSUME NEW p \in Procs, LockTimeout(p) \/ UploadRaises(p) \/ Crash(p)
        PROVE  FALSE
    BY <2>5 DEF LockTimeout, UploadRaises, Crash
  <2>6. ASSUME NEW c \in Digests, Corrupt(c) PROVE FALSE
    BY <2>6 DEF Corrupt
  <2>7. CASE UNCHANGED vars
    BY <2>7 DEF vars
  <2> QED BY <2>1, <2>2, <2>3, <2>4, <2>5, <2>6, <2>7 DEF Next, Work
<1>3. CASE RecordPolicy(p)
  <2>1. job[p].src # s
    BY <1>3 DEF RecordPolicy, PolicyFirst, BeforePolicyPC, JobFits
  <2> QED BY <1>1, <1>3, <2>1 DEF RecordPolicy, TypeOK
<1>4. CASE SetPolicy(p)
  <2>1. CASE job[p].src = s
    <3>1. policy'[s].rev = policy[s].rev + 1 /\ event' = event
      BY <1>4, <2>1 DEF SetPolicy, TypeOK
    <3>2. event[<<s, d>>].rev <= policy[s].rev
      BY DEF EpochsPast
    <3>3. event[<<s, d>>] \in Event /\ policy[s] \in Policy
      BY DEF TypeOK
    <3>4. event[<<s, d>>].rev \in Nat /\ policy[s].rev \in Nat
      BY <3>3
    <3>5. event'[<<s, d>>].rev # policy'[s].rev
      BY <3>1, <3>2, <3>4
    <3> QED BY <3>5 DEF Released
  <2>2. CASE job[p].src # s
    BY <1>1, <1>4, <2>2 DEF SetPolicy, TypeOK
  <2> QED BY <2>1, <2>2
<1>5. ASSUME NEW c \in Digests, RetainOne(p, c) PROVE FALSE
  <2>1. policy' = policy
    BY <1>5 DEF RetainOne
  <2>2. CASE job[p].src = s /\ c = d
    BY <1>5, <2>2 DEF RetainOne, Released, TypeOK
  <2>3. CASE ~(job[p].src = s /\ c = d)
    BY <1>1, <1>5, <2>1, <2>3 DEF RetainOne, TypeOK
  <2> QED BY <2>2, <2>3
<1>6. ASSUME NEW c \in Digests, PurgeKept(p, c)
      PROVE  pc[p] = "purging" /\ job[p].src = s /\ policy' = policy
  BY <1>1, <1>6 DEF PurgeKept, WithRelease, TypeOK
<1>7. CASE PurgeCommit(p)
  BY <1>1, <1>7 DEF PurgeCommit, WithRelease, TypeOK
<1> QED BY <1>2, <1>3, <1>4, <1>5, <1>6, <1>7

(* A release becomes effective only by a purge of its own source, under    *)
(* the policy that is current before and after: an old release never comes *)
(* back to life (the epoch of _active_reference_count_conn).               *)
THEOREM ReleasesStayDead == Spec => ReleaseNeverRevives
<1>1. EpochInv /\ [Next]_vars =>
        [\A s \in Sources, d \in Digests :
            /\ <<s, d>> \in revisions
            /\ ~Released(s, event[<<s, d>>])
            /\ Released(s, event[<<s, d>>])'
            => /\ policy'[s] = policy[s]
               /\ \E p \in Procs : pc[p] \in {"purging", "commit"}
                                   /\ job[p].src = s]_vars
  BY ReleaseStep
<1> QED BY <1>1, EpochInvariance, PTL DEF Spec, ReleaseNeverRevives

-----------------------------------------------------------------------------
(* The refinement of ByteCustody, step by step.                            *)

Gone(s, d) == Released(s, SeenEvent(s, d))

(* What custody says of one uploaded reference.                            *)
State(s, d) ==
    IF <<s, d>> \notin revisions THEN "none"
    ELSE IF Gone(s, d) THEN "released"
    ELSE IF file[d] # "absent" THEN "held" ELSE "lost"

LEMMA CustodyMap ==
    /\ custody = [r \in UploadSources \X Digests |-> State(r[1], r[2])]
    /\ custody' = [r \in UploadSources \X Digests |-> State(r[1], r[2])']
<1>1. \A r \in UploadSources \X Digests : <<r[1], r[2]>> = r
  OBVIOUS
<1>2. custody = [r \in UploadSources \X Digests |-> State(r[1], r[2])]
  BY <1>1 DEF custody, State, Gone, stored
<1>3. custody' = [r \in UploadSources \X Digests |-> State(r[1], r[2])']
  BY <1>1 DEF custody, State, Gone, stored
<1> QED BY <1>2, <1>3

(* No purge takes or leaves its critical section.                          *)
Calm ==
    \A q \in Procs :
        /\ pc[q] \in CriticalPC <=> pc'[q] \in CriticalPC
        /\ pc[q] \in CriticalPC => /\ job'[q].src = job[q].src
                                   /\ job'[q].dig = job[q].dig

(* Then a reference that has the same event and policy as before is as     *)
(* released as before.                                                     *)
LEMMA GoneKept ==
    ASSUME TypeOK, NEW s \in Sources, NEW d \in Digests,
           event'[<<s, d>>] = event[<<s, d>>],
           policy'[s] = policy[s], Deciding(s, d)' = Deciding(s, d), TypeOK'
    PROVE  Gone(s, d)' = Gone(s, d)
<1>1. /\ WithRelease(s, d)[<<s, d>>]
          = [action |-> "release", rev |-> policy[s].rev]
      /\ WithRelease(s, d)'[<<s, d>>]
          = [action |-> "release", rev |-> policy[s].rev]
  BY DEF TypeOK, WithRelease
<1> QED BY <1>1 DEF Gone, SeenEvent, Released

LEMMA CalmDeciding ==
    ASSUME Calm, NEW s \in Sources, NEW d \in Digests
    PROVE  Deciding(s, d)' = Deciding(s, d)
BY DEF Calm, Deciding, CriticalPC

(* Outside the critical sections nothing is being decided.                 *)
LEMMA UnlockedDeciding ==
    ASSUME IInv, Unlocked, NEW s, NEW d
    PROVE  ~Deciding(s, d)
BY DEF IInv, DecisionHolds, Deciding, CriticalPC

(* A step that keeps every uploaded reference as it was is a stutter.      *)
LEMMA SameCustody ==
    ASSUME TypeOK, TypeOK',
           \A d \in Digests : (file'[d] = "absent") <=> (file[d] = "absent"),
           \A s \in UploadSources, d \in Digests :
               /\ (<<s, d>> \in revisions') <=> (<<s, d>> \in revisions)
               /\ <<s, d>> \in revisions => Gone(s, d)' = Gone(s, d)
    PROVE  UNCHANGED <<stored, custody>>
<1>1. stored' = stored
  BY DEF stored
<1>2. \A s \in UploadSources, d \in Digests : State(s, d)' = State(s, d)
  BY DEF State
<1>3. custody' = custody
  BY <1>2, CustodyMap
<1> QED BY <1>1, <1>3

(* Most steps only move a process along.                                   *)
LEMMA CalmStutters ==
    ASSUME TypeOK, TypeOK', Calm, UNCHANGED <<revisions, policy, event>>,
           \A d \in Digests : (file'[d] = "absent") <=> (file[d] = "absent")
    PROVE  UNCHANGED <<stored, custody>>
<1>1. \A s \in Sources, d \in Digests : Gone(s, d)' = Gone(s, d)
  BY GoneKept, CalmDeciding
<1> QED BY <1>1, SameCustody

(* A step that changes one uploaded reference and no presence of bytes.    *)
LEMMA OneReference ==
    ASSUME NEW s \in UploadSources, NEW d \in Digests, TypeOK, TypeOK',
           UNCHANGED file,
           \A t \in UploadSources, c \in Digests :
               <<t, c>> # <<s, d>>
               => /\ (<<t, c>> \in revisions') <=> (<<t, c>> \in revisions)
                  /\ Gone(t, c)' = Gone(t, c)
    PROVE  /\ stored' = stored
           /\ custody' = [custody EXCEPT ![<<s, d>>] = State(s, d)']
<1>1. stored' = stored
  BY DEF stored
<1>2. \A t \in UploadSources, c \in Digests :
         <<t, c>> # <<s, d>> => State(t, c)' = State(t, c)
  BY DEF State
<1>3. custody' = [custody EXCEPT ![<<s, d>>] = State(s, d)']
  <2> DEFINE R == UploadSources \X Digests
  <2>1. /\ custody = [r \in R |-> custody[r]]
        /\ custody' = [r \in R |-> custody'[r]]
    BY CustodyMap
  <2>2. custody'[<<s, d>>] = State(s, d)'
    BY CustodyMap
  <2>3. ASSUME NEW r \in R, r # <<s, d>> PROVE custody'[r] = custody[r]
    <3>1. PICK t \in UploadSources, c \in Digests : r = <<t, c>>
      OBVIOUS
    <3>2. custody'[r] = State(t, c)' /\ custody[r] = State(t, c)
      BY <3>1, CustodyMap
    <3> QED BY <1>2, <2>3, <3>1, <3>2
  <2> HIDE DEF R
  <2> QED BY <2>1, <2>2, <2>3
<1> QED BY <1>1, <1>3

(* One released reference becomes wanted again.                            *)
LEMMA TakesBack ==
    ASSUME NEW s \in UploadSources, NEW d \in Digests, TypeOK, TypeOK',
           UNCHANGED <<file, revisions>>, <<s, d>> \in revisions,
           Gone(s, d), ~Gone(s, d)',
           \A t \in UploadSources, c \in Digests :
               <<t, c>> # <<s, d>> => Gone(t, c)' = Gone(t, c)
    PROVE  Custody!Reacquire({s} \X {d})
<1>1. /\ stored' = stored
      /\ custody' = [custody EXCEPT ![<<s, d>>] = State(s, d)']
  BY OneReference
<1>2. custody[<<s, d>>] = "released"
  BY CustodyMap DEF State
<1>3. State(s, d)' = IF d \in stored THEN "held" ELSE "lost"
  BY DEF State, stored
<1>4. {s} \X {d} = {<<s, d>>}
  OBVIOUS
<1>5. custody' = [r \in Custody!Refs |->
                    IF r \notin {<<s, d>>} THEN custody[r]
                    ELSE IF r[2] \in stored THEN "held" ELSE "lost"]
  <2>1. custody = [r \in Custody!Refs |-> custody[r]]
    BY DEF custody, Custody!Refs
  <2>2. <<s, d>> \in Custody!Refs
    BY DEF Custody!Refs
  <2> QED BY <1>1, <1>3, <2>1, <2>2
<1> QED BY <1>1, <1>2, <1>4, <1>5 DEF Custody!Reacquire

(* One reference is given up.                                              *)
LEMMA GivesUp ==
    ASSUME NEW s \in UploadSources, NEW d \in Digests, TypeOK, TypeOK',
           UNCHANGED <<file, revisions>>, <<s, d>> \in revisions,
           ~Gone(s, d), Gone(s, d)',
           \A t \in UploadSources, c \in Digests :
               <<t, c>> # <<s, d>> => Gone(t, c)' = Gone(t, c)
    PROVE  Custody!Release(<<s, d>>)
<1>1. /\ stored' = stored
      /\ custody' = [custody EXCEPT ![<<s, d>>] = State(s, d)']
  BY OneReference
<1>2. custody[<<s, d>>] \in {"held", "lost"}
  BY CustodyMap DEF State
<1>3. State(s, d)' = "released"
  BY DEF State
<1> QED BY <1>1, <1>2, <1>3 DEF Custody!Release

(* A purge that ends inside its critical section rolls its release back.   *)
LEMMA RollsBack ==
    ASSUME EpochInv, TypeOK', NEW p \in Procs, pc[p] \in CriticalPC, Return(p),
           UNCHANGED <<db, file>>
    PROVE  [Custody!Next]_<<stored, custody>>
<1> USE DEF EpochInv, IInv
<1>1. PICK s \in Sources, d \in Digests :
        s = job[p].src /\ d = job[p].dig /\ <<s, d>> \in revisions
  BY DEF JobFits, TypeOK, EventsOfRevisions, CriticalPC
<1>2. \A q \in Procs : pc[q] \in CriticalPC => q = p
  BY DEF DecisionHolds
<1>3. \A q \in Procs : pc'[q] \notin CriticalPC
  BY <1>2 DEF TypeOK, CriticalPC
<1>4. \A t \in Sources, c \in Digests :
         <<t, c>> # <<s, d>> => ~Deciding(t, c) /\ ~Deciding(t, c)'
  BY <1>1, <1>2, <1>3 DEF Deciding, CriticalPC
<1>5. Deciding(s, d)
  BY <1>1 DEF Deciding, CriticalPC
<1>6. ASSUME NEW t \in Sources, NEW c \in Digests, <<t, c>> # <<s, d>>
      PROVE  Gone(t, c)' = Gone(t, c)
  <2>1. Deciding(t, c)' = Deciding(t, c)
    BY <1>4, <1>6 DEF Deciding
  <2> QED BY <2>1, GoneKept
<1>7. Gone(s, d)
  <2>1. ActiveRefs(d, WithRelease(s, d)) = {}
    BY <1>1 DEF DecisionHolds
  <2> QED BY <1>1, <1>5, <2>1 DEF ActiveRefs, Gone, SeenEvent
<1>8. CASE s \in UploadSources /\ ~Gone(s, d)'
  <2>1. Custody!Reacquire({s} \X {d})
    BY <1>1, <1>6, <1>7, <1>8, TakesBack
  <2>2. {d} \in SUBSET Digests
    BY <1>1
  <2> QED BY <1>8, <2>1, <2>2 DEF Custody!Next
<1>9. CASE ~(s \in UploadSources /\ ~Gone(s, d)')
  <2>1. ASSUME NEW t \in UploadSources, NEW c \in Digests
        PROVE  Gone(t, c)' = Gone(t, c)
    <3>1. CASE t = s /\ c = d
      BY <1>7, <1>9, <3>1 DEF Gone, Released
    <3>2. CASE ~(t = s /\ c = d)
      BY <1>6, <3>2
    <3> QED BY <3>1, <3>2
  <2> QED BY <2>1, SameCustody
<1> QED BY <1>8, <1>9

(* A writer's rename deposits bytes, unless somebody else was faster.      *)
LEMMA RenameRefines ==
    ASSUME EpochInv, TypeOK', NEW p \in Procs, PutRename(p)
    PROVE  [Custody!Next]_<<stored, custody>>
<1> USE DEF EpochInv, IInv
<1>1. PICK d \in Digests : d = job[p].dig
  BY DEF PutRename, JobFits, BeforePolicyPC, CapturePC
<1>2. /\ file' = [file EXCEPT ![d] = "intact"]
      /\ UNCHANGED <<revisions, policy, event>>
  BY <1>1 DEF PutRename
<1>3. Calm
  BY DEF PutRename, AfterPut, Calm, TypeOK, CriticalPC
<1>4. CASE file[d] # "absent"
  <2>1. \A c \in Digests : (file'[c] = "absent") <=> (file[c] = "absent")
    BY <1>2, <1>4 DEF TypeOK
  <2> QED BY <1>2, <1>3, <2>1, CalmStutters
<1>5. CASE file[d] = "absent"
  <2>1. d \notin stored /\ stored' = stored \cup {d}
    BY <1>2, <1>5 DEF TypeOK, stored
  <2>2. \A s \in Sources, c \in Digests : Gone(s, c)' = Gone(s, c)
    BY <1>2, <1>3, GoneKept, CalmDeciding
  <2>3. \A s \in UploadSources, c \in Digests :
           State(s, c)' = IF c = d /\ State(s, c) = "lost" THEN "held"
                          ELSE State(s, c)
    BY <1>2, <1>5, <2>2 DEF State, TypeOK
  <2>4. custody' = [r \in Custody!Refs |->
                      IF r[2] = d /\ custody[r] = "lost" THEN "held"
                      ELSE custody[r]]
    <3>1. \A r \in Custody!Refs : custody[r] = State(r[1], r[2])
      BY CustodyMap DEF Custody!Refs
    <3>2. \A r \in Custody!Refs : r[1] \in UploadSources /\ r[2] \in Digests
      BY DEF Custody!Refs
    <3>3. custody' = [r \in Custody!Refs |-> State(r[1], r[2])']
      BY CustodyMap DEF Custody!Refs
    <3> QED BY <2>3, <3>1, <3>2, <3>3
  <2> QED BY <2>1, <2>4 DEF Custody!Deposit, Custody!Next
<1> QED BY <1>4, <1>5

(* The revision row of an upload captures the reference: the claim kept    *)
(* the bytes since put.                                                    *)
LEMMA EnsureRefines ==
    ASSUME EpochInv, TypeOK', NEW p \in Procs, EnsureRevision(p)
    PROVE  [Custody!Next]_<<stored, custody>>
<1> USE DEF EpochInv, IInv
<1>1. PICK s \in Sources, d \in Digests : s = job[p].src /\ d = job[p].dig
  BY DEF EnsureRevision, JobFits, CapturePC, TypeOK
<1>2. /\ revisions' = revisions \cup {<<s, d>>}
      /\ UNCHANGED <<policy, event, file>>
  BY <1>1 DEF EnsureRevision
<1>3. \A t \in Sources, c \in Digests : Gone(t, c)' = Gone(t, c)
  <2>1. Calm
    BY DEF EnsureRevision, Calm, TypeOK, CriticalPC
  <2> QED BY <1>2, <2>1, GoneKept, CalmDeciding
<1>4. CASE s \in UploadSources /\ <<s, d>> \notin revisions
  <2>1. ~Gone(s, d)
    <3>1. event[<<s, d>>] = NoEvent
      BY <1>4 DEF EventsOfRevisions
    <3>2. ~Deciding(s, d)
      BY UnlockedDeciding DEF EnsureRevision
    <3> QED BY <3>1, <3>2 DEF Gone, SeenEvent, Released
  <2>2. file[d] # "absent"
    BY <1>1, <1>4 DEF EnsureRevision, ClaimedWriterHasBytes
  <2>3. /\ stored' = stored
        /\ custody' = [custody EXCEPT ![<<s, d>>] = State(s, d)']
    BY <1>2, <1>3, <1>4, OneReference
  <2>4. State(s, d)' = "held"
    BY <1>2, <1>3, <2>1, <2>2 DEF State
  <2>5. custody[<<s, d>>] = "none" /\ d \in stored
    BY <1>4, <2>2, CustodyMap DEF State, stored
  <2>6. Custody!Capture(<<s, d>>)
    BY <2>3, <2>4, <2>5 DEF Custody!Capture
  <2> QED BY <1>4, <2>6 DEF Custody!Next, Custody!Refs
<1>5. CASE ~(s \in UploadSources /\ <<s, d>> \notin revisions)
  <2>1. \A t \in UploadSources, c \in Digests :
           (<<t, c>> \in revisions') <=> (<<t, c>> \in revisions)
    BY <1>2, <1>5
  <2> QED BY <1>2, <1>3, <2>1, SameCustody
<1> QED BY <1>4, <1>5

(* A first policy comes before the revision, so it is not seen.            *)
LEMMA RecordRefines ==
    ASSUME EpochInv, TypeOK', NEW p \in Procs, RecordPolicy(p)
    PROVE  UNCHANGED <<stored, custody>>
<1> USE DEF EpochInv, IInv
<1>1. /\ UNCHANGED <<revisions, event, file>>
      /\ \A s \in Sources : s # job[p].src => policy'[s] = policy[s]
  BY DEF RecordPolicy, TypeOK
<1>2. \A d \in Digests : <<job[p].src, d>> \notin revisions
  BY DEF RecordPolicy, PolicyFirst, JobFits, BeforePolicyPC
<1>3. Calm
  BY DEF RecordPolicy, Calm, TypeOK, CriticalPC
<1>4. ASSUME NEW s \in UploadSources, NEW d \in Digests,
             <<s, d>> \in revisions
      PROVE  Gone(s, d)' = Gone(s, d)
  <2>1. s # job[p].src
    BY <1>2, <1>4
  <2> QED BY <1>1, <1>3, <2>1, GoneKept, CalmDeciding
<1> QED BY <1>1, <1>4, SameCustody

(* A change of policy takes back all that its source had released.         *)
LEMMA SetPolicyRefines ==
    ASSUME EpochInv, TypeOK', NEW p \in Procs, SetPolicy(p)
    PROVE  [Custody!Next]_<<stored, custody>>
<1> USE DEF EpochInv, IInv
<1>1. PICK s \in Sources : s = job[p].src
  BY DEF SetPolicy, JobFits, TypeOK
<1>2. /\ UNCHANGED <<revisions, event, file>>
      /\ policy'[s].rev = policy[s].rev + 1
      /\ \A t \in Sources : t # s => policy'[t] = policy[t]
  BY <1>1 DEF SetPolicy, TypeOK
<1>3. Calm
  BY DEF SetPolicy, Calm, TypeOK, CriticalPC
<1>4. \A t \in Sources, c \in Digests : ~Deciding(t, c) /\ ~Deciding(t, c)'
  BY <1>3, UnlockedDeciding, CalmDeciding DEF SetPolicy
<1>5. \A t \in Sources, c \in Digests : t # s => Gone(t, c)' = Gone(t, c)
  BY <1>2, <1>3, GoneKept, CalmDeciding
<1>6. ASSUME NEW d \in Digests PROVE ~Gone(s, d)'
  <2>1. event[<<s, d>>].rev <= policy[s].rev
    BY DEF EpochsPast
  <2>2. event[<<s, d>>].rev \in Nat /\ policy[s].rev \in Nat
    <3>1. event[<<s, d>>] \in Event /\ policy[s] \in Policy
      BY DEF TypeOK
    <3> QED BY <3>1
  <2>3. event'[<<s, d>>].rev # policy'[s].rev
    BY <1>2, <2>1, <2>2
  <2> QED BY <1>4, <2>3 DEF Gone, SeenEvent, Released
<1> DEFINE D == {d \in Digests : <<s, d>> \in revisions /\ Gone(s, d)}
<1>7. CASE s \in UploadSources /\ D # {}
  <2>1. stored' = stored
    BY <1>2 DEF stored
  <2>2. \A r \in {s} \X D : custody[r] = "released"
    BY <1>7, CustodyMap DEF State
  <2>3. \A t \in UploadSources, c \in Digests :
           State(t, c)' = IF <<t, c>> \notin {s} \X D THEN State(t, c)
                          ELSE IF c \in stored THEN "held" ELSE "lost"
    BY <1>2, <1>5, <1>6 DEF State, stored
  <2>4. custody' = [r \in Custody!Refs |->
                      IF r \notin {s} \X D THEN custody[r]
                      ELSE IF r[2] \in stored THEN "held" ELSE "lost"]
    <3>1. \A r \in Custody!Refs : custody[r] = State(r[1], r[2])
      BY CustodyMap DEF Custody!Refs
    <3>2. \A r \in Custody!Refs : r[1] \in UploadSources /\ r[2] \in Digests
                                  /\ r = <<r[1], r[2]>>
      BY DEF Custody!Refs
    <3>3. custody' = [r \in Custody!Refs |-> State(r[1], r[2])']
      BY CustodyMap DEF Custody!Refs
    <3> HIDE DEF D
    <3> QED BY <2>3, <3>1, <3>2, <3>3
  <2>5. Custody!Reacquire({s} \X D)
    <3>1. {s} \X D # {}
      <4>1. PICK d : d \in D
        BY <1>7
      <4> HIDE DEF D
      <4>2. <<s, d>> \in {s} \X D
        BY <4>1
      <4> QED BY <4>2
    <3> HIDE DEF D
    <3> QED BY <2>1, <2>2, <2>4, <3>1 DEF Custody!Reacquire
  <2>6. D \in SUBSET Digests
    OBVIOUS
  <2> QED BY <1>7, <2>5, <2>6 DEF Custody!Next
<1>8. CASE ~(s \in UploadSources /\ D # {})
  <2>1. ASSUME NEW t \in UploadSources, NEW c \in Digests,
               <<t, c>> \in revisions
        PROVE  Gone(t, c)' = Gone(t, c)
    <3>1. CASE t = s
      <4>1. ~Gone(s, c) /\ ~Gone(s, c)'
        BY <1>6, <1>8, <2>1, <3>1
      <4> QED BY <3>1, <4>1 DEF Gone, Released
    <3>2. CASE t # s
      BY <1>5, <3>2
    <3> QED BY <3>1, <3>2
  <2> QED BY <1>2, <2>1, SameCustody
<1> QED BY <1>7, <1>8

(* A retain event takes one reference back.                                *)
LEMMA RetainRefines ==
    ASSUME EpochInv, TypeOK', NEW p \in Procs, NEW d \in Digests,
           RetainOne(p, d)
    PROVE  [Custody!Next]_<<stored, custody>>
<1> USE DEF EpochInv, IInv
<1>1. PICK s \in Sources : s = job[p].src
  BY DEF RetainOne, JobFits, TypeOK
<1>2. /\ UNCHANGED <<revisions, policy, file>>
      /\ event' = [event EXCEPT ![<<s, d>>] =
                     [action |-> "retain", rev |-> policy[s].rev]]
      /\ <<s, d>> \in revisions
  BY <1>1 DEF RetainOne, EventsOfRevisions
<1>3. Calm
  BY DEF RetainOne, Calm, TypeOK, CriticalPC
<1>4. ~Deciding(s, d) /\ ~Deciding(s, d)'
  BY <1>3, UnlockedDeciding, CalmDeciding DEF RetainOne
<1>5. ~Gone(s, d)'
  BY <1>2, <1>4 DEF Gone, SeenEvent, Released, TypeOK
<1>6. ASSUME NEW t \in Sources, NEW c \in Digests, <<t, c>> # <<s, d>>
      PROVE  Gone(t, c)' = Gone(t, c)
  <2>1. event'[<<t, c>>] = event[<<t, c>>]
    BY <1>2, <1>6 DEF TypeOK
  <2> QED BY <1>2, <1>3, <2>1, GoneKept, CalmDeciding
<1>7. CASE s \in UploadSources /\ Gone(s, d)
  <2>1. Custody!Reacquire({s} \X {d})
    BY <1>2, <1>5, <1>6, <1>7, TakesBack
  <2>2. {d} \in SUBSET Digests
    OBVIOUS
  <2> QED BY <1>7, <2>1, <2>2 DEF Custody!Next
<1>8. CASE ~(s \in UploadSources /\ Gone(s, d))
  <2>1. ASSUME NEW t \in UploadSources, NEW c \in Digests
        PROVE  Gone(t, c)' = Gone(t, c)
    <3>1. CASE t = s /\ c = d
      BY <1>5, <1>8, <3>1 DEF Gone, Released
    <3>2. CASE ~(t = s /\ c = d)
      BY <1>6, <3>2
    <3> QED BY <3>1, <3>2
  <2> QED BY <1>2, <2>1, SameCustody
<1> QED BY <1>7, <1>8

(* A purge that meets a blocker releases its own reference ...             *)
LEMMA KeptRefines ==
    ASSUME EpochInv, TypeOK', NEW p \in Procs, NEW d \in Digests,
           PurgeKept(p, d)
    PROVE  [Custody!Next]_<<stored, custody>>
<1> USE DEF EpochInv, IInv
<1>1. PICK s \in Sources : s = job[p].src
  BY DEF PurgeKept, JobFits, TypeOK
<1>2. /\ UNCHANGED <<revisions, policy, file>>
      /\ event' = WithRelease(s, d)
      /\ <<s, d>> \in revisions
      /\ policy[s].raw = "purge_on_request"
  BY <1>1 DEF PurgeKept, EventsOfRevisions
<1>3. Calm
  BY DEF PurgeKept, Calm, TypeOK, CriticalPC
<1>4. ~Deciding(s, d) /\ ~Deciding(s, d)'
  BY <1>3, UnlockedDeciding, CalmDeciding DEF PurgeKept
<1>5. Gone(s, d) => Gone(s, d)'
  BY <1>2, <1>4 DEF Gone, SeenEvent, Released, WithRelease, TypeOK
<1>6. ASSUME NEW t \in Sources, NEW c \in Digests, <<t, c>> # <<s, d>>
      PROVE  Gone(t, c)' = Gone(t, c)
  <2>1. event'[<<t, c>>] = event[<<t, c>>]
    BY <1>2, <1>6 DEF WithRelease, TypeOK
  <2> QED BY <1>2, <1>3, <2>1, GoneKept, CalmDeciding
<1>7. CASE s \in UploadSources /\ ~Gone(s, d) /\ Gone(s, d)'
  <2>1. Custody!Release(<<s, d>>)
    BY <1>2, <1>6, <1>7, GivesUp
  <2> QED BY <1>7, <2>1 DEF Custody!Next, Custody!Refs
<1>8. CASE ~(s \in UploadSources /\ ~Gone(s, d) /\ Gone(s, d)')
  <2>1. ASSUME NEW t \in UploadSources, NEW c \in Digests
        PROVE  Gone(t, c)' = Gone(t, c)
    <3>1. CASE t = s /\ c = d
      BY <1>5, <1>8, <3>1 DEF Gone, Released
    <3>2. CASE ~(t = s /\ c = d)
      BY <1>6, <3>2
    <3> QED BY <3>1, <3>2
  <2> QED BY <1>2, <2>1, SameCustody
<1> QED BY <1>7, <1>8

(* ... and so does one that goes on to unlink, as it sees the events.      *)
LEMMA DecideRefines ==
    ASSUME EpochInv, TypeOK', NEW p \in Procs, NEW d \in Digests,
           PurgeDecide(p, d)
    PROVE  [Custody!Next]_<<stored, custody>>
<1> USE DEF EpochInv, IInv
<1>1. PICK s \in Sources : s = job[p].src
  BY DEF PurgeDecide, JobFits, TypeOK
<1>2. /\ UNCHANGED <<revisions, policy, event, file>>
      /\ <<s, d>> \in revisions
      /\ ActiveRefs(d, WithRelease(s, d)) = {}
  BY <1>1 DEF PurgeDecide, EventsOfRevisions
<1>3. \A q \in Procs : pc[q] \notin CriticalPC
  BY DEF PurgeDecide, DecisionHolds
<1>4. /\ pc'[p] \in CriticalPC /\ job'[p].src = s /\ job'[p].dig = d
      /\ \A q \in Procs : q # p => pc'[q] = pc[q]
  BY <1>1 DEF PurgeDecide, TypeOK, CriticalPC
<1>5. \A t \in Sources, c \in Digests :
         ~Deciding(t, c) /\ (Deciding(t, c)' <=> <<t, c>> = <<s, d>>)
  BY <1>3, <1>4 DEF Deciding, CriticalPC
<1>6. ASSUME NEW t \in Sources, NEW c \in Digests, <<t, c>> # <<s, d>>
      PROVE  Gone(t, c)' = Gone(t, c)
  <2>1. Deciding(t, c)' = Deciding(t, c)
    BY <1>5, <1>6 DEF Deciding
  <2> QED BY <1>2, <2>1, GoneKept
<1>7. Gone(s, d)'
  <2>1. Released(s, WithRelease(s, d)[<<s, d>>])
    BY <1>2 DEF ActiveRefs
  <2> QED BY <1>2, <1>5, <2>1 DEF Gone, SeenEvent, Released, WithRelease
<1>8. CASE s \in UploadSources /\ ~Gone(s, d)
  <2>1. Custody!Release(<<s, d>>)
    BY <1>2, <1>6, <1>7, <1>8, GivesUp
  <2> QED BY <1>8, <2>1 DEF Custody!Next, Custody!Refs
<1>9. CASE ~(s \in UploadSources /\ ~Gone(s, d))
  <2>1. ASSUME NEW t \in UploadSources, NEW c \in Digests
        PROVE  Gone(t, c)' = Gone(t, c)
    <3>1. CASE t = s /\ c = d
      BY <1>7, <1>9, <3>1 DEF Gone, Released
    <3>2. CASE ~(t = s /\ c = d)
      BY <1>6, <3>2
    <3> QED BY <3>1, <3>2
  <2> QED BY <1>2, <2>1, SameCustody
<1> QED BY <1>8, <1>9

(* The unlink removes bytes that no upload holds.                          *)
LEMMA UnlinkRefines ==
    ASSUME EpochInv, TypeOK', [Next]_vars, NEW p \in Procs, PurgeUnlink(p)
    PROVE  [Custody!Next]_<<stored, custody>>
<1> USE DEF EpochInv, IInv
<1>1. PICK d \in Digests : d = job[p].dig
  BY DEF PurgeUnlink, JobFits, CriticalPC
<1>2. CASE file[d] = "corrupt"
  BY <1>1, <1>2, RollsBack DEF PurgeUnlink, CriticalPC
<1>3. CASE file[d] # "corrupt"
  <2>1. /\ UNCHANGED <<revisions, policy, event>>
        /\ file' = [file EXCEPT ![d] = "absent"]
    BY <1>1, <1>3 DEF PurgeUnlink
  <2>2. Calm
    BY <1>1, <1>3 DEF PurgeUnlink, Calm, TypeOK, CriticalPC
  <2>3. CASE file[d] = "absent"
    <3>1. \A c \in Digests : (file'[c] = "absent") <=> (file[c] = "absent")
      BY <2>1, <2>3 DEF TypeOK
    <3> QED BY <2>1, <2>2, <3>1, CalmStutters
  <2>4. CASE file[d] # "absent"
    <3>1. file'[d] = "absent"
      BY <2>1 DEF TypeOK
    <3>2. \A s \in Sources : <<s, d>> \in revisions => Gone(s, d)
      BY <2>4, <3>1, DeletionStep DEF Gone
    <3>3. d \in stored /\ stored' = stored \ {d}
      BY <2>1, <2>4 DEF TypeOK, stored
    <3>4. \A s \in UploadSources : custody[<<s, d>>] # "held"
      BY <3>2, CustodyMap DEF State
    <3>5. \A s \in Sources, c \in Digests : Gone(s, c)' = Gone(s, c)
      BY <2>1, <2>2, GoneKept, CalmDeciding
    <3>6. \A s \in UploadSources, c \in Digests : State(s, c)' = State(s, c)
      BY <2>1, <3>2, <3>5 DEF State, TypeOK
    <3>7. custody' = custody
      BY <3>6, CustodyMap
    <3> QED BY <3>3, <3>4, <3>7 DEF Custody!Remove, Custody!Next
  <2> QED BY <2>3, <2>4
<1> QED BY <1>2, <1>3

(* The commit makes the release what the purge already saw.                *)
LEMMA CommitRefines ==
    ASSUME EpochInv, TypeOK', NEW p \in Procs, PurgeCommit(p)
    PROVE  UNCHANGED <<stored, custody>>
<1> USE DEF EpochInv, IInv
<1>1. PICK s \in Sources, d \in Digests : s = job[p].src /\ d = job[p].dig
  BY DEF PurgeCommit, JobFits, TypeOK, CriticalPC
<1>2. /\ UNCHANGED <<revisions, policy, file>>
      /\ event' = WithRelease(s, d)
  BY <1>1 DEF PurgeCommit
<1>3. \A q \in Procs : (pc[q] \in CriticalPC <=> q = p)
                       /\ pc'[q] \notin CriticalPC
  BY DEF PurgeCommit, DecisionHolds, TypeOK, CriticalPC
<1>4. \A t \in Sources, c \in Digests :
         ~Deciding(t, c)' /\ (Deciding(t, c) <=> <<t, c>> = <<s, d>>)
  BY <1>1, <1>3 DEF Deciding, CriticalPC
<1>5. ASSUME NEW t \in UploadSources, NEW c \in Digests
      PROVE  Gone(t, c)' = Gone(t, c)
  <2>1. CASE <<t, c>> = <<s, d>>
    <3>1. SeenEvent(s, d)' = event'[<<s, d>>]
      BY <1>4 DEF SeenEvent
    <3>2. SeenEvent(s, d) = WithRelease(s, d)[<<s, d>>]
      BY <1>4 DEF SeenEvent
    <3> QED BY <1>2, <2>1, <3>1, <3>2 DEF Gone, Released
  <2>2. CASE <<t, c>> # <<s, d>>
    <3>1. event'[<<t, c>>] = event[<<t, c>>]
      BY <1>2, <2>2 DEF WithRelease, TypeOK
    <3>2. Deciding(t, c)' = Deciding(t, c)
      BY <1>4, <2>2 DEF Deciding
    <3> QED BY <1>2, <3>1, <3>2, GoneKept
  <2> QED BY <2>1, <2>2
<1> QED BY <1>2, <1>5, SameCustody

(* A process that ends outside its critical section is not seen either.    *)
LEMMA ReturnStutters ==
    ASSUME TypeOK, TypeOK', NEW p \in Procs, pc[p] \notin CriticalPC,
           Return(p), UNCHANGED <<db, file>>
    PROVE  UNCHANGED <<stored, custody>>
<1>1. Calm
  BY DEF Calm, TypeOK, CriticalPC
<1> QED BY <1>1, CalmStutters

(* Every step of the store is a step of ByteCustody or invisible to it.    *)
LEMMA CustodyStep ==
    ASSUME EpochInv, [Next]_vars
    PROVE  [Custody!Next]_<<stored, custody>>
<1> USE DEF EpochInv, IInv
<1>0. TypeOK'
  BY StepIInv
<1>1. ASSUME NEW p \in Procs, Request(p) PROVE UNCHANGED <<stored, custody>>
  <2>1. UNCHANGED <<revisions, policy, event, file>>
    BY <1>1 DEF Request, UploadStart, GatewayStart, RetentionStart, PurgeStart
  <2>2. Calm
    BY <1>1 DEF Request, UploadStart, GatewayStart, RetentionStart,
       PurgeStart, Calm, TypeOK, CriticalPC
  <2> QED BY <1>0, <2>1, <2>2, CalmStutters
<1>2. ASSUME NEW p \in Procs, Capture(p)
      PROVE  [Custody!Next]_<<stored, custody>>
  <2>1. ASSUME Claim(p) \/ RecordSnapshot(p) \/ ReleaseClaim(p) \/ PutCheck(p)
        PROVE  UNCHANGED <<stored, custody>>
    <3>1. UNCHANGED <<revisions, policy, event, file>>
      BY <2>1 DEF Claim, RecordSnapshot, ReleaseClaim, PutCheck
    <3>2. Calm
      BY <2>1 DEF Claim, RecordSnapshot, ReleaseClaim, PutCheck, AfterPut,
         Calm, TypeOK, CriticalPC
    <3> QED BY <1>0, <3>1, <3>2, CalmStutters
  <2> QED BY <1>0, <1>2, <2>1, RenameRefines, RecordRefines, EnsureRefines
          DEF Capture
<1>3. ASSUME NEW p \in Procs, Retain(p)
      PROVE  [Custody!Next]_<<stored, custody>>
  <2>1. ASSUME SetPolicyBound(p) \/ RetainList(p) \/ RetainDone(p)
        PROVE  UNCHANGED <<stored, custody>>
    <3>1. UNCHANGED <<revisions, policy, event, file>>
      BY <2>1 DEF SetPolicyBound, RetainList, RetainDone
    <3>2. Calm
      BY <2>1 DEF SetPolicyBound, RetainList, RetainDone, Calm, TypeOK,
         CriticalPC
    <3> QED BY <1>0, <3>1, <3>2, CalmStutters
  <2> QED BY <1>0, <1>3, <2>1, SetPolicyRefines, RetainRefines DEF Retain
<1>4. ASSUME NEW p \in Procs, Purge(p)
      PROVE  [Custody!Next]_<<stored, custody>>
  <2>1. ASSUME PurgeRefused(p) \/ PurgeDone(p)
        PROVE  UNCHANGED <<stored, custody>>
    BY <1>0, <2>1, ReturnStutters DEF PurgeRefused, PurgeDone, CriticalPC
  <2> QED BY <1>0, <1>4, <2>1, KeptRefines, DecideRefines, UnlinkRefines,
             CommitRefines DEF Purge
<1>5. ASSUME NEW p \in Procs, LockTimeout(p) \/ UploadRaises(p)
      PROVE  UNCHANGED <<stored, custody>>
  <2>1. /\ UNCHANGED <<db, file>>
        /\ Return(p) \/ (Goto(p, "unclaim") /\ job' = job)
        /\ pc[p] \notin CriticalPC
    BY <1>5 DEF LockTimeout, UploadRaises, WaitsForLock, WritingPC, CriticalPC
  <2>2. CASE Return(p)
    BY <1>0, <2>1, <2>2, ReturnStutters
  <2>3. CASE Goto(p, "unclaim") /\ job' = job
    <3>1. Calm
      BY <2>1, <2>3 DEF Calm, TypeOK, CriticalPC
    <3> QED BY <1>0, <2>1, <3>1, CalmStutters
  <2> QED BY <2>1, <2>2, <2>3
<1>6. ASSUME NEW p \in Procs, Crash(p)
      PROVE  [Custody!Next]_<<stored, custody>>
  BY <1>0, <1>6, ReturnStutters, RollsBack DEF Crash
<1>7. ASSUME NEW d \in Digests, Corrupt(d) PROVE UNCHANGED <<stored, custody>>
  <2>1. \A c \in Digests : (file'[c] = "absent") <=> (file[c] = "absent")
    BY <1>7 DEF Corrupt, TypeOK
  <2>2. Calm
    BY <1>7 DEF Corrupt, Calm
  <2> QED BY <1>0, <1>7, <2>1, <2>2, CalmStutters DEF Corrupt
<1>8. CASE UNCHANGED vars
  <2>1. Calm
    BY <1>8 DEF vars, Calm
  <2> QED BY <1>0, <1>8, <2>1, CalmStutters DEF vars
<1> QED BY <1>1, <1>2, <1>3, <1>4, <1>5, <1>6, <1>7, <1>8 DEF Next, Work

(* The empty store is the empty custody.                                   *)
LEMMA CustodyInit == Init => Custody!Init
<1> SUFFICES ASSUME Init PROVE Custody!Init
  OBVIOUS
<1>1. stored = {}
  BY DEF Init, stored
<1>2. custody = [r \in UploadSources \X Digests |-> "none"]
  BY DEF Init, custody
<1> QED BY <1>1, <1>2 DEF Custody!Init, Custody!Refs

(* The store implements ByteCustody for uploads, under crashes, timeouts,  *)
(* bit rot and any number of gateway captures and purges: there is no step *)
(* from "held" to "lost", bytes go only after their own source gave them   *)
(* up.                                                                     *)
THEOREM RetentionImplementsCustody == Spec => CustodySpec
<1>1. EpochInv /\ [Next]_vars => [Custody!Next]_<<stored, custody>>
  BY CustodyStep
<1> QED BY <1>1, CustodyInit, EpochInvariance, PTL
        DEF Spec, CustodySpec, Custody!Spec
=============================================================================
