----------------------------- MODULE ImageUpload -----------------------------
(***************************************************************************)
(* The images of the products: objects in the store (Spaces), the rows     *)
(* that name them (Product.imageKey, ProductImageAsset, UploadSession),    *)
(* the calls that create, replace and delete them, the nightly cleanup of  *)
(* objects nothing refers to, and the jobs that repeat what failed.        *)
(* An image stands for its main, card and thumb objects together. A call   *)
(* the circuit breaker refuses does nothing, so the breaker is apart, in   *)
(* UploadCircuit. Source: upload.service.ts, products.service.ts           *)
(***************************************************************************)
EXTENDS Naturals, FiniteSets

CONSTANTS Products, Images, NoImage,
          Admins,        \* callers; each has one call at a time
          ImageManners,  \* the manners of use that are looked at
          MaxImages,     \* images a product may have
          MaxRetries,    \* MAX_RETRIES of a failed job
          MaxFaults,     \* bound: store or database operations that fail for good
          MaxCalls       \* bound, by manner: calls that begin

ASSUME ImageAssumption ==
    /\ IsFiniteSet(Images) /\ IsFiniteSet(Admins) /\ NoImage \notin Images
    /\ ImageManners \subseteq {"careful", "serial", "any"}
    /\ MaxImages \in Nat /\ MaxRetries \in Nat \ {0} /\ MaxFaults \in Nat
    /\ MaxCalls \in [ImageManners -> Nat]

VARIABLES
    imageManner, \* "any": calls overlap and operations fail. "serial": calls do not
                 \* overlap. "careful": besides, nothing fails, an edit of a product
                 \* names its image, nobody deletes an object by hand, and the
                 \* cleanup waits until no form holds an image that is not saved
    used,        \* images whose keys were built
    stored,      \* objects in the store
    handed,      \* images whose presigned URLs still work
    form,        \* images uploaded for a form that is not saved
    imageKey,    \* Product.imageKey
    active,      \* Product.isActive
    assets,      \* ProductImageAsset: number of rows made of an image
    ownerOf,     \* the product whose path an image's key is under
    session,     \* UploadSession by its unique productId
    upload,        \* the call of each admin
    job,         \* FailedUploadJob, by operation and payload
    faults, calls

tables == <<imageKey, active, assets, ownerOf, session>>
imageVars == <<imageManner, used, stored, handed, form, tables, upload, job, faults, calls>>

NoProduct == "none"
NoSession == [image |-> NoImage, expired |-> FALSE]
Operations == {"FINALIZE", "DELETE", "CLEANUP"}
NoJob == [status |-> "none", tried |-> 0]
UploadKinds == {"presign", "finalize", "legacy", "edit", "cleanup", "retry"}
Steps == {"expired", "create", "head", "commit", "erase", "write", "list", "sweep",
           "mark"}

\* A call: what it is, where it stands, its product and image, the image it read in
\* the product's row, the objects it has collected, and the job it repeats, if any,
\* with its nextRetryCount.
Upload == [kind : UploadKinds, at : Steps, product : Products \cup {NoProduct},
           image : Images \cup {NoImage}, old : Images \cup {NoImage},
           known : SUBSET Images, of : Operations \cup {"none"}, next : 0 .. MaxRetries]
NewUpload(kind, at, p, i, old) ==
    [kind |-> kind, at |-> at, product |-> p, image |-> i, old |-> old,
     known |-> {}, of |-> "none", next |-> 0]
NoUpload == NewUpload("none", "idle", NoProduct, NoImage, NoImage)
Moved(c, at, known) ==
    [kind |-> c.kind, at |-> at, product |-> c.product, image |-> c.image, old |-> c.old,
     known |-> known, of |-> c.of, next |-> c.next]

ImageTypeOK ==
    /\ imageManner \in ImageManners
    /\ stored \subseteq used /\ handed \subseteq used /\ form \subseteq used
    /\ used \subseteq Images
    /\ imageKey \in [Products -> Images \cup {NoImage}] /\ active \in [Products -> BOOLEAN]
    /\ assets \in [Images -> Nat]
    /\ ownerOf \in [Images -> Products \cup {NoProduct}]
    /\ session \in [Products -> [image : Images \cup {NoImage}, expired : BOOLEAN]]
    /\ upload \in [Admins -> Upload \cup {NoUpload}]
    /\ job \in [Operations \X Images ->
                  [status : {"none", "PENDING", "RETRYING", "RESOLVED", "FAILED"},
                   tried : 0 .. MaxRetries + Cardinality(Admins) - 1]]
    /\ faults \in 0 .. MaxFaults /\ calls \in 0 .. MaxCalls[imageManner]

ImageInit ==
    /\ imageManner \in ImageManners
    /\ used = {} /\ stored = {} /\ handed = {} /\ form = {}
    /\ imageKey = [p \in Products |-> NoImage] /\ active = [p \in Products |-> TRUE]
    /\ assets = [i \in Images |-> 0]
    /\ ownerOf = [i \in Images |-> NoProduct]
    /\ session = [p \in Products |-> NoSession]
    /\ upload = [a \in Admins |-> NoUpload]
    /\ job = [j \in Operations \X Images |-> NoJob]
    /\ faults = 0 /\ calls = 0

-----------------------------------------------------------------------------
Free(a) == upload[a].kind = "none"
Stands(a, kind, at) == upload[a].kind = kind /\ upload[a].at = at
Careful == imageManner = "careful"

\* A call can begin: in a manner that is not "any", once the others have ended.
Counted ==
    /\ calls < MaxCalls[imageManner] /\ calls' = calls + 1
    /\ imageManner # "any" => \A b \in Admins : Free(b)
MayBegin(a) == Free(a) /\ Counted

BeginUpload(a, c) == upload' = [upload EXCEPT ![a] = c]
GoTo(a, at) == BeginUpload(a, Moved(upload[a], at, {}))
End(a) == upload' = [upload EXCEPT ![a] = NoUpload]

MayFail == ~Careful /\ faults < MaxFaults
Fault == MayFail /\ faults' = faults + 1

AssetCount(p) == Cardinality({i \in Images : ownerOf[i] = p /\ assets[i] > 0})
SessionOf(i) == {p \in Products : session[p].image = i}

\* trackFailedJob: one open job for an operation and its payload.
Track(jobs, op, i) ==
    IF jobs[<<op, i>>].status \in {"PENDING", "RETRYING"} THEN jobs
    ELSE [jobs EXCEPT ![<<op, i>>] = [status |-> "PENDING", tried |-> 0]]

\* retryFailedJob, when its work has ended: RESOLVED, or open until the last attempt.
Settled(jobs, c, ok) ==
    IF c.of = "none" THEN jobs
    ELSE [jobs EXCEPT ![<<c.of, c.image>>].status =
             IF ok THEN "RESOLVED"
             ELSE IF c.next >= MaxRetries THEN "FAILED" ELSE "PENDING"]

-----------------------------------------------------------------------------
(* The presigned flow: presign, PUT by the client, finalize. *)

\* Mutant: one asset too many.
HasRoomForOneMore(p) == AssetCount(p) <= MaxImages

\* maxImages
HasRoom(p) == AssetCount(p) < MaxImages

\* createUploadSession: the assets are counted, then the session is read.
Presign(a, p, i) ==
    /\ MayBegin(a) /\ i \notin used
    /\ used' = used \cup {i}
    /\ ownerOf' = [ownerOf EXCEPT ![i] = p]
    /\ IF ~HasRoom(p) THEN UNCHANGED upload
       ELSE BeginUpload(a, NewUpload("presign", "list", p, i, NoImage))
    /\ UNCHANGED <<imageManner, stored, handed, form, imageKey, active, assets, session,
                   job, faults>>

PresignReads(a) ==
    LET s == session[upload[a].product] IN
    /\ Stands(a, "presign", "list")
    /\ IF s = NoSession THEN GoTo(a, "create")
       ELSE IF s.expired THEN GoTo(a, "expired") ELSE End(a)
    /\ UNCHANGED <<imageManner, used, stored, handed, form, tables, job, faults, calls>>

\* The session is deleted by its product; the delete of a row that is gone throws.
PresignDeletes(a) ==
    LET p == upload[a].product IN
    /\ Stands(a, "presign", "expired")
    /\ IF session[p] = NoSession THEN End(a) ELSE GoTo(a, "create")
    /\ session' = [session EXCEPT ![p] = NoSession]
    /\ UNCHANGED <<imageManner, used, stored, handed, form, imageKey, active, assets,
                   ownerOf, job,
                   faults, calls>>

\* The create fails when a session of the product exists by now.
PresignCreates(a) ==
    LET p == upload[a].product IN
    /\ Stands(a, "presign", "create")
    /\ End(a)
    /\ IF session[p] # NoSession THEN UNCHANGED <<session, handed>>
       ELSE /\ session' = [session EXCEPT ![p] =
                             [image |-> upload[a].image, expired |-> FALSE]]
            /\ handed' = handed \cup {upload[a].image}
    /\ UNCHANGED <<imageManner, used, stored, form, imageKey, active, assets, ownerOf, job,
                   faults, calls>>

ClientPuts(i) ==
    /\ i \in handed \ stored
    /\ stored' = stored \cup {i}
    /\ UNCHANGED <<imageManner, used, handed, form, tables, upload, job, faults, calls>>

\* 60 seconds: the session and the presigned URLs run out.
TimeRunsOut(p) ==
    /\ session[p] # NoSession /\ ~session[p].expired
    /\ session' = [session EXCEPT ![p].expired = TRUE]
    /\ handed' = handed \ {session[p].image}
    /\ UNCHANGED <<imageManner, used, stored, form, imageKey, active, assets, ownerOf,
                   upload, job, faults,
                   calls>>

ForceClose(p) ==
    /\ session[p] # NoSession /\ Counted
    /\ session' = [session EXCEPT ![p] = NoSession]
    /\ UNCHANGED <<imageManner, used, stored, handed, form, imageKey, active, assets,
                   ownerOf, upload, job,
                   faults>>

\* finalizeUpload reads the session. As a retry of a job it begins by asking whether
\* there still is one, and takes its absence for success.
FinalizeAt(a, c, jobs) ==
    IF SessionOf(c.image) = {}
    THEN /\ upload' = [upload EXCEPT ![a] = NoUpload]
         /\ job' = Settled(jobs, c, TRUE)
    ELSE LET p == CHOOSE p \in SessionOf(c.image) : TRUE IN
         /\ BeginUpload(a, [kind |-> "finalize", product |-> p, image |-> c.image,
                            at |-> IF session[p].expired THEN "expired" ELSE "head",
                            old |-> NoImage, known |-> {}, of |-> c.of, next |-> c.next])
         /\ job' = jobs

Finalize(a, i) ==
    /\ MayBegin(a) /\ i \in used
    /\ FinalizeAt(a, NewUpload("finalize", "head", NoProduct, i, NoImage), job)
    /\ UNCHANGED <<imageManner, used, stored, handed, form, tables, faults>>

\* Mutant: whatever goes wrong in the retry of a finalize counts as done.
FinalizeEndsWell(a, tracked, after) ==
    LET i == upload[a].image
        jobs == IF tracked THEN Track(job, "FINALIZE", i) ELSE job IN
    /\ End(a)
    /\ job' = Settled(jobs, upload[a], TRUE)

\* finalizeUpload has thrown: the operation may have left a job, and a retry looks
\* once more whether the session is gone.
FinalizeFails(a, tracked, after) ==
    LET i == upload[a].image
        jobs == IF tracked THEN Track(job, "FINALIZE", i) ELSE job
        gone == \A p \in Products : after[p].image # i IN
    /\ End(a)
    /\ job' = Settled(jobs, upload[a], gone)

FinalizeExpired(a) ==
    LET after == [p \in Products |-> IF session[p].image = upload[a].image
                                     THEN NoSession ELSE session[p]] IN
    /\ Stands(a, "finalize", "expired")
    /\ session' = after
    /\ FinalizeFails(a, FALSE, after)
    /\ UNCHANGED <<imageManner, used, stored, handed, form, imageKey, active, assets,
                   ownerOf, faults,
                   calls>>

\* The objects must be there, or four attempts fail.
FinalizeHeads(a) ==
    /\ Stands(a, "finalize", "head")
    /\ \/ upload[a].image \in stored /\ GoTo(a, "commit") /\ UNCHANGED <<job, faults>>
       \/ upload[a].image \notin stored /\ FinalizeFails(a, TRUE, session) /\ UNCHANGED faults
       \/ Fault /\ FinalizeFails(a, TRUE, session)
    /\ UNCHANGED <<imageManner, used, stored, handed, form, tables, calls>>

\* The transaction's writes: the asset, the product's image, the end of the session.
CommitWrites(a) ==
    LET i == upload[a].image  p == upload[a].product IN
    /\ assets' = [assets EXCEPT ![i] = @ + 1]
    /\ imageKey' = [imageKey EXCEPT ![p] = i]
    /\ session' = [session EXCEPT ![p] = NoSession]

\* Mutant: the session may be gone before the transaction deletes it.
FinalizeCommitsAgain(a) ==
    /\ Stands(a, "finalize", "commit")
    /\ CommitWrites(a)
    /\ \/ End(a) /\ UNCHANGED faults /\ job' = Settled(job, upload[a], TRUE)
       \/ Fault /\ UNCHANGED <<upload, job>>
    /\ UNCHANGED <<imageManner, used, stored, handed, form, active, ownerOf, calls>>

\* The transaction commits, and its answer may be lost: then withRetry runs it again.
\* It rolls back when the session is gone, and so does one whose answer was lost.
FinalizeCommits(a) ==
    /\ Stands(a, "finalize", "commit")
    /\ IF session[upload[a].product].image = upload[a].image
       THEN /\ CommitWrites(a)
            /\ \/ End(a) /\ UNCHANGED faults /\ job' = Settled(job, upload[a], TRUE)
               \/ Fault /\ UNCHANGED <<upload, job>>
       ELSE FinalizeFails(a, TRUE, session) /\ UNCHANGED <<assets, imageKey, session, faults>>
    /\ UNCHANGED <<imageManner, used, stored, handed, form, active, ownerOf, calls>>

-----------------------------------------------------------------------------
(* Images that go through the server, and the deletion of replaced ones. *)

\* deleteImage: the object is gone, or four attempts have failed and left a job.
Erased(i) == stored' = stored \ {i} /\ UNCHANGED <<job, faults>>
NotErased(i) == Fault /\ job' = Track(job, "DELETE", i) /\ UNCHANGED stored

\* uploadProductImage reads the product and stores the new object.
LegacyUpload(a, p, i) ==
    /\ MayBegin(a) /\ i \notin used
    /\ used' = used \cup {i} /\ stored' = stored \cup {i}
    /\ ownerOf' = [ownerOf EXCEPT ![i] = p]
    /\ BeginUpload(a, NewUpload("legacy", IF imageKey[p] = NoImage THEN "write" ELSE "erase",
                                p, i, imageKey[p]))
    /\ UNCHANGED <<imageManner, handed, form, imageKey, active, assets, session, job, faults>>

\* A failure to delete the old object is swallowed.
LegacyErases(a) ==
    /\ Stands(a, "legacy", "erase")
    /\ Erased(upload[a].old) \/ NotErased(upload[a].old)
    /\ GoTo(a, "write")
    /\ UNCHANGED <<imageManner, used, handed, form, tables, calls>>

UploadForForm(i) ==
    /\ i \notin used /\ Counted
    /\ used' = used \cup {i} /\ stored' = stored \cup {i} /\ form' = form \cup {i}
    /\ UNCHANGED <<imageManner, handed, tables, upload, job, faults>>

AbandonForm(i) ==
    /\ i \in form
    /\ form' = form \ {i}
    /\ UNCHANGED <<imageManner, used, stored, handed, tables, upload, job, faults, calls>>

\* Mutant: the old image is deleted whatever the edit names.
ReplacesAnyway(old, next) == old # NoImage

\* cleanupPairs: the old image goes unless the edit names it again.
Replaces(old, next) == old # NoImage /\ (next = NoImage \/ old # next)

\* updateByAdmin: next is the image the edit names, or none.
Edit(a, p, next) ==
    /\ MayBegin(a)
    /\ next \in form \cup {imageKey[p], NoImage}
    /\ Careful => (next # NoImage \/ imageKey[p] = NoImage)
    /\ BeginUpload(a, NewUpload("edit",
                                IF Replaces(imageKey[p], next) THEN "erase" ELSE "write",
                                p, next, imageKey[p]))
    /\ UNCHANGED <<imageManner, used, stored, handed, form, tables, job, faults>>

\* An edit or a removal whose deletion fails is given up, the row as it was.
EditErases(a) ==
    /\ Stands(a, "edit", "erase")
    /\ \/ Erased(upload[a].old) /\ GoTo(a, "write")
       \/ NotErased(upload[a].old) /\ End(a)
    /\ UNCHANGED <<imageManner, used, handed, form, tables, calls>>

\* The product's row is written: an edit that names no image leaves the old one.
RowWrites(a) ==
    LET i == upload[a].image IN
    /\ Stands(a, "legacy", "write") \/ Stands(a, "edit", "write")
    /\ End(a)
    /\ \/ /\ imageKey' = IF i = NoImage THEN imageKey
                        ELSE [imageKey EXCEPT ![upload[a].product] = i]
          /\ form' = form \ {i} /\ UNCHANGED faults
       \/ Fault /\ UNCHANGED <<imageKey, form>>
    /\ UNCHANGED <<imageManner, used, stored, handed, active, assets, ownerOf, session,
                   job, calls>>

\* removeByAdmin deletes the object and only hides the product: its row still names it.
RemoveProduct(a, p) ==
    /\ MayBegin(a) /\ imageKey[p] # NoImage
    /\ \/ Erased(imageKey[p]) /\ active' = [active EXCEPT ![p] = FALSE]
       \/ NotErased(imageKey[p]) /\ UNCHANGED active
    /\ UNCHANGED <<imageManner, used, handed, form, imageKey, assets, ownerOf, session,
                   upload>>

\* DELETE /upload/{key}
DeleteByHand(a, i) ==
    /\ MayBegin(a) /\ i \in stored /\ ~Careful
    /\ Erased(i) \/ NotErased(i)
    /\ UNCHANGED <<imageManner, used, handed, form, tables, upload>>

-----------------------------------------------------------------------------
(* The nightly cleanup and the jobs. *)

\* collectReferencedObjectKeys
Referenced ==
    {i \in Images : \/ \E p \in Products : imageKey[p] = i \/ session[p].image = i
                    \/ assets[i] > 0}

Cleanup(a) ==
    /\ MayBegin(a)
    /\ Careful => form = {}
    /\ BeginUpload(a, Moved(NewUpload("cleanup", "list", NoProduct, NoImage, NoImage), "list",
                            Referenced))
    /\ UNCHANGED <<imageManner, used, stored, handed, form, tables, job, faults>>

\* From here on, known holds the listed objects that are to be deleted.
CleanupLists(a) ==
    /\ Stands(a, "cleanup", "list")
    /\ BeginUpload(a, Moved(upload[a], "sweep", stored \ upload[a].known))
    /\ UNCHANGED <<imageManner, used, stored, handed, form, tables, job, faults, calls>>

\* One object after the other; one that cannot be deleted ends the cleanup.
CleanupSweeps(a) ==
    /\ Stands(a, "cleanup", "sweep")
    /\ IF upload[a].known = {} THEN End(a) /\ UNCHANGED <<stored, job, faults>>
       ELSE \E i \in upload[a].known :
              \/ Erased(i) /\ BeginUpload(a, Moved(upload[a], "sweep", upload[a].known \ {i}))
              \/ /\ Fault /\ End(a) /\ UNCHANGED stored
                 /\ job' = Track(Track(job, "DELETE", i), "CLEANUP", i)
    /\ UNCHANGED <<imageManner, used, handed, form, tables, calls>>

\* Mutant: the number of attempts is not looked at.
MayRetryAgain(op, i) == job[<<op, i>>].status \in {"PENDING", "RETRYING", "RESOLVED"}

\* retryFailedJob refuses a job that is FAILED or has used up its attempts.
MayRetry(op, i) ==
    /\ job[<<op, i>>].status \in {"PENDING", "RETRYING", "RESOLVED"}
    /\ job[<<op, i>>].tried < MaxRetries

Retry(a, op, i) ==
    /\ MayBegin(a) /\ MayRetry(op, i)
    /\ BeginUpload(a, [kind |-> "retry", at |-> "mark", product |-> NoProduct, image |-> i,
                       old |-> NoImage, known |-> {}, of |-> op,
                       next |-> job[<<op, i>>].tried + 1])
    /\ UNCHANGED <<imageManner, used, stored, handed, form, tables, job, faults>>

\* The job is marked, whatever became of it since it was read, and its work begins.
RetryMarks(a) ==
    LET c == upload[a]
        marked == [job EXCEPT ![<<c.of, c.image>>] =
                      [status |-> "RETRYING", tried |-> @.tried + 1]]
    IN  /\ Stands(a, "retry", "mark")
        /\ IF c.of = "FINALIZE" THEN FinalizeAt(a, c, marked)
           ELSE GoTo(a, "erase") /\ job' = marked
        /\ UNCHANGED <<imageManner, used, stored, handed, form, tables, faults, calls>>

\* retryDelete takes any failure of the deletion for success.
RetryErases(a) ==
    LET i == upload[a].image IN
    /\ Stands(a, "retry", "erase")
    /\ \/ /\ stored' = stored \ {i} /\ UNCHANGED faults
          /\ job' = Settled(job, upload[a], TRUE)
       \/ /\ Fault /\ UNCHANGED stored
          /\ job' = Settled(Track(job, "DELETE", i), upload[a], TRUE)
    /\ End(a)
    /\ UNCHANGED <<imageManner, used, handed, form, tables, calls>>

-----------------------------------------------------------------------------
UploadStep(a) ==
    \/ PresignReads(a) \/ PresignDeletes(a) \/ PresignCreates(a)
    \/ FinalizeExpired(a) \/ FinalizeHeads(a) \/ FinalizeCommits(a)
    \/ LegacyErases(a) \/ EditErases(a) \/ RowWrites(a)
    \/ CleanupLists(a) \/ CleanupSweeps(a)
    \/ RetryMarks(a) \/ RetryErases(a)

ImageNext ==
    \/ \E a \in Admins :
          \/ UploadStep(a) \/ Cleanup(a)
          \/ \E p \in Products, i \in Images : Presign(a, p, i) \/ LegacyUpload(a, p, i)
          \/ \E i \in Images : Finalize(a, i) \/ DeleteByHand(a, i)
          \/ \E p \in Products : RemoveProduct(a, p)
          \/ \E p \in Products, i \in Images \cup {NoImage} : Edit(a, p, i)
          \/ \E op \in Operations, i \in Images : Retry(a, op, i)
    \/ \E i \in Images : ClientPuts(i) \/ UploadForForm(i) \/ AbandonForm(i)
    \/ \E p \in Products : TimeRunsOut(p) \/ ForceClose(p)

ImageSpec == ImageInit /\ [][ImageNext]_imageVars

-----------------------------------------------------------------------------
(* Properties. *)

\* However often a finalize is called, repeated by withRetry after a lost answer or
\* run again from its job, an upload session becomes one asset at most.
AssetOnce == \A i \in Images : assets[i] <= 1

\* A job of a finalize that is RESOLVED has nothing left to do: its session is gone.
ResolvedIsDone ==
    \A i \in Images : job[<<"FINALIZE", i>>].status = "RESOLVED" => SessionOf(i) = {}

\* Calls that do not overlap keep a product within MAX images.
AssetsWithinLimit ==
    imageManner # "any" => \A p \in Products : AssetCount(p) <= MaxImages

\* In careful use the image an active product shows is in the store whenever no call is
\* under way: no replacement, cleanup or repeated job deletes an image in use.
ShownIsStored ==
    Careful /\ (\A a \in Admins : Free(a)) =>
        \A p \in Products : active[p] /\ imageKey[p] # NoImage => imageKey[p] \in stored

\* A finalize repeated by any way has one effect, limits hold, and no image in use is gone.
ImagesSound ==
    ImageTypeOK /\ AssetOnce /\ ResolvedIsDone /\ AssetsWithinLimit /\ ShownIsStored
=============================================================================
