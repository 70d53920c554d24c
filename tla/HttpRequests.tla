------------------------------ MODULE HttpRequests ------------------------------
(***************************************************************************)
(* The requests of the three HTTP APIs (httpapi, fileapi, adminapi), each  *)
(* in a goroutine of its own, and what they share: the gates for uploads   *)
(* and downloads (abuse/control.go), the challenge provider, the Shares.   *)
(*                                                                         *)
(* A call of the Share service is one step here; ShareStore has the steps  *)
(* it takes, AbuseControl the limiter's and AdminSessions the session's.   *)
(* The provider redeems a challenge token once.  A body comes as slowly as *)
(* its client likes, until the connection's deadline.  The status 400      *)
(* stands for 413, 415 and 422 too: what a request says is refused.        *)
(***************************************************************************)
EXTENDS Integers, FiniteSets, Sequences

CONSTANTS
    Requests,        \* the requests; a Share is named by the one that created it
    Existing,        \* Shares that were there before
    Tokens,          \* challenge tokens that were solved
    Foreign,         \* those solved on another site (Turnstile's hostname, action)
    Challenge,       \* whether a verifier is configured
    UploadLimit, DownloadLimit,
    None             \* no token, no owner token, an ID that does not parse

Shares == Requests \union Existing

ASSUME LimitAssumption == UploadLimit \in Nat \ {0} /\ DownloadLimit \in Nat \ {0}
ASSUME NamesAssumption ==
    /\ IsFiniteSet(Requests)
    /\ None \notin Tokens \union Shares /\ Foreign \subseteq Tokens
    /\ Challenge \in BOOLEAN

VARIABLES
    pc,         \* how far each request is
    req,        \* what it asks for
    answer,     \* its status code, 0 until it is written
    uploads,    \* len(control.uploads)
    downloads,  \* len(control.downloads)
    parts,      \* of each upload: the parts it has read
    stage,      \* uploads with a staged file on disk
    opened,     \* downloads with an open object
    verdict,    \* what the provider says of each verification
    spent,      \* tokens the provider has redeemed
    kind,       \* of each Share: its kind, or "none"
    expired,    \* Shares that have expired
    did,        \* history: the requests that changed a Share
    todo,       \* of each bulk deletion: the positions of the IDs left
    failed      \* ... and the IDs it reports

provider == <<verdict, spent>>
gates == <<uploads, downloads>>
files == <<parts, stage, opened>>
shares == <<kind, expired, did>>
bulk == <<todo, failed>>
vars == <<pc, req, answer, gates, files, provider, shares, bulk>>

\* Where a request holds a slot of a gate.
Uploading == {"parts", "staging", "commit", "leaveUpload"}
Downloading == {"open", "sending", "leaveDownload"}

Goto(r, p) == pc' = [pc EXCEPT ![r] = p]

\* The answer is written before the deferred calls run.
Answer(r, status) ==
    /\ answer' = [answer EXCEPT ![r] = status]
    /\ Goto(r, CASE pc[r] \in Uploading   -> "leaveUpload"
                 [] pc[r] \in Downloading -> "leaveDownload"
                 [] OTHER                 -> "done")

\* A step that only answers.
Refuse(r, statuses) ==
    /\ \E status \in statuses : Answer(r, status)
    /\ UNCHANGED <<req, gates, files, provider, shares, bulk>>

\* A step that only moves on.
Proceed(r, p) ==
    /\ Goto(r, p)
    /\ UNCHANGED <<req, answer, gates, files, provider, shares, bulk>>

Live(s) == s # None /\ kind[s] # "none"
Active(s) == Live(s) /\ s \notin expired
The(r) == req[r].ids[1]

\* What request r may ask for: a Share that others created, with the owner token
\* of this or of another one.
Asks(ops, tokens, ids, owners) ==
    [op : ops, token : tokens, ids : ids, owner : owners]
Sendable(r) ==
    LET known == (Shares \ {r}) \union {None}
        one == [1..1 -> known]
        two == [1..2 -> known]
    IN  Asks({"create"}, Tokens \union {None}, {<<>>}, {None})
        \union Asks({"read", "raw", "download", "adminDelete"}, {None}, one, {None})
        \union Asks({"patch", "delete"}, {None}, one, known)
        \union Asks({"bulk"}, {None}, one \union two, {None})
        \union Asks({"cleanup"}, {None}, {<<>>}, {None})

Administrative == {"adminDelete", "bulk", "cleanup"}

-------------------------------------------------------------------------------
Init ==
    /\ pc = [r \in Requests |-> "idle"]
    /\ req = [r \in Requests |-> [op |-> "read", token |-> None, ids |-> <<None>>, owner |-> None]]
    /\ answer = [r \in Requests |-> 0]
    /\ uploads = 0 /\ downloads = 0
    /\ parts = [r \in Requests |-> {}] /\ stage = {} /\ opened = {}
    /\ verdict = [r \in Requests |-> "none"] /\ spent = {}
    /\ kind \in {k \in [Shares -> {"none", "text", "encrypted", "file"}] :
                   \A s \in Shares : k[s] = "none" <=> s \in Requests}
    /\ expired = {} /\ did = {}
    /\ todo = [r \in Requests |-> {}] /\ failed = [r \in Requests |-> {}]

\* A request reaches its handler; the administrator's pass no limiter.
Arrive(r, q) ==
    /\ pc[r] = "idle"
    /\ req' = [req EXCEPT ![r] = q]
    /\ Goto(r, IF q.op \in Administrative THEN "session" ELSE "limiter")
    /\ UNCHANGED <<answer, gates, files, provider, shares, bulk>>

\* abuse.Allow comes before anything is read of the request.
Limit(r) ==
    /\ pc[r] = "limiter"
    /\ \/ Refuse(r, {429})
       \/ Proceed(r, CASE req[r].op = "create"   -> "challenge"
                       [] req[r].op = "download" -> "gate"
                       [] OTHER                  -> "route")

(***************************************************************************)
(* Creation: the challenge, then the format, then a body.                  *)
(***************************************************************************)
\* requireChallenge, up to the call of the provider.
RequireChallenge(r) ==
    /\ pc[r] = "challenge"
    /\ \/ ~Challenge /\ Proceed(r, "format")
       \/ Challenge /\ req[r].token = None /\ Refuse(r, {403})
       \/ /\ Challenge /\ req[r].token # None
          /\ verdict' = [verdict EXCEPT ![r] = "asked"]
          /\ Goto(r, "verifying")
          /\ UNCHANGED <<req, answer, gates, files, spent, shares, bulk>>

\* The provider gets the verification, perhaps after the server gave up on it.
Redeem(r) ==
    /\ verdict[r] = "asked"
    /\ verdict' = [verdict EXCEPT ![r] =
                     IF req[r].token \in spent THEN "failure"
                     ELSE IF req[r].token \in Foreign THEN "foreign" ELSE "success"]
    /\ spent' = spent \union {req[r].token}
    /\ UNCHANGED <<pc, req, answer, gates, files, shares, bulk>>

\* Verify returns what the provider answered ...
Verified(r) ==
    /\ pc[r] = "verifying"
    /\ \/ verdict[r] = "success" /\ Proceed(r, "format")
       \/ verdict[r] \in {"failure", "foreign"} /\ Refuse(r, {403})

\* A verifier that lets pass what it cannot verify.
MutVerifyFails(r) == pc[r] = "verifying" /\ Proceed(r, "format")

\* ... or gives up: an error, an unreadable answer, ChallengeTimeout.
VerifyFails(r) == pc[r] = "verifying" /\ Refuse(r, {503})

\* The Content-Encoding and the Content-Type.
CheckFormat(r) ==
    /\ pc[r] = "format"
    /\ Refuse(r, {400}) \/ Proceed(r, "text") \/ Proceed(r, "upload")

\* createJSON: decodeJSON and the validation of what it decoded ...
ReadText(r) ==
    /\ pc[r] = "text"
    /\ Refuse(r, {400}) \/ Proceed(r, "insert")

\* ... then Create or CreateEncrypted.
InsertText(r) ==
    /\ pc[r] = "insert"
    /\ \/ Refuse(r, {400, 500})
       \/ /\ \E k \in {"text", "encrypted"} : kind' = [kind EXCEPT ![r] = k]
          /\ did' = did \union {r}
          /\ Answer(r, 201)
          /\ UNCHANGED <<req, gates, files, provider, expired, bulk>>

\* A release deferred before the attempt.
MutTryUpload(r) ==
    /\ pc[r] = "upload"
    /\ IF uploads < UploadLimit
       THEN /\ uploads' = uploads + 1 /\ Goto(r, "parts") /\ UNCHANGED answer
       ELSE /\ answer' = [answer EXCEPT ![r] = 429] /\ Goto(r, "leaveUpload")
            /\ UNCHANGED uploads
    /\ UNCHANGED <<req, downloads, files, provider, shares, bulk>>

\* createFile: a slot of the gate, or a refusal that holds none.
TryUpload(r) ==
    /\ pc[r] = "upload"
    /\ \/ uploads >= UploadLimit /\ Refuse(r, {429})
       \/ /\ uploads < UploadLimit
          /\ uploads' = uploads + 1
          /\ Goto(r, "parts")
          /\ UNCHANGED <<req, answer, downloads, files, provider, shares, bulk>>

\* The deadlines cannot be set, the body is too large or no multipart body, a
\* part is not supported, not valid, or there twice.
RefuseParts(r) == pc[r] = "parts" /\ Refuse(r, {400, 500})

ReadMetadata(r) ==
    /\ pc[r] = "parts" /\ "metadata" \notin parts[r]
    /\ parts' = [parts EXCEPT ![r] = @ \union {"metadata"}]
    /\ UNCHANGED <<pc, req, answer, gates, stage, opened, provider, shares, bulk>>

\* StageFile, which copies the part to disk as it comes ...
StageFile(r) ==
    /\ pc[r] = "parts" /\ "file" \notin parts[r]
    /\ stage' = stage \union {r}
    /\ Goto(r, "staging")
    /\ UNCHANGED <<req, answer, gates, parts, opened, provider, shares, bulk>>

FinishStage(r) ==
    /\ pc[r] = "staging"
    /\ parts' = [parts EXCEPT ![r] = @ \union {"file"}]
    /\ Goto(r, "parts")
    /\ UNCHANGED <<req, answer, gates, stage, opened, provider, shares, bulk>>

\* ... and removes what it wrote when the part is empty, too large or cut off.
FailStage(r) ==
    /\ pc[r] = "staging"
    /\ stage' = stage \ {r}
    /\ \E status \in {400, 500} : Answer(r, status)
    /\ UNCHANGED <<req, gates, parts, opened, provider, shares, bulk>>

EndParts(r) ==
    /\ pc[r] = "parts"
    /\ \/ parts[r] # {"metadata", "file"} /\ Refuse(r, {400})
       \/ parts[r] = {"metadata", "file"} /\ (Refuse(r, {400}) \/ Proceed(r, "commit"))

\* CreateFile: it takes the staged file over, and aborts it if it fails.
CommitFile(r) ==
    /\ pc[r] = "commit"
    /\ stage' = stage \ {r}
    /\ parts' = [parts EXCEPT ![r] = @ \ {"file"}]
    /\ \/ /\ \E status \in {400, 500} : Answer(r, status)
          /\ UNCHANGED <<kind, did>>
       \/ /\ kind' = [kind EXCEPT ![r] = "file"]
          /\ did' = did \union {r}
          /\ Answer(r, 201)
    /\ UNCHANGED <<req, gates, opened, provider, expired, bulk>>

\* An upload that leaves what it staged to a caller that is done.
MutLeaveUpload(r) ==
    /\ pc[r] = "leaveUpload"
    /\ uploads' = uploads - 1
    /\ Goto(r, "done")
    /\ UNCHANGED <<req, answer, downloads, files, provider, shares, bulk>>

\* The deferred calls: Abort, if the file is still the handler's, then
\* ReleaseUpload.
LeaveUpload(r) ==
    /\ pc[r] = "leaveUpload"
    /\ stage' = IF "file" \in parts[r] THEN stage \ {r} ELSE stage
    /\ uploads' = uploads - 1
    /\ Goto(r, "done")
    /\ UNCHANGED <<req, answer, downloads, parts, opened, provider, shares, bulk>>

(***************************************************************************)
(* Reading, downloading, patching and deleting a Share.                    *)
(***************************************************************************)
\* The ID, and for a change the Authorization header.
Route(r) ==
    /\ pc[r] = "route"
    /\ \/ The(r) = None /\ Refuse(r, {404})
       \/ The(r) # None /\ req[r].op \in {"read", "raw"} /\ Proceed(r, "get")
       \/ /\ The(r) # None /\ req[r].op \in {"patch", "delete"}
          /\ \/ req[r].owner = None /\ Refuse(r, {401})
             \/ /\ req[r].owner # None
                /\ Proceed(r, IF req[r].op = "patch" THEN "authorize" ELSE "delete")

\* What the service says of a Share that is not there, or expired.
Missing(r) == Refuse(r, IF Live(The(r)) THEN {410, 500} ELSE {404, 500})

\* Get, for the JSON and the raw view.
GetShare(r) ==
    /\ pc[r] = "get"
    /\ \/ ~Active(The(r)) /\ Missing(r)
       \/ /\ Active(The(r))
          /\ Refuse(r, IF req[r].op = "read" \/ kind[The(r)] = "text" THEN {200, 500}
                       ELSE IF kind[The(r)] = "encrypted" THEN {409, 500} ELSE {404, 500})

TryDownload(r) ==
    /\ pc[r] = "gate"
    /\ \/ downloads >= DownloadLimit /\ Refuse(r, {429})
       \/ /\ downloads < DownloadLimit
          /\ downloads' = downloads + 1
          /\ Goto(r, "open")
          /\ UNCHANGED <<req, answer, uploads, files, provider, shares, bulk>>

\* OpenFile: the row, then the object, which a deletion may have taken.
OpenFile(r) ==
    /\ pc[r] = "open"
    /\ \/ ~Active(The(r)) /\ Missing(r)
       \/ Active(The(r)) /\ kind[The(r)] # "file" /\ Refuse(r, {404, 500})
       \/ Active(The(r)) /\ kind[The(r)] = "file" /\ Refuse(r, {500})
       \/ /\ Active(The(r)) /\ kind[The(r)] = "file"
          /\ opened' = opened \union {r}
          /\ Goto(r, "sending")
          /\ UNCHANGED <<req, answer, gates, parts, stage, provider, shares, bulk>>

\* ServeContent, unless the deadline cannot be set.
SendFile(r) == pc[r] = "sending" /\ Refuse(r, {200, 500})

\* The deferred calls: Close, then ReleaseDownload.
LeaveDownload(r) ==
    /\ pc[r] = "leaveDownload"
    /\ opened' = opened \ {r}
    /\ downloads' = downloads - 1
    /\ Goto(r, "done")
    /\ UNCHANGED <<req, answer, uploads, parts, stage, provider, shares, bulk>>

\* AuthorizeOwner, before the body of a patch is read.
AuthorizeOwner(r) ==
    /\ pc[r] = "authorize"
    /\ \/ ~Active(The(r)) /\ Missing(r)
       \/ Active(The(r)) /\ req[r].owner # The(r) /\ Refuse(r, {401, 500})
       \/ Active(The(r)) /\ req[r].owner = The(r) /\ (Refuse(r, {500}) \/ Proceed(r, "patchBody"))

ReadPatch(r) ==
    /\ pc[r] = "patchBody"
    /\ Refuse(r, {400}) \/ Proceed(r, "update")

\* Update asks the row again, in its transaction.
UpdateShare(r) ==
    /\ pc[r] = "update"
    /\ \/ ~Active(The(r)) /\ Missing(r)
       \/ Active(The(r)) /\ req[r].owner # The(r) /\ Refuse(r, {401, 500})
       \/ /\ Active(The(r)) /\ req[r].owner = The(r)
          /\ \/ Refuse(r, {400, 500})
             \/ /\ did' = did \union {r}
                /\ Answer(r, 200)
                /\ UNCHANGED <<req, gates, files, provider, kind, expired, bulk>>

\* A row removed by r.
Remove(r, s) ==
    /\ kind' = [kind EXCEPT ![s] = "none"]
    /\ expired' = expired \ {s}
    /\ did' = did \union {r}

\* A File whose object could not be removed answered as if it were still there.
MutDeleteShare(r) ==
    /\ pc[r] = "delete"
    /\ \/ ~Active(The(r)) /\ Missing(r)
       \/ Active(The(r)) /\ req[r].owner # The(r) /\ Refuse(r, {401, 500})
       \/ /\ Active(The(r)) /\ req[r].owner = The(r)
          /\ \/ Refuse(r, {500})
             \/ /\ Remove(r, The(r))
                /\ \E status \in {204, IF kind[The(r)] = "file" THEN 500 ELSE 204} :
                      Answer(r, status)
                /\ UNCHANGED <<req, gates, files, provider, bulk>>

\* Delete: a CleanupError, for an object that could not be removed, is no
\* failure.
DeleteShare(r) ==
    /\ pc[r] = "delete"
    /\ \/ ~Active(The(r)) /\ Missing(r)
       \/ Active(The(r)) /\ req[r].owner # The(r) /\ Refuse(r, {401, 500})
       \/ /\ Active(The(r)) /\ req[r].owner = The(r)
          /\ \/ Refuse(r, {500})
             \/ /\ Remove(r, The(r))
                /\ Answer(r, 204)
                /\ UNCHANGED <<req, gates, files, provider, bulk>>

(***************************************************************************)
(* The administrator's requests.                                           *)
(***************************************************************************)
\* authenticate, and the body of a bulk deletion, whose bad IDs are reported
\* first.  The ID of a single Share is parsed before the session is looked up.
Authenticate(r) ==
    /\ pc[r] = "session"
    /\ \/ req[r].op = "adminDelete" /\ The(r) = None /\ Refuse(r, {404})
       \/ ~(req[r].op = "adminDelete" /\ The(r) = None) /\ Refuse(r, {401, 403})
       \/ req[r].op = "adminDelete" /\ The(r) # None /\ Proceed(r, "adminDelete")
       \/ req[r].op = "cleanup" /\ Proceed(r, "cleanup")
       \/ req[r].op = "bulk" /\ Refuse(r, {400})
       \/ /\ req[r].op = "bulk"
          /\ todo' = [todo EXCEPT ![r] = {i \in DOMAIN req[r].ids : req[r].ids[i] # None}]
          /\ failed' = [failed EXCEPT ![r] = {req[r].ids[i] : i \in DOMAIN req[r].ids} \ Shares]
          /\ Goto(r, "bulk")
          /\ UNCHANGED <<req, answer, gates, files, provider, shares>>

\* AdminDelete of one Share, expired or not.
AdminDelete(r) ==
    /\ pc[r] = "adminDelete"
    /\ \/ ~Live(The(r)) /\ Refuse(r, {404, 500})
       \/ Live(The(r)) /\ Refuse(r, {500})
       \/ /\ Live(The(r))
          /\ Remove(r, The(r))
          /\ Answer(r, 204)
          /\ UNCHANGED <<req, gates, files, provider, bulk>>

\* The position that a bulk deletion has come to.
IsFirst(r, i) == i \in todo[r] /\ \A j \in todo[r] : i <= j

\* An error counted as if the Share were gone.
MutBulkDelete(r, i) ==
    /\ pc[r] = "bulk" /\ IsFirst(r, i)
    /\ LET s == req[r].ids[i] IN
       \/ UNCHANGED <<failed, shares>>
       \/ Live(s) /\ Remove(r, s) /\ UNCHANGED failed
    /\ todo' = [todo EXCEPT ![r] = @ \ {i}]
    /\ UNCHANGED <<pc, req, answer, gates, files, provider>>

\* bulkDelete, one ID at a time: any error is reported, a Share that is not
\* there and a CleanupError of one that has gone among them.
BulkDelete(r, i) ==
    /\ pc[r] = "bulk" /\ IsFirst(r, i)
    /\ LET s == req[r].ids[i] IN
       \/ /\ failed' = [failed EXCEPT ![r] = @ \union {s}]
          /\ UNCHANGED shares \/ (kind[s] = "file" /\ Remove(r, s))
       \/ /\ Live(s) /\ Remove(r, s)
          /\ UNCHANGED failed
    /\ todo' = [todo EXCEPT ![r] = @ \ {i}]
    /\ UNCHANGED <<pc, req, answer, gates, files, provider>>

EndBulk(r) == pc[r] = "bulk" /\ todo[r] = {} /\ Refuse(r, {200})

\* cleanupExpired: the maintenance pass, which may fail half-way.
Cleanup(r) ==
    /\ pc[r] = "cleanup"
    /\ \E gone \in SUBSET expired :
          /\ kind' = [s \in Shares |-> IF s \in gone THEN "none" ELSE kind[s]]
          /\ expired' = expired \ gone
          /\ did' = IF gone = {} THEN did ELSE did \union {r}
    /\ \E status \in {200, 500} : Answer(r, status)
    /\ UNCHANGED <<req, gates, files, provider, bulk>>

(***************************************************************************)
(* The environment.                                                        *)
(***************************************************************************)
\* The clock reaches a Share's expiration.
Expire(s) ==
    /\ Active(s)
    /\ expired' = expired \union {s}
    /\ UNCHANGED <<pc, req, answer, gates, files, provider, kind, did, bulk>>

\* The clients bring a body, or read one.
Body(r) ==
    \/ ReadText(r) \/ ReadPatch(r) \/ SendFile(r)
    \/ ReadMetadata(r) \/ StageFile(r) \/ FinishStage(r) \/ EndParts(r)

\* The deadline does not cover a part that is being staged.
MutDeadline(r) ==
    \/ pc[r] \in {"text", "patchBody"} /\ Refuse(r, {400})
    \/ pc[r] = "parts" /\ Refuse(r, {500})
    \/ pc[r] = "sending" /\ Refuse(r, {200})

\* The connection's deadline: 15 s, or FileTransferDeadline for a File.
Deadline(r) ==
    \/ pc[r] \in {"text", "patchBody"} /\ Refuse(r, {400})
    \/ pc[r] = "parts" /\ Refuse(r, {500})
    \/ FailStage(r)
    \/ pc[r] = "sending" /\ Refuse(r, {200})

\* What the goroutine does without its client.
Server(r) ==
    \/ Limit(r) \/ RequireChallenge(r) \/ Verified(r) \/ VerifyFails(r) \/ CheckFormat(r)
    \/ InsertText(r) \/ TryUpload(r) \/ CommitFile(r) \/ LeaveUpload(r)
    \/ Route(r) \/ GetShare(r) \/ TryDownload(r) \/ OpenFile(r) \/ LeaveDownload(r)
    \/ AuthorizeOwner(r) \/ UpdateShare(r) \/ DeleteShare(r)
    \/ Authenticate(r) \/ AdminDelete(r) \/ EndBulk(r) \/ Cleanup(r)
    \/ \E i \in todo[r] : BulkDelete(r, i)

Next ==
    \/ \E r \in Requests :
          \/ \E q \in Sendable(r) : Arrive(r, q)
          \/ Server(r) \/ Body(r) \/ RefuseParts(r) \/ Redeem(r) \/ Deadline(r)
    \/ \E s \in Shares : Expire(s)

Spec == Init /\ [][Next]_vars

\* A goroutine that can run runs, ChallengeTimeout and the connection's deadlines
\* pass; a client, and the provider, may never say anything.
Fairness == \A r \in Requests : WF_vars(Server(r)) /\ WF_vars(Deadline(r))
FairSpec == Spec /\ Fairness

-------------------------------------------------------------------------------
Statuses == {200, 201, 204, 400, 401, 403, 404, 409, 410, 429, 500, 503}

Places == {"idle", "limiter", "challenge", "verifying", "format", "text", "insert", "upload",
           "gate", "route", "get", "authorize", "patchBody", "update", "delete",
           "session", "adminDelete", "bulk", "cleanup", "done"}
          \union Uploading \union Downloading

TypeOK ==
    /\ pc \in [Requests -> Places] /\ answer \in [Requests -> Statuses \union {0}]
    /\ req \in [Requests -> [op : {"create", "read", "raw", "download", "patch", "delete"}
                                     \union Administrative,
                             token : Tokens \union {None}, ids : Seq(Shares \union {None}),
                             owner : Shares \union {None}]]
    /\ uploads \in Nat /\ downloads \in Nat
    /\ parts \in [Requests -> SUBSET {"metadata", "file"}]
    /\ stage \subseteq Requests /\ opened \subseteq Requests
    /\ verdict \in [Requests -> {"none", "asked", "success", "failure", "foreign"}]
    /\ spent \subseteq Tokens
    /\ kind \in [Shares -> {"none", "text", "encrypted", "file"}]
    /\ expired \subseteq Shares /\ did \subseteq Requests
    /\ todo \in [Requests -> SUBSET Nat] /\ failed \in [Requests -> SUBSET (Shares \union {None})]

\* The gates count the requests that are in them, no more than their limits: no
\* path out of a handler keeps its slot, or gives up one that it does not have
\* (ReleaseUpload would wait for ever).
GatesExact ==
    /\ uploads = Cardinality({r \in Requests : pc[r] \in Uploading}) /\ uploads <= UploadLimit
    /\ downloads = Cardinality({r \in Requests : pc[r] \in Downloading})
    /\ downloads <= DownloadLimit

\* A request that is over has left no staged file behind, and no open object.
NothingLeft == \A r \in Requests : pc[r] = "done" => r \notin stage \union opened

\* A challenge token creates one Share at most, and none if it was solved on
\* another site, although requests race with it, verifications time out and reach
\* the provider late.
OneSharePerToken ==
    LET Created == {r \in did : req[r].op = "create"} IN
    Challenge =>
       /\ \A r \in Created : req[r].token \in Tokens \ Foreign
       /\ \A r, q \in Created : req[r].token = req[q].token => r = q

\* The status code tells whether the request changed a Share; only a bulk deletion
\* and a cleanup may have done part of their work.
AnswerTruth ==
    \A r \in Requests :
       answer[r] # 0 /\ req[r].op \notin {"bulk", "cleanup"} =>
          (r \in did <=> \/ answer[r] \in {201, 204}
                         \/ answer[r] = 200 /\ req[r].op = "patch")

\* A bulk deletion reports each ID whose Share is still there.
BulkTruth ==
    \A r \in Requests :
       req[r].op = "bulk" /\ answer[r] = 200 =>
          \A i \in DOMAIN req[r].ids :
             req[r].ids[i] \in failed[r] \/ ~Live(req[r].ids[i])

(***************************************************************************)
(* The invariant that makes these inductive, by the place of a request.    *)
(***************************************************************************)
\* The operations whose handler has place p.
Handles(p, op) ==
    /\ p \in {"challenge", "verifying", "format", "text", "insert", "upload"} \union Uploading =>
          op = "create"
    /\ p = "get" => op \in {"read", "raw"}
    /\ p \in {"gate"} \union Downloading => op = "download"
    /\ p \in {"authorize", "patchBody", "update"} => op = "patch"
    /\ p = "delete" => op = "delete"
    /\ p = "route" => op \in {"read", "raw", "patch", "delete"}
    /\ p = "limiter" => op \notin Administrative
    /\ p = "session" => op \in Administrative
    /\ p \in Administrative => op = p

\* A staged file has an upload that removes it, an open object a download.
Cleared(r) ==
    /\ r \in stage => pc[r] \in Uploading /\ (pc[r] = "staging" \/ "file" \in parts[r])
    /\ r \in opened => pc[r] \in {"sending", "leaveDownload"}

\* It is verified before its body is read, by a token that no other one has used.
Admitted == {"format", "text", "insert", "upload"} \union Uploading
VerifiedFirst(r) ==
    /\ pc[r] \in {"idle", "limiter", "challenge"} => verdict[r] = "none"
    /\ verdict[r] # "none" => req[r].token \in Tokens
    /\ verdict[r] = "success" => req[r].token \in spent \ Foreign
    /\ Challenge /\ pc[r] \in Admitted => verdict[r] = "success"
    /\ Challenge /\ r \in did /\ req[r].op = "create" => verdict[r] = "success"
OneSuccess ==
    \A r, q \in Requests :
       verdict[r] = "success" /\ verdict[q] = "success" /\ req[r].token = req[q].token => r = q

\* It is answered once, after it has changed what it changes; before that, its Share
\* is not there.
Answered(r) ==
    /\ answer[r] # 0 <=> pc[r] \in {"leaveUpload", "leaveDownload", "done"}
    /\ r \in did => answer[r] # 0 \/ pc[r] = "bulk"
    /\ kind[r] # "none" => answer[r] # 0

\* A bulk deletion has reported an ID, has it before it, or the Share is gone, and
\* not one that is still to be created.
Gone(s) == s # None /\ kind[s] = "none" /\ (s \in Requests => answer[s] # 0)
Accounted(r) ==
    req[r].op = "bulk" /\ (pc[r] = "bulk" \/ answer[r] = 200) =>
       /\ todo[r] \subseteq DOMAIN req[r].ids
       /\ \A i \in DOMAIN req[r].ids :
             req[r].ids[i] \in failed[r] \/ i \in todo[r] \/ Gone(req[r].ids[i])
       /\ answer[r] = 200 => todo[r] = {}

IndInv ==
    /\ TypeOK /\ GatesExact /\ AnswerTruth /\ OneSuccess
    /\ \A r \in Requests :
          /\ Handles(pc[r], req[r].op) /\ Cleared(r) /\ VerifiedFirst(r)
          /\ Answered(r) /\ Accounted(r)

\* Every request ends and lets go of its slot, however long its client and the
\* provider are silent.
EveryRequestEnds == \A r \in Requests : pc[r] # "idle" ~> pc[r] = "done"
=================================================================================
