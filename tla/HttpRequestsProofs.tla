-------------------------- MODULE HttpRequestsProofs --------------------------
(* Proofs about HttpRequests, for any number of requests, Shares and tokens    *)
(* and any limits of the gates.                                                *)
EXTENDS HttpRequests, FiniteSetTheorems, TLAPS

USE LimitAssumption, NamesAssumption

Truthful(r) ==
    answer[r] # 0 /\ req[r].op \notin {"bulk", "cleanup"} =>
       (r \in did <=> \/ answer[r] \in {201, 204}
                      \/ answer[r] = 200 /\ req[r].op = "patch")

\* What the invariant says of one request.
Fine(r) ==
    /\ Handles(pc[r], req[r].op) /\ Cleared(r) /\ VerifiedFirst(r)
    /\ Answered(r) /\ Accounted(r) /\ Truthful(r)

LEMMA IndInvParts ==
    IndInv <=> TypeOK /\ GatesExact /\ OneSuccess /\ (\A r \in Requests : Fine(r))
BY DEF IndInv, AnswerTruth, Fine, Truthful

Ends == {"leaveUpload", "leaveDownload", "done"}

-------------------------------------------------------------------------------
\* How a step of one request changes the number of those at some places.
LEMMA GateCount ==
    ASSUME NEW f \in [Requests -> Places], NEW r \in Requests, NEW p \in Places, NEW G
    PROVE  LET g == [f EXCEPT ![r] = p]
               A == {q \in Requests : f[q] \in G}
               B == {q \in Requests : g[q] \in G}
           IN  /\ Cardinality(A) \in Nat
               /\ Cardinality(B) = Cardinality(A) + (IF p \in G THEN 1 ELSE 0)
                                                  - (IF f[r] \in G THEN 1 ELSE 0)
<1> DEFINE g == [f EXCEPT ![r] = p]
           A == {q \in Requests : f[q] \in G}
           B == {q \in Requests : g[q] \in G}
<1>1. IsFiniteSet(A) /\ Cardinality(A) \in Nat
  <2>1. A \subseteq Requests OBVIOUS
  <2> QED BY <2>1, FS_Subset, FS_CardinalityType
<1>2. CASE p \in G /\ f[r] \notin G
  <2>1. B = A \union {r} /\ r \notin A BY <1>2
  <2>2. Cardinality(B) = Cardinality(A) + 1 BY <1>1, <2>1, FS_AddElement
  <2> QED BY <1>1, <1>2, <2>2
<1>3. CASE p \notin G /\ f[r] \in G
  <2>1. B = A \ {r} /\ r \in A BY <1>3
  <2>2. Cardinality(A \ {r}) = Cardinality(A) - 1 BY <1>1, <2>1, FS_RemoveElement
  <2>3. Cardinality(B) = Cardinality(A) - 1 BY <2>1, <2>2
  <2> QED BY <1>1, <1>3, <2>3
<1>4. CASE p \in G <=> f[r] \in G
  <2>1. B = A BY <1>4
  <2>2. Cardinality(B) = Cardinality(A) BY <2>1
  <2>3. \A n \in Nat : n = n + (IF p \in G THEN 1 ELSE 0) - (IF f[r] \in G THEN 1 ELSE 0)
    <3>1. CASE p \in G BY <1>4, <3>1
    <3>2. CASE p \notin G BY <1>4, <3>2
    <3> QED BY <3>1, <3>2
  <2> QED BY <1>1, <2>2, <2>3
<1> QED BY <1>1, <1>2, <1>3, <1>4

\* The gates, after a step of r to place p that takes or releases what it should.
LEMMA GatesKept ==
    ASSUME IndInv, NEW r \in Requests, NEW p \in Places, pc' = [pc EXCEPT ![r] = p],
           uploads' = uploads + (IF p \in Uploading THEN 1 ELSE 0)
                              - (IF pc[r] \in Uploading THEN 1 ELSE 0),
           uploads' <= UploadLimit,
           downloads' = downloads + (IF p \in Downloading THEN 1 ELSE 0)
                                  - (IF pc[r] \in Downloading THEN 1 ELSE 0),
           downloads' <= DownloadLimit
    PROVE  GatesExact' /\ uploads' \in Nat /\ downloads' \in Nat
<1>1. pc \in [Requests -> Places] BY DEF IndInv, TypeOK
<1>2. pc' \in [Requests -> Places] BY <1>1
<1> DEFINE In(f, G) == {q \in Requests : f[q] \in G}
<1>3. \A G : /\ Cardinality(In(pc, G)) \in Nat
             /\ Cardinality(In([pc EXCEPT ![r] = p], G))
                   = Cardinality(In(pc, G)) + (IF p \in G THEN 1 ELSE 0)
                                            - (IF pc[r] \in G THEN 1 ELSE 0)
      BY <1>1, GateCount
<1>4. \A q \in Requests : [pc EXCEPT ![r] = p][q] \in Places BY <1>1
<1>5. Cardinality({q \in Requests : pc'[q] \in Uploading})
         = Cardinality({q \in Requests : pc[q] \in Uploading})
              + (IF p \in Uploading THEN 1 ELSE 0) - (IF pc[r] \in Uploading THEN 1 ELSE 0)
      BY <1>3
<1>6. Cardinality({q \in Requests : pc'[q] \in Downloading})
         = Cardinality({q \in Requests : pc[q] \in Downloading})
              + (IF p \in Downloading THEN 1 ELSE 0) - (IF pc[r] \in Downloading THEN 1 ELSE 0)
      BY <1>3
<1>7. /\ uploads = Cardinality({q \in Requests : pc[q] \in Uploading})
      /\ downloads = Cardinality({q \in Requests : pc[q] \in Downloading})
      BY DEF IndInv, GatesExact
<1>8. \A f : Cardinality({q \in Requests : [pc EXCEPT ![r] = p][q] \in f}) \in Nat
  <2> SUFFICES ASSUME NEW G PROVE Cardinality({q \in Requests : [pc EXCEPT ![r] = p][q] \in G}) \in Nat
    OBVIOUS
  <2>1. IsFiniteSet({q \in Requests : [pc EXCEPT ![r] = p][q] \in G}) BY FS_Subset
  <2> QED BY <2>1, FS_CardinalityType
<1>9. uploads' = Cardinality({q \in Requests : pc'[q] \in Uploading}) BY <1>5, <1>7
<1>10. downloads' = Cardinality({q \in Requests : pc'[q] \in Downloading}) BY <1>6, <1>7
<1>11. uploads' \in Nat /\ downloads' \in Nat BY <1>8, <1>9, <1>10
<1> QED BY <1>9, <1>10, <1>11 DEF GatesExact, Uploading, Downloading

\* What a step of r may do to the others: take a Share away, spend a token.
Apart(r) ==
    /\ \A q \in Requests \ {r} :
          /\ pc'[q] = pc[q] /\ req'[q] = req[q] /\ answer'[q] = answer[q]
          /\ parts'[q] = parts[q] /\ verdict'[q] = verdict[q]
          /\ todo'[q] = todo[q] /\ failed'[q] = failed[q]
          /\ q \in stage' => q \in stage
          /\ q \in opened' => q \in opened
          /\ q \in did' <=> q \in did
          /\ kind'[q] # "none" => kind[q] # "none"
    /\ \A t \in spent : t \in spent'
    /\ \A s \in Shares :
          Gone(s) => kind'[s] = "none" /\ (s \in Requests => answer'[s] # 0)

LEMMA OthersFine ==
    ASSUME IndInv, NEW r \in Requests, Apart(r), NEW q \in Requests, q # r
    PROVE  Fine(q)'
<1>1. Fine(q) BY IndInvParts
<1>2. /\ pc'[q] = pc[q] /\ req'[q] = req[q] /\ answer'[q] = answer[q]
      /\ parts'[q] = parts[q] /\ verdict'[q] = verdict[q]
      /\ todo'[q] = todo[q] /\ failed'[q] = failed[q]
      /\ q \in stage' => q \in stage
      /\ q \in opened' => q \in opened
      /\ q \in did' <=> q \in did
      /\ kind'[q] # "none" => kind[q] # "none"
      BY DEF Apart
<1>3. Handles(pc[q], req[q].op)' BY <1>1, <1>2 DEF Fine
<1>4. Cleared(q)' BY <1>1, <1>2 DEF Fine, Cleared
<1>5. VerifiedFirst(q)'
  <2>1. \A t \in spent : t \in spent' BY DEF Apart
  <2> QED BY <1>1, <1>2, <2>1 DEF Fine, VerifiedFirst
<1>6. Answered(q)' BY <1>1, <1>2 DEF Fine, Answered
<1>7. Accounted(q)'
  <2>1. \A s \in Shares : Gone(s) => Gone(s)' BY DEF Apart, Gone
  <2>2. req[q].ids \in Seq(Shares \union {None}) BY DEF IndInv, TypeOK
  <2>3. \A i \in DOMAIN req[q].ids : Gone(req[q].ids[i]) => Gone(req[q].ids[i])'
    <3> SUFFICES ASSUME NEW i \in DOMAIN req[q].ids, Gone(req[q].ids[i])
                 PROVE  Gone(req[q].ids[i])'
      OBVIOUS
    <3>1. req[q].ids[i] \in Shares BY <2>2 DEF Gone
    <3> QED BY <1>2, <2>1, <3>1 DEF Gone
  <2> QED BY <1>1, <1>2, <2>3 DEF Fine, Accounted
<1>8. Truthful(q)' BY <1>1, <1>2 DEF Fine, Truthful
<1> QED BY <1>3, <1>4, <1>5, <1>6, <1>7, <1>8 DEF Fine

LEMMA Assembled ==
    ASSUME IndInv, NEW r \in Requests,
           TypeOK', GatesExact', OneSuccess', Apart(r), Fine(r)'
    PROVE  IndInv'
<1>1. \A q \in Requests : Fine(q)' BY OthersFine
<1> QED BY <1>1 DEF IndInv, AnswerTruth, Fine, Truthful

-------------------------------------------------------------------------------
\* Where an answer leads.
Ended(p) == CASE p \in Uploading   -> "leaveUpload"
              [] p \in Downloading -> "leaveDownload"
              [] OTHER             -> "done"

LEMMA EndedIs ==
    ASSUME NEW p \in Places
    PROVE  /\ Ended(p) \in Places /\ Ended(p) \in Ends
           /\ Ended(p) \in Uploading <=> p \in Uploading
           /\ Ended(p) \in Downloading <=> p \in Downloading
           /\ \A op : Handles(p, op) => Handles(Ended(p), op)
<1>1. \/ p \in Uploading /\ Ended(p) = "leaveUpload"
      \/ p \in Downloading /\ p \notin Uploading /\ Ended(p) = "leaveDownload"
      \/ p \notin Uploading /\ p \notin Downloading /\ Ended(p) = "done"
  <2>1. CASE p \in Uploading BY <2>1 DEF Ended, Uploading, Downloading
  <2>2. CASE p \notin Uploading /\ p \in Downloading BY <2>2 DEF Ended
  <2>3. CASE p \notin Uploading /\ p \notin Downloading BY <2>3 DEF Ended
  <2> QED BY <2>1, <2>2, <2>3
<1> QED BY <1>1 DEF Places, Ends, Uploading, Downloading, Handles, Administrative

LEMMA AnswerStep ==
    ASSUME IndInv, NEW r \in Requests, NEW status \in Statuses, Answer(r, status),
           UNCHANGED gates
    PROVE  /\ pc' \in [Requests -> Places] /\ answer' \in [Requests -> Statuses \union {0}]
           /\ GatesExact' /\ uploads' \in Nat /\ downloads' \in Nat
           /\ pc'[r] = Ended(pc[r]) /\ answer'[r] = status /\ status # 0
           /\ \A q \in Requests \ {r} : pc'[q] = pc[q] /\ answer'[q] = answer[q]
<1>1. pc \in [Requests -> Places] /\ answer \in [Requests -> Statuses \union {0}]
      /\ uploads \in Nat /\ downloads \in Nat
      BY DEF IndInv, TypeOK
<1> DEFINE p == Ended(pc[r])
<1>2. /\ p \in Places
      /\ p \in Uploading <=> pc[r] \in Uploading
      /\ p \in Downloading <=> pc[r] \in Downloading
      BY <1>1, EndedIs
<1>3. pc' = [pc EXCEPT ![r] = p] /\ answer' = [answer EXCEPT ![r] = status]
      BY DEF Answer, Goto, Ended
<1>4. uploads' = uploads /\ downloads' = downloads BY DEF gates
<1> HIDE DEF p
<1>5. uploads <= UploadLimit /\ downloads <= DownloadLimit BY DEF IndInv, GatesExact
<1>6. /\ uploads' = uploads + (IF p \in Uploading THEN 1 ELSE 0)
                            - (IF pc[r] \in Uploading THEN 1 ELSE 0)
      /\ downloads' = downloads + (IF p \in Downloading THEN 1 ELSE 0)
                                - (IF pc[r] \in Downloading THEN 1 ELSE 0)
      BY <1>1, <1>2, <1>4
<1>7. GatesExact' BY <1>2, <1>3, <1>4, <1>5, <1>6, GatesKept
<1>8. pc' \in [Requests -> Places] /\ answer' \in [Requests -> Statuses \union {0}]
      BY <1>1, <1>2, <1>3
<1>9. pc'[r] = p /\ answer'[r] = status
      /\ \A q \in Requests \ {r} : pc'[q] = pc[q] /\ answer'[q] = answer[q]
      BY <1>1, <1>3
<1>10. status # 0 BY DEF Statuses
<1> QED BY <1>1, <1>4, <1>7, <1>8, <1>9, <1>10 DEF p

LEMMA RefuseInv ==
    ASSUME IndInv, NEW r \in Requests, NEW statuses \in SUBSET (Statuses \ {201, 204}),
           Refuse(r, statuses), pc[r] \notin {"idle", "staging"} \union Ends,
           200 \in statuses => req[r].op # "patch",
           200 \in statuses /\ req[r].op = "bulk" => pc[r] = "bulk" /\ todo[r] = {}
    PROVE  IndInv'
<1>1. PICK status \in statuses : Answer(r, status) BY DEF Refuse
<1>2. UNCHANGED <<req, gates, files, provider, shares, bulk>> BY DEF Refuse
<1>3. status \in Statuses /\ status # 201 /\ status # 204 BY <1>1
<1>4. /\ pc' \in [Requests -> Places] /\ answer' \in [Requests -> Statuses \union {0}]
      /\ GatesExact' /\ uploads' \in Nat /\ downloads' \in Nat
      /\ pc'[r] = Ended(pc[r]) /\ answer'[r] = status /\ status # 0
      /\ \A q \in Requests \ {r} : pc'[q] = pc[q] /\ answer'[q] = answer[q]
      BY <1>1, <1>2, <1>3, AnswerStep
<1>5. TypeOK' BY <1>2, <1>4 DEF IndInv, TypeOK, gates, files, provider, shares, bulk
<1>6. OneSuccess' BY <1>2 DEF IndInv, OneSuccess, provider
<1>7. Fine(r) BY IndInvParts
<1>8. pc[r] \in Places BY DEF IndInv, TypeOK
<1>9. /\ Ended(pc[r]) \in Ends
      /\ Ended(pc[r]) \in Uploading <=> pc[r] \in Uploading
      /\ Ended(pc[r]) \in Downloading <=> pc[r] \in Downloading
      /\ \A op : Handles(pc[r], op) => Handles(Ended(pc[r]), op)
      BY <1>8, EndedIs
<1>10. answer[r] = 0 BY <1>7 DEF Fine, Answered, Ends
<1>11. \A s : Gone(s) => Gone(s)'
  <2> SUFFICES ASSUME NEW s, Gone(s) PROVE Gone(s)' OBVIOUS
  <2>1. s \in Requests => answer'[s] # 0 BY <1>4 DEF Gone
  <2> QED BY <2>1, <1>2 DEF Gone, shares
<1>12. Apart(r)
  <2>1. \A s \in Shares : Gone(s) => kind'[s] = "none" /\ (s \in Requests => answer'[s] # 0)
    BY <1>11 DEF Gone
  <2> QED BY <1>2, <1>4, <2>1 DEF Apart, files, provider, shares, bulk
<1>13. Fine(r)'
  <2>1. Handles(pc[r], req[r].op)' BY <1>2, <1>4, <1>7, <1>9 DEF Fine
  <2>2. Cleared(r)' BY <1>2, <1>4, <1>7, <1>9 DEF Fine, Cleared, files, Downloading, Uploading, Ends
  <2>3. VerifiedFirst(r)'
    BY <1>2, <1>4, <1>7, <1>9 DEF Fine, VerifiedFirst, provider, shares, Ends, Admitted, Uploading
  <2>4. Answered(r)' BY <1>2, <1>4, <1>7, <1>9 DEF Fine, Answered, shares, Ends
  <2>5. Accounted(r)' BY <1>2, <1>4, <1>7, <1>9, <1>11 DEF Fine, Accounted, bulk, Ends
  <2>6. Truthful(r)'
    BY <1>1, <1>2, <1>3, <1>4, <1>7, <1>10 DEF Fine, Truthful, Answered, Handles, Administrative, shares
  <2> QED BY <2>1, <2>2, <2>3, <2>4, <2>5, <2>6 DEF Fine
<1> QED BY <1>4, <1>5, <1>6, <1>12, <1>13, Assembled

-------------------------------------------------------------------------------
\* A step to another place at the same gate, or at none.
LEMMA GotoStep ==
    ASSUME IndInv, NEW r \in Requests, NEW p \in Places, Goto(r, p), UNCHANGED gates,
           p \in Uploading <=> pc[r] \in Uploading,
           p \in Downloading <=> pc[r] \in Downloading
    PROVE  /\ pc' \in [Requests -> Places] /\ pc'[r] = p
           /\ GatesExact' /\ uploads' \in Nat /\ downloads' \in Nat
           /\ \A q \in Requests \ {r} : pc'[q] = pc[q]
<1>1. pc \in [Requests -> Places] /\ uploads \in Nat /\ downloads \in Nat
      BY DEF IndInv, TypeOK
<1>2. pc' = [pc EXCEPT ![r] = p] BY DEF Goto
<1>3. uploads' = uploads /\ downloads' = downloads BY DEF gates
<1>4. uploads <= UploadLimit /\ downloads <= DownloadLimit BY DEF IndInv, GatesExact
<1>5. /\ uploads' = uploads + (IF p \in Uploading THEN 1 ELSE 0)
                            - (IF pc[r] \in Uploading THEN 1 ELSE 0)
      /\ downloads' = downloads + (IF p \in Downloading THEN 1 ELSE 0)
                                - (IF pc[r] \in Downloading THEN 1 ELSE 0)
      BY <1>1, <1>3
<1>6. GatesExact' BY <1>2, <1>3, <1>4, <1>5, GatesKept
<1> QED BY <1>1, <1>2, <1>3, <1>6

LEMMA ProceedInv ==
    ASSUME IndInv, NEW r \in Requests,
           NEW p \in Places \ ({"idle", "staging", "bulk"} \union Ends), Proceed(r, p),
           pc[r] \notin {"idle", "staging", "sending", "bulk"} \union Ends,
           p \in Uploading <=> pc[r] \in Uploading,
           p \in Downloading <=> pc[r] \in Downloading,
           Handles(p, req[r].op),
           p \in {"limiter", "challenge"} => pc[r] \in {"limiter", "challenge"},
           Challenge /\ p \in Admitted => verdict[r] = "success"
    PROVE  IndInv'
<1>1. Goto(r, p) /\ UNCHANGED <<req, answer, gates, files, provider, shares, bulk>> BY DEF Proceed
<1>2. /\ pc' \in [Requests -> Places] /\ pc'[r] = p
      /\ GatesExact' /\ uploads' \in Nat /\ downloads' \in Nat
      /\ \A q \in Requests \ {r} : pc'[q] = pc[q]
      BY <1>1, GotoStep
<1>3. TypeOK' BY <1>1, <1>2 DEF IndInv, TypeOK, gates, files, provider, shares, bulk
<1>4. OneSuccess' BY <1>1 DEF IndInv, OneSuccess, provider
<1>5. Fine(r) BY IndInvParts
<1>6. Apart(r) BY <1>1, <1>2 DEF Apart, files, provider, shares, bulk, Gone
<1>7. Fine(r)'
  <2>1. Handles(pc[r], req[r].op)' BY <1>1, <1>2
  <2>2. Cleared(r)' BY <1>1, <1>2, <1>5 DEF Fine, Cleared, files, Ends
  <2>3. VerifiedFirst(r)' BY <1>1, <1>2, <1>5 DEF Fine, VerifiedFirst, provider, shares
  <2>4. Answered(r)' BY <1>1, <1>2, <1>5 DEF Fine, Answered, shares, Ends
  <2>5. Accounted(r)' BY <1>1, <1>2, <1>5 DEF Fine, Accounted, Answered, bulk, Ends
  <2>6. Truthful(r)' BY <1>1, <1>5 DEF Fine, Truthful, shares
  <2> QED BY <2>1, <2>2, <2>3, <2>4, <2>5, <2>6 DEF Fine
<1> QED BY <1>2, <1>3, <1>4, <1>6, <1>7, Assembled

-------------------------------------------------------------------------------
(***************************************************************************)
(* The steps that only answer or move on.                                  *)
(***************************************************************************)
\* What the invariant says that they need.
LEMMA Local ==
    ASSUME IndInv, NEW r \in Requests
    PROVE  /\ Fine(r) /\ Handles(pc[r], req[r].op) /\ VerifiedFirst(r)
           /\ pc[r] \in Places
           /\ req[r].op \in {"create", "read", "raw", "download", "patch", "delete"}
                               \union Administrative
BY IndInvParts DEF Fine, IndInv, TypeOK

LEMMA LimitInv ==
    ASSUME IndInv, NEW r \in Requests, Limit(r)
    PROVE  IndInv'
<1>1. /\ pc[r] = "limiter" /\ Handles(pc[r], req[r].op)
      /\ req[r].op \in {"create", "read", "raw", "download", "patch", "delete"} \union Administrative
      BY Local DEF Limit
<1>2. CASE Refuse(r, {429}) BY <1>1, <1>2, RefuseInv DEF Statuses, Ends
<1>3. CASE req[r].op = "create" /\ Proceed(r, "challenge")
  BY <1>1, <1>3, ProceedInv DEF Places, Ends, Uploading, Downloading, Handles, Administrative, Admitted
<1>4. CASE req[r].op = "download" /\ Proceed(r, "gate")
  BY <1>1, <1>4, ProceedInv DEF Places, Ends, Uploading, Downloading, Handles, Administrative, Admitted
<1>5. CASE req[r].op \notin {"create", "download"} /\ Proceed(r, "route")
  BY <1>1, <1>5, ProceedInv DEF Places, Ends, Uploading, Downloading, Handles, Administrative, Admitted
<1> QED BY <1>2, <1>3, <1>4, <1>5 DEF Limit

LEMMA VerifiedInv ==
    ASSUME IndInv, NEW r \in Requests, Verified(r) \/ VerifyFails(r)
    PROVE  IndInv'
<1>1. /\ pc[r] = "verifying" /\ Handles(pc[r], req[r].op) BY Local DEF Verified, VerifyFails
<1>2. req[r].op = "create" BY <1>1 DEF Handles
<1>3. CASE Refuse(r, {403}) BY <1>1, <1>2, <1>3, RefuseInv DEF Statuses, Ends
<1>4. CASE Refuse(r, {503}) BY <1>1, <1>2, <1>4, RefuseInv DEF Statuses, Ends
<1>5. CASE verdict[r] = "success" /\ Proceed(r, "format")
  BY <1>1, <1>2, <1>5, ProceedInv DEF Places, Ends, Uploading, Downloading, Handles, Administrative
<1> QED BY <1>3, <1>4, <1>5 DEF Verified, VerifyFails

LEMMA CreationInv ==
    ASSUME IndInv, NEW r \in Requests, CheckFormat(r) \/ ReadText(r)
    PROVE  IndInv'
<1>1. /\ pc[r] \in {"format", "text"} /\ Handles(pc[r], req[r].op) /\ VerifiedFirst(r)
      BY Local DEF CheckFormat, ReadText
<1>2. req[r].op = "create" BY <1>1 DEF Handles
<1>3. Challenge => verdict[r] = "success" BY <1>1 DEF VerifiedFirst, Admitted
<1>4. CASE Refuse(r, {400}) BY <1>1, <1>2, <1>4, RefuseInv DEF Statuses, Ends
<1>5. ASSUME NEW p \in {"text", "upload", "insert"}, Proceed(r, p) PROVE IndInv'
  BY <1>1, <1>2, <1>3, <1>5, ProceedInv
     DEF Places, Ends, Uploading, Downloading, Handles, Administrative
<1> QED BY <1>4, <1>5 DEF CheckFormat, ReadText

LEMMA PartsInv ==
    ASSUME IndInv, NEW r \in Requests, RefuseParts(r) \/ EndParts(r)
    PROVE  IndInv'
<1>1. /\ pc[r] = "parts" /\ Handles(pc[r], req[r].op) /\ VerifiedFirst(r)
      BY Local DEF RefuseParts, EndParts
<1>2. req[r].op = "create" BY <1>1 DEF Handles, Uploading
<1>3. Challenge => verdict[r] = "success" BY <1>1 DEF VerifiedFirst, Admitted, Uploading
<1>4. CASE Refuse(r, {400}) BY <1>1, <1>2, <1>4, RefuseInv DEF Statuses, Ends
<1>5. CASE Refuse(r, {400, 500}) BY <1>1, <1>2, <1>5, RefuseInv DEF Statuses, Ends
<1>6. CASE Proceed(r, "commit")
  BY <1>1, <1>2, <1>3, <1>6, ProceedInv
     DEF Places, Ends, Uploading, Downloading, Handles, Administrative
<1> QED BY <1>4, <1>5, <1>6 DEF RefuseParts, EndParts

LEMMA MissingInv ==
    ASSUME IndInv, NEW r \in Requests, Missing(r), pc[r] \notin {"idle", "staging"} \union Ends
    PROVE  IndInv'
<1>1. CASE Refuse(r, {410, 500}) BY <1>1, RefuseInv DEF Statuses
<1>2. CASE Refuse(r, {404, 500}) BY <1>2, RefuseInv DEF Statuses
<1> QED BY <1>1, <1>2 DEF Missing

LEMMA RouteInv ==
    ASSUME IndInv, NEW r \in Requests, Route(r)
    PROVE  IndInv'
<1>1. /\ pc[r] = "route" /\ Handles(pc[r], req[r].op) BY Local DEF Route
<1>2. req[r].op \in {"read", "raw", "patch", "delete"} BY <1>1 DEF Handles
<1>3. CASE Refuse(r, {404}) BY <1>1, <1>3, RefuseInv DEF Statuses, Ends
<1>4. CASE Refuse(r, {401}) BY <1>1, <1>4, RefuseInv DEF Statuses, Ends
<1>5. CASE req[r].op \in {"read", "raw"} /\ Proceed(r, "get")
  BY <1>1, <1>5, ProceedInv DEF Places, Ends, Uploading, Downloading, Handles, Administrative, Admitted
<1>6. CASE req[r].op = "patch" /\ Proceed(r, "authorize")
  BY <1>1, <1>6, ProceedInv DEF Places, Ends, Uploading, Downloading, Handles, Administrative, Admitted
<1>7. CASE req[r].op = "delete" /\ Proceed(r, "delete")
  BY <1>1, <1>7, ProceedInv DEF Places, Ends, Uploading, Downloading, Handles, Administrative, Admitted
<1> QED BY <1>2, <1>3, <1>4, <1>5, <1>6, <1>7 DEF Route

LEMMA GetShareInv ==
    ASSUME IndInv, NEW r \in Requests, GetShare(r)
    PROVE  IndInv'
<1>1. /\ pc[r] = "get" /\ Handles(pc[r], req[r].op) BY Local DEF GetShare
<1>2. req[r].op \in {"read", "raw"} BY <1>1 DEF Handles
<1>3. CASE Missing(r) BY <1>1, <1>3, MissingInv DEF Ends
<1>4. ASSUME NEW S \in {{200, 500}, {409, 500}, {404, 500}}, Refuse(r, S) PROVE IndInv'
  <2>1. S \in SUBSET (Statuses \ {201, 204}) BY DEF Statuses
  <2>2. pc[r] \notin {"idle", "staging"} \union Ends BY <1>1 DEF Ends
  <2> QED BY <1>2, <1>4, <2>1, <2>2, RefuseInv
<1> QED BY <1>3, <1>4 DEF GetShare

LEMMA SendFileInv ==
    ASSUME IndInv, NEW r \in Requests, SendFile(r)
    PROVE  IndInv'
<1>1. /\ pc[r] = "sending" /\ Handles(pc[r], req[r].op) BY Local DEF SendFile
<1>2. req[r].op = "download" BY <1>1 DEF Handles, Downloading
<1>3. Refuse(r, {200, 500}) BY DEF SendFile
<1> QED BY <1>1, <1>2, <1>3, RefuseInv DEF Statuses, Ends

LEMMA AuthorizeInv ==
    ASSUME IndInv, NEW r \in Requests, AuthorizeOwner(r) \/ ReadPatch(r)
    PROVE  IndInv'
<1>1. /\ pc[r] \in {"authorize", "patchBody"} /\ Handles(pc[r], req[r].op)
      BY Local DEF AuthorizeOwner, ReadPatch
<1>2. req[r].op = "patch" BY <1>1 DEF Handles
<1>3. CASE Missing(r) BY <1>1, <1>3, MissingInv DEF Ends
<1>4. ASSUME NEW S \in {{401, 500}, {500}, {400}}, Refuse(r, S) PROVE IndInv'
  <2>1. S \in SUBSET (Statuses \ {201, 204}) /\ 200 \notin S BY DEF Statuses
  <2>2. pc[r] \notin {"idle", "staging"} \union Ends BY <1>1 DEF Ends
  <2> QED BY <1>4, <2>1, <2>2, RefuseInv
<1>5. ASSUME NEW p \in {"patchBody", "update"}, Proceed(r, p) PROVE IndInv'
  BY <1>1, <1>2, <1>5, ProceedInv
     DEF Places, Ends, Uploading, Downloading, Handles, Administrative, Admitted
<1> QED BY <1>3, <1>4, <1>5 DEF AuthorizeOwner, ReadPatch

LEMMA EndBulkInv ==
    ASSUME IndInv, NEW r \in Requests, EndBulk(r)
    PROVE  IndInv'
<1>1. /\ pc[r] = "bulk" /\ Handles(pc[r], req[r].op) BY Local DEF EndBulk
<1>2. req[r].op = "bulk" BY <1>1 DEF Handles, Administrative
<1>3. Refuse(r, {200}) /\ todo[r] = {} BY DEF EndBulk
<1> QED BY <1>1, <1>2, <1>3, RefuseInv DEF Statuses, Ends

-------------------------------------------------------------------------------
(***************************************************************************)
(* The steps that answer and change Shares or staged files.                *)
(***************************************************************************)
LEMMA ChangeInv ==
    ASSUME IndInv, NEW r \in Requests, NEW status \in Statuses, Answer(r, status),
           UNCHANGED <<req, gates, opened, provider, bulk>>,
           pc[r] \notin {"idle", "bulk"} \union Ends, req[r].op # "bulk",
           parts' \in [Requests -> SUBSET {"metadata", "file"}],
           \A q \in Requests \ {r} : parts'[q] = parts[q],
           stage' \subseteq stage,
           r \in stage' => pc[r] # "staging" /\ parts'[r] = parts[r],
           kind' \in [Shares -> {"none", "text", "encrypted", "file"}],
           \A s \in Shares \ {r} : kind'[s] # "none" => kind[s] # "none",
           expired' \subseteq Shares, did' = did \/ did' = did \union {r},
           Challenge /\ did' # did /\ req[r].op = "create" => verdict[r] = "success",
           req[r].op # "cleanup" =>
              (did' # did <=> status \in {201, 204} \/ (status = 200 /\ req[r].op = "patch"))
    PROVE  IndInv'
<1>1. UNCHANGED gates /\ req' = req /\ verdict' = verdict /\ spent' = spent
      /\ todo' = todo /\ failed' = failed /\ opened' = opened
      BY DEF provider, bulk
<1>2. /\ pc' \in [Requests -> Places] /\ answer' \in [Requests -> Statuses \union {0}]
      /\ GatesExact' /\ uploads' \in Nat /\ downloads' \in Nat
      /\ pc'[r] = Ended(pc[r]) /\ answer'[r] = status /\ status # 0
      /\ \A q \in Requests \ {r} : pc'[q] = pc[q] /\ answer'[q] = answer[q]
      BY <1>1, AnswerStep
<1>3. TypeOK' BY <1>1, <1>2 DEF IndInv, TypeOK, gates
<1>4. OneSuccess' BY <1>1 DEF IndInv, OneSuccess
<1>5. Fine(r) BY IndInvParts
<1>6. pc[r] \in Places BY DEF IndInv, TypeOK
<1>7. /\ Ended(pc[r]) \in Ends
      /\ Ended(pc[r]) \in Uploading <=> pc[r] \in Uploading
      /\ Ended(pc[r]) \in Downloading <=> pc[r] \in Downloading
      /\ \A op : Handles(pc[r], op) => Handles(Ended(pc[r]), op)
      BY <1>6, EndedIs
<1>8. answer[r] = 0 /\ r \notin did BY <1>5 DEF Fine, Answered, Ends
<1>9. r \in did' <=> did' # did BY <1>8
<1>10. Apart(r)
  <2>1. \A s \in Shares : Gone(s) => kind'[s] = "none" /\ (s \in Requests => answer'[s] # 0)
    BY <1>2, <1>8 DEF Gone, Shares
  <2>2. \A q \in Requests \ {r} : /\ q \in did' <=> q \in did
                                  /\ kind'[q] # "none" => kind[q] # "none"
    BY DEF Shares
  <2> QED BY <1>1, <1>2, <2>1, <2>2 DEF Apart
<1>11. Fine(r)'
  <2>1. Handles(pc[r], req[r].op)' BY <1>1, <1>2, <1>5, <1>7 DEF Fine
  <2>2. Cleared(r)' BY <1>1, <1>2, <1>5, <1>7 DEF Fine, Cleared, Downloading, Uploading, Ends
  <2>3. VerifiedFirst(r)'
    BY <1>1, <1>2, <1>5, <1>7, <1>8, <1>9 DEF Fine, VerifiedFirst, Ends, Admitted, Uploading
  <2>4. Answered(r)' BY <1>2, <1>7 DEF Answered, Ends
  <2>5. Accounted(r)' BY <1>1, <1>2 DEF Accounted
  <2>6. Truthful(r)' BY <1>1, <1>2, <1>9 DEF Truthful
  <2> QED BY <2>1, <2>2, <2>3, <2>4, <2>5, <2>6 DEF Fine
<1> QED BY <1>2, <1>3, <1>4, <1>10, <1>11, Assembled

LEMMA Unchanging ==
    ASSUME IndInv, NEW r \in Requests, pc[r] \notin {"idle", "bulk"} \union Ends
    PROVE  /\ answer[r] = 0 /\ r \notin did /\ did \union {r} # did
           /\ parts \in [Requests -> SUBSET {"metadata", "file"}]
           /\ kind \in [Shares -> {"none", "text", "encrypted", "file"}]
           /\ stage \subseteq Requests /\ expired \subseteq Shares
<1>1. Fine(r) BY IndInvParts
<1>2. answer[r] = 0 /\ r \notin did BY <1>1 DEF Fine, Answered, Ends
<1> QED BY <1>2 DEF IndInv, TypeOK

LEMMA InsertTextInv ==
    ASSUME IndInv, NEW r \in Requests, InsertText(r)
    PROVE  IndInv'
<1>1. /\ pc[r] = "insert" /\ Handles(pc[r], req[r].op) /\ VerifiedFirst(r)
      BY Local DEF InsertText
<1>2. req[r].op = "create" BY <1>1 DEF Handles
<1>3. Challenge => verdict[r] = "success" BY <1>1 DEF VerifiedFirst, Admitted
<1>4. CASE Refuse(r, {400, 500}) BY <1>1, <1>2, <1>4, RefuseInv DEF Statuses, Ends
<1>5. CASE /\ \E k \in {"text", "encrypted"} : kind' = [kind EXCEPT ![r] = k]
           /\ did' = did \union {r}
           /\ Answer(r, 201)
           /\ UNCHANGED <<req, gates, files, provider, expired, bulk>>
  <2>1. pc[r] \notin {"idle", "bulk"} \union Ends /\ pc[r] # "staging" BY <1>1 DEF Ends
  <2>2. /\ did' # did
        /\ kind' \in [Shares -> {"none", "text", "encrypted", "file"}]
        /\ \A s \in Shares \ {r} : kind'[s] # "none" => kind[s] # "none"
        /\ expired' \subseteq Shares
    BY <1>5, <2>1, Unchanging
  <2>3. /\ parts' = parts /\ parts \in [Requests -> SUBSET {"metadata", "file"}]
        /\ stage' = stage /\ UNCHANGED opened
    BY <1>5, <2>1, Unchanging DEF files
  <2>4. 201 \in Statuses BY DEF Statuses
  <2> QED BY <1>2, <1>3, <1>5, <2>1, <2>2, <2>3, <2>4, ChangeInv
<1> QED BY <1>4, <1>5 DEF InsertText

LEMMA FailStageInv ==
    ASSUME IndInv, NEW r \in Requests, FailStage(r)
    PROVE  IndInv'
<1>1. /\ pc[r] = "staging" /\ Handles(pc[r], req[r].op) BY Local DEF FailStage
<1>2. req[r].op = "create" BY <1>1 DEF Handles, Uploading
<1>3. PICK status \in {400, 500} : Answer(r, status) BY DEF FailStage
<1>4. status \in Statuses /\ status \notin {200, 201, 204} BY <1>3 DEF Statuses
<1>5. pc[r] \notin {"idle", "bulk"} \union Ends BY <1>1 DEF Ends
<1>6. /\ stage' = stage \ {r} /\ parts' = parts /\ kind' = kind /\ did' = did /\ expired' = expired
      /\ UNCHANGED <<req, gates, opened, provider, bulk>>
      BY DEF FailStage, shares
<1>7. /\ parts \in [Requests -> SUBSET {"metadata", "file"}]
      /\ kind \in [Shares -> {"none", "text", "encrypted", "file"}] /\ expired \subseteq Shares
      BY <1>5, Unchanging
<1> QED BY <1>2, <1>3, <1>4, <1>5, <1>6, <1>7, ChangeInv

LEMMA CommitFileInv ==
    ASSUME IndInv, NEW r \in Requests, CommitFile(r)
    PROVE  IndInv'
<1>1. /\ pc[r] = "commit" /\ Handles(pc[r], req[r].op) /\ VerifiedFirst(r)
      BY Local DEF CommitFile
<1>2. req[r].op = "create" BY <1>1 DEF Handles, Uploading
<1>3. Challenge => verdict[r] = "success" BY <1>1 DEF VerifiedFirst, Admitted, Uploading
<1>4. pc[r] \notin {"idle", "bulk"} \union Ends BY <1>1 DEF Ends
<1>5. /\ did \union {r} # did
      /\ parts \in [Requests -> SUBSET {"metadata", "file"}]
      /\ kind \in [Shares -> {"none", "text", "encrypted", "file"}] /\ expired \subseteq Shares
      BY <1>4, Unchanging
<1>6. /\ stage' = stage \ {r} /\ parts' = [parts EXCEPT ![r] = @ \ {"file"}]
      /\ UNCHANGED <<req, gates, opened, provider, bulk>> /\ expired' = expired
      BY DEF CommitFile
<1>7. /\ parts' \in [Requests -> SUBSET {"metadata", "file"}]
      /\ \A q \in Requests \ {r} : parts'[q] = parts[q]
      BY <1>5, <1>6
<1>8. ASSUME NEW status \in {400, 500}, Answer(r, status), kind' = kind, did' = did
      PROVE  IndInv'
  <2>1. status \in Statuses /\ status \notin {200, 201, 204} BY <1>8 DEF Statuses
  <2> QED BY <1>2, <1>4, <1>5, <1>6, <1>7, <1>8, <2>1, ChangeInv
<1>9. CASE kind' = [kind EXCEPT ![r] = "file"] /\ did' = did \union {r} /\ Answer(r, 201)
  <2>1. /\ kind' \in [Shares -> {"none", "text", "encrypted", "file"}]
        /\ \A s \in Shares \ {r} : kind'[s] # "none" => kind[s] # "none"
    BY <1>5, <1>9
  <2>2. 201 \in Statuses BY DEF Statuses
  <2> QED BY <1>2, <1>3, <1>4, <1>5, <1>6, <1>7, <1>9, <2>1, <2>2, ChangeInv
<1> QED BY <1>8, <1>9 DEF CommitFile

LEMMA UpdateInv ==
    ASSUME IndInv, NEW r \in Requests, UpdateShare(r)
    PROVE  IndInv'
<1>1. /\ pc[r] = "update" /\ Handles(pc[r], req[r].op) BY Local DEF UpdateShare
<1>2. req[r].op = "patch" BY <1>1 DEF Handles
<1>3. CASE Missing(r) BY <1>1, <1>3, MissingInv DEF Ends
<1>4. ASSUME NEW S \in {{401, 500}, {400, 500}}, Refuse(r, S) PROVE IndInv'
  <2>1. S \in SUBSET (Statuses \ {201, 204}) /\ 200 \notin S BY DEF Statuses
  <2>2. pc[r] \notin {"idle", "staging"} \union Ends BY <1>1 DEF Ends
  <2> QED BY <1>4, <2>1, <2>2, RefuseInv
<1>5. CASE /\ did' = did \union {r}
           /\ Answer(r, 200)
           /\ UNCHANGED <<req, gates, files, provider, kind, expired, bulk>>
  <2>1. pc[r] \notin {"idle", "bulk"} \union Ends /\ pc[r] # "staging" BY <1>1 DEF Ends
  <2>2. /\ did' # did /\ expired' \subseteq Shares
        /\ kind' = kind /\ kind \in [Shares -> {"none", "text", "encrypted", "file"}]
    BY <1>5, <2>1, Unchanging
  <2>3. /\ parts' = parts /\ parts \in [Requests -> SUBSET {"metadata", "file"}]
        /\ stage' = stage /\ UNCHANGED opened
    BY <1>5, <2>1, Unchanging DEF files
  <2>4. 200 \in Statuses BY DEF Statuses
  <2> QED BY <1>2, <1>5, <2>1, <2>2, <2>3, <2>4, ChangeInv
<1> QED BY <1>3, <1>4, <1>5 DEF UpdateShare

\* A deletion by its owner or by the administrator.
LEMMA RemoveInv ==
    ASSUME IndInv, NEW r \in Requests, NEW s, pc[r] \in {"delete", "adminDelete"},
           Remove(r, s), Answer(r, 204), UNCHANGED <<req, gates, files, provider, bulk>>
    PROVE  IndInv'
<1>1. Handles(pc[r], req[r].op) BY Local
<1>2. req[r].op \in {"delete", "adminDelete"} BY <1>1 DEF Handles, Administrative
<1>3. pc[r] \notin {"idle", "bulk"} \union Ends /\ pc[r] # "staging" BY DEF Ends
<1>4. /\ did' # did /\ did' = did \union {r} /\ expired' \subseteq Shares
      /\ kind' \in [Shares -> {"none", "text", "encrypted", "file"}]
      /\ \A x \in Shares \ {r} : kind'[x] # "none" => kind[x] # "none"
      BY <1>3, Unchanging DEF Remove
<1>5. /\ parts' = parts /\ parts \in [Requests -> SUBSET {"metadata", "file"}]
      /\ stage' = stage /\ UNCHANGED opened
      BY <1>3, Unchanging DEF files
<1>6. 204 \in Statuses BY DEF Statuses
<1> QED BY <1>2, <1>3, <1>4, <1>5, <1>6, ChangeInv

LEMMA DeleteInv ==
    ASSUME IndInv, NEW r \in Requests, DeleteShare(r) \/ AdminDelete(r)
    PROVE  IndInv'
<1>1. /\ pc[r] \in {"delete", "adminDelete"} /\ Handles(pc[r], req[r].op)
      BY Local DEF DeleteShare, AdminDelete
<1>2. req[r].op \in {"delete", "adminDelete"} BY <1>1 DEF Handles, Administrative
<1>3. CASE Missing(r) BY <1>1, <1>3, MissingInv DEF Ends
<1>4. ASSUME NEW S \in {{401, 500}, {404, 500}, {500}}, Refuse(r, S) PROVE IndInv'
  <2>1. S \in SUBSET (Statuses \ {201, 204}) /\ 200 \notin S BY DEF Statuses
  <2>2. pc[r] \notin {"idle", "staging"} \union Ends BY <1>1 DEF Ends
  <2> QED BY <1>4, <2>1, <2>2, RefuseInv
<1>5. CASE /\ Remove(r, The(r)) /\ Answer(r, 204)
           /\ UNCHANGED <<req, gates, files, provider, bulk>>
  BY <1>1, <1>5, RemoveInv
<1> QED BY <1>3, <1>4, <1>5 DEF DeleteShare, AdminDelete

LEMMA CleanupInv ==
    ASSUME IndInv, NEW r \in Requests, Cleanup(r)
    PROVE  IndInv'
<1>1. /\ pc[r] = "cleanup" /\ Handles(pc[r], req[r].op) BY Local DEF Cleanup
<1>2. req[r].op = "cleanup" BY <1>1 DEF Handles, Administrative
<1>3. PICK status \in {200, 500} : Answer(r, status) BY DEF Cleanup
<1>4. status \in Statuses BY DEF Statuses
<1>5. pc[r] \notin {"idle", "bulk"} \union Ends /\ pc[r] # "staging" BY <1>1 DEF Ends
<1>6. PICK gone \in SUBSET expired :
         /\ kind' = [s \in Shares |-> IF s \in gone THEN "none" ELSE kind[s]]
         /\ expired' = expired \ gone
         /\ did' = IF gone = {} THEN did ELSE did \union {r}
      BY DEF Cleanup
<1>7. /\ did' = did \/ did' = did \union {r}
      /\ expired' \subseteq Shares
      /\ kind' \in [Shares -> {"none", "text", "encrypted", "file"}]
      /\ \A x \in Shares \ {r} : kind'[x] # "none" => kind[x] # "none"
      BY <1>5, <1>6, Unchanging
<1>8. /\ parts' = parts /\ parts \in [Requests -> SUBSET {"metadata", "file"}]
      /\ stage' = stage /\ UNCHANGED <<req, gates, opened, provider, bulk>>
      BY <1>5, Unchanging DEF Cleanup, files
<1> QED BY <1>2, <1>3, <1>4, <1>5, <1>7, <1>8, ChangeInv

-------------------------------------------------------------------------------
(***************************************************************************)
(* The steps that neither answer nor change a Share.                       *)
(***************************************************************************)
LEMMA QuietInv ==
    ASSUME IndInv, NEW r \in Requests, TypeOK', GatesExact', OneSuccess', Fine(r)',
           UNCHANGED <<answer, shares>>,
           \A q \in Requests \ {r} :
              /\ pc'[q] = pc[q] /\ req'[q] = req[q] /\ parts'[q] = parts[q]
              /\ verdict'[q] = verdict[q] /\ todo'[q] = todo[q] /\ failed'[q] = failed[q],
           stage' \subseteq stage \union {r}, opened' \subseteq opened \union {r},
           spent \subseteq spent'
    PROVE  IndInv'
<1>1. Apart(r) BY DEF Apart, shares, Gone
<1> QED BY <1>1, Assembled

LEMMA SendableType ==
    ASSUME NEW r \in Requests, NEW q \in Sendable(r)
    PROVE  q \in [op : {"create", "read", "raw", "download", "patch", "delete"} \union Administrative,
                  token : Tokens \union {None}, ids : Seq(Shares \union {None}),
                  owner : Shares \union {None}]
<1> DEFINE known == (Shares \ {r}) \union {None}
<1>1. /\ <<>> \in Seq(Shares \union {None})
      /\ [1..1 -> known] \subseteq Seq(Shares \union {None})
      /\ [1..2 -> known] \subseteq Seq(Shares \union {None})
  <2>1. <<>> \in Seq(Shares \union {None}) OBVIOUS
  <2>2. ASSUME NEW n \in Nat, NEW f \in [1..n -> known] PROVE f \in Seq(Shares \union {None})
    <3>1. f \in [1..n -> Shares \union {None}] OBVIOUS
    <3> QED BY <3>1
  <2> QED BY <2>1, <2>2
<1>2. known \subseteq Shares \union {None} OBVIOUS
<1> HIDE DEF known
<1> DEFINE one == [1..1 -> known]
           two == [1..2 -> known]
           all == Seq(Shares \union {None})
<1>3. one \subseteq all /\ two \subseteq all /\ <<>> \in all BY <1>1
<1>4. \/ q \in Asks({"create"}, Tokens \union {None}, {<<>>}, {None})
      \/ q \in Asks({"read", "raw", "download", "adminDelete"}, {None}, one, {None})
      \/ q \in Asks({"patch", "delete"}, {None}, one, known)
      \/ q \in Asks({"bulk"}, {None}, one \union two, {None})
      \/ q \in Asks({"cleanup"}, {None}, {<<>>}, {None})
      BY DEF Sendable, known
<1> HIDE DEF one, two, all
<1>5. q \in [op : {"create", "read", "raw", "download", "patch", "delete"} \union Administrative,
             token : Tokens \union {None}, ids : all, owner : Shares \union {None}]
      BY <1>2, <1>3, <1>4 DEF Asks, Administrative
<1> QED BY <1>5 DEF all

LEMMA ArriveInv ==
    ASSUME IndInv, NEW r \in Requests, NEW q \in Sendable(r), Arrive(r, q)
    PROVE  IndInv'
<1>1. pc[r] = "idle" /\ Fine(r) BY Local DEF Arrive
<1>2. q \in [op : {"create", "read", "raw", "download", "patch", "delete"} \union Administrative,
             token : Tokens \union {None}, ids : Seq(Shares \union {None}),
             owner : Shares \union {None}]
      BY SendableType
<1> DEFINE p == IF q.op \in Administrative THEN "session" ELSE "limiter"
<1>3. /\ req' = [req EXCEPT ![r] = q] /\ Goto(r, p)
      /\ UNCHANGED <<answer, gates, files, provider, shares, bulk>>
      BY DEF Arrive
<1>4. /\ p \in Places /\ p \in {"session", "limiter"}
      /\ p \in Uploading <=> pc[r] \in Uploading
      /\ p \in Downloading <=> pc[r] \in Downloading
      BY <1>1 DEF Places, Uploading, Downloading
<1>5. Handles(p, q.op)
  <2>1. CASE q.op \in Administrative BY <2>1 DEF Handles, Uploading, Downloading, Administrative
  <2>2. CASE q.op \notin Administrative BY <2>2 DEF Handles, Uploading, Downloading, Administrative
  <2> QED BY <2>1, <2>2
<1> HIDE DEF p
<1>6. /\ pc' \in [Requests -> Places] /\ pc'[r] = p
      /\ GatesExact' /\ uploads' \in Nat /\ downloads' \in Nat
      /\ \A x \in Requests \ {r} : pc'[x] = pc[x]
      BY <1>3, <1>4, GotoStep
<1>7. /\ req'[r] = q /\ \A x \in Requests \ {r} : req'[x] = req[x]
      BY <1>3 DEF IndInv, TypeOK
<1>8. TypeOK'
  <2>1. req' \in [Requests -> [op : {"create", "read", "raw", "download", "patch", "delete"}
                                       \union Administrative,
                               token : Tokens \union {None}, ids : Seq(Shares \union {None}),
                               owner : Shares \union {None}]]
    BY <1>2, <1>3 DEF IndInv, TypeOK
  <2> QED BY <1>3, <1>6, <2>1 DEF IndInv, TypeOK, files, provider, shares, bulk
<1>9. verdict[r] = "none" BY <1>1 DEF Fine, VerifiedFirst
<1>10. answer[r] = 0 /\ r \notin did /\ kind[r] = "none" BY <1>1 DEF Fine, Answered, Ends
<1>11. OneSuccess' BY <1>3, <1>7, <1>9 DEF IndInv, OneSuccess, provider
<1>12. Fine(r)'
  <2>1. Handles(pc[r], req[r].op)' BY <1>5, <1>6, <1>7
  <2>2. Cleared(r)' BY <1>1, <1>3 DEF Fine, Cleared, files, Uploading
  <2>3. VerifiedFirst(r)' BY <1>3, <1>4, <1>6, <1>9, <1>10 DEF VerifiedFirst, provider, shares, Admitted, Uploading
  <2>4. Answered(r)' BY <1>3, <1>4, <1>6, <1>10 DEF Answered, shares
  <2>5. Accounted(r)' BY <1>3, <1>4, <1>6, <1>10 DEF Accounted
  <2>6. Truthful(r)' BY <1>3, <1>10 DEF Truthful
  <2> QED BY <2>1, <2>2, <2>3, <2>4, <2>5, <2>6 DEF Fine
<1> QED BY <1>3, <1>6, <1>7, <1>8, <1>11, <1>12, QuietInv DEF files, provider, bulk

LEMMA RequireChallengeInv ==
    ASSUME IndInv, NEW r \in Requests, RequireChallenge(r)
    PROVE  IndInv'
<1>1. pc[r] = "challenge" /\ Fine(r) /\ Handles(pc[r], req[r].op) BY Local DEF RequireChallenge
<1>2. req[r].op = "create" BY <1>1 DEF Handles
<1>3. CASE Refuse(r, {403}) BY <1>1, <1>2, <1>3, RefuseInv DEF Statuses, Ends
<1>4. CASE ~Challenge /\ Proceed(r, "format")
  BY <1>1, <1>2, <1>4, ProceedInv DEF Places, Ends, Uploading, Downloading, Handles, Administrative
<1>5. CASE /\ req[r].token # None
           /\ verdict' = [verdict EXCEPT ![r] = "asked"]
           /\ Goto(r, "verifying")
           /\ UNCHANGED <<req, answer, gates, files, spent, shares, bulk>>
  <2>1. /\ "verifying" \in Places /\ "verifying" \notin Uploading \union Downloading
        /\ pc[r] \notin Uploading \union Downloading
    BY <1>1 DEF Places, Uploading, Downloading
  <2>2. /\ pc' \in [Requests -> Places] /\ pc'[r] = "verifying"
        /\ GatesExact' /\ uploads' \in Nat /\ downloads' \in Nat
        /\ \A q \in Requests \ {r} : pc'[q] = pc[q]
    BY <1>5, <2>1, GotoStep
  <2>3. /\ verdict' \in [Requests -> {"none", "asked", "success", "failure", "foreign"}]
        /\ verdict'[r] = "asked" /\ \A q \in Requests \ {r} : verdict'[q] = verdict[q]
    BY <1>5 DEF IndInv, TypeOK
  <2>4. req[r].token \in Tokens BY <1>5 DEF IndInv, TypeOK
  <2>5. TypeOK' BY <1>5, <2>2, <2>3 DEF IndInv, TypeOK, files, shares, bulk
  <2>6. answer[r] = 0 /\ r \notin did /\ kind[r] = "none" BY <1>1 DEF Fine, Answered, Ends
  <2>7. OneSuccess' BY <1>5, <2>3 DEF IndInv, OneSuccess
  <2>8. Fine(r)'
    <3>1. Handles(pc[r], req[r].op)'
      BY <1>2, <1>5, <2>2 DEF Handles, Uploading, Downloading, Administrative
    <3>2. Cleared(r)' BY <1>1, <1>5 DEF Fine, Cleared, files, Uploading
    <3>3. VerifiedFirst(r)' BY <1>5, <2>2, <2>3, <2>4, <2>6 DEF VerifiedFirst, shares, Admitted, Uploading
    <3>4. Answered(r)' BY <1>5, <2>2, <2>6 DEF Answered, shares
    <3>5. Accounted(r)' BY <1>2, <1>5 DEF Accounted
    <3>6. Truthful(r)' BY <1>5, <2>6 DEF Truthful
    <3> QED BY <3>1, <3>2, <3>3, <3>4, <3>5, <3>6 DEF Fine
  <2> QED BY <1>5, <2>2, <2>3, <2>5, <2>7, <2>8, QuietInv DEF files, bulk
<1> QED BY <1>3, <1>4, <1>5 DEF RequireChallenge

LEMMA RedeemInv ==
    ASSUME IndInv, NEW r \in Requests, Redeem(r)
    PROVE  IndInv'
<1>1. verdict[r] = "asked" /\ Fine(r) BY Local DEF Redeem
<1>2. UNCHANGED <<pc, req, answer, gates, files, shares, bulk>> BY DEF Redeem
<1>3. /\ verdict' \in [Requests -> {"none", "asked", "success", "failure", "foreign"}]
      /\ verdict'[r] \in {"success", "failure", "foreign"}
      /\ verdict'[r] = "success" => req[r].token \notin spent \union Foreign
      /\ \A q \in Requests \ {r} : verdict'[q] = verdict[q]
      BY DEF Redeem, IndInv, TypeOK
<1>4. req[r].token \in Tokens BY <1>1 DEF Fine, VerifiedFirst
<1>5. spent' = spent \union {req[r].token} BY DEF Redeem
<1>6. TypeOK' BY <1>2, <1>3, <1>4, <1>5 DEF IndInv, TypeOK, gates, files, shares, bulk
<1>7. GatesExact' BY <1>2 DEF IndInv, GatesExact, gates
<1>8. OneSuccess'
  <2> SUFFICES ASSUME NEW x \in Requests, NEW y \in Requests,
                      verdict'[x] = "success", verdict'[y] = "success",
                      req'[x].token = req'[y].token
               PROVE  x = y
    BY DEF OneSuccess
  <2>1. \A q \in Requests \ {r} : verdict'[q] = "success" => req[q].token \in spent
    <3> SUFFICES ASSUME NEW q \in Requests \ {r}, verdict'[q] = "success" PROVE req[q].token \in spent
      OBVIOUS
    <3>1. VerifiedFirst(q) /\ verdict[q] = "success" BY <1>3, Local
    <3> QED BY <3>1 DEF VerifiedFirst
  <2>2. CASE x = r BY <1>2, <1>3, <2>1, <2>2
  <2>3. CASE y = r BY <1>2, <1>3, <2>1, <2>3
  <2>4. CASE x # r /\ y # r BY <1>2, <1>3, <2>4 DEF IndInv, OneSuccess
  <2> QED BY <2>2, <2>3, <2>4
<1>9. Fine(r)'
  <2>1. Handles(pc[r], req[r].op)' BY <1>1, <1>2 DEF Fine
  <2>2. Cleared(r)' BY <1>1, <1>2 DEF Fine, Cleared, files
  <2>3. VerifiedFirst(r)' BY <1>1, <1>2, <1>3, <1>4, <1>5 DEF Fine, VerifiedFirst, shares
  <2>4. Answered(r)' BY <1>1, <1>2 DEF Fine, Answered, shares
  <2>5. Accounted(r)' BY <1>1, <1>2 DEF Fine, Accounted, Gone, shares, bulk
  <2>6. Truthful(r)' BY <1>1, <1>2 DEF Fine, Truthful, shares
  <2> QED BY <2>1, <2>2, <2>3, <2>4, <2>5, <2>6 DEF Fine
<1> QED BY <1>2, <1>3, <1>5, <1>6, <1>7, <1>8, <1>9, QuietInv DEF files, bulk

\* A step into a gate or out of one, when it may be taken.
LEMMA TryUploadInv ==
    ASSUME IndInv, NEW r \in Requests, TryUpload(r)
    PROVE  IndInv'
<1>1. pc[r] = "upload" /\ Fine(r) /\ Handles(pc[r], req[r].op) BY Local DEF TryUpload
<1>2. req[r].op = "create" BY <1>1 DEF Handles
<1>3. CASE Refuse(r, {429}) BY <1>1, <1>2, <1>3, RefuseInv DEF Statuses, Ends
<1>4. CASE /\ uploads < UploadLimit
           /\ uploads' = uploads + 1
           /\ Goto(r, "parts")
           /\ UNCHANGED <<req, answer, downloads, files, provider, shares, bulk>>
  <2>1. /\ uploads \in Nat /\ downloads \in Nat /\ pc \in [Requests -> Places]
        /\ downloads <= DownloadLimit
    BY DEF IndInv, TypeOK, GatesExact
  <2>2. /\ "parts" \in Places /\ "parts" \in Uploading /\ "parts" \notin Downloading
        /\ pc[r] \notin Uploading /\ pc[r] \notin Downloading
    BY <1>1 DEF Places, Uploading, Downloading
  <2>3. pc' = [pc EXCEPT ![r] = "parts"] BY <1>4 DEF Goto
  <2>4. /\ uploads' = uploads + (IF "parts" \in Uploading THEN 1 ELSE 0)
                              - (IF pc[r] \in Uploading THEN 1 ELSE 0)
        /\ downloads' = downloads + (IF "parts" \in Downloading THEN 1 ELSE 0)
                                  - (IF pc[r] \in Downloading THEN 1 ELSE 0)
        /\ uploads' <= UploadLimit /\ downloads' <= DownloadLimit
    BY <1>4, <2>1, <2>2
  <2>5. GatesExact' /\ uploads' \in Nat /\ downloads' \in Nat
    BY <2>2, <2>3, <2>4, GatesKept
  <2>6. /\ pc' \in [Requests -> Places] /\ pc'[r] = "parts"
        /\ \A q \in Requests \ {r} : pc'[q] = pc[q]
    BY <2>1, <2>2, <2>3
  <2>7. TypeOK' BY <1>4, <2>5, <2>6 DEF IndInv, TypeOK, files, provider, shares, bulk
  <2>8. OneSuccess' BY <1>4 DEF IndInv, OneSuccess, provider
  <2>9. Fine(r)'
    <3>1. Handles(pc[r], req[r].op)'
      BY <1>2, <1>4, <2>6 DEF Handles, Uploading, Downloading, Administrative
    <3>2. Cleared(r)' BY <1>1, <1>4 DEF Fine, Cleared, files, Uploading
    <3>3. VerifiedFirst(r)'
      BY <1>1, <1>4, <2>6 DEF Fine, VerifiedFirst, provider, shares, Admitted, Uploading
    <3>4. Answered(r)' BY <1>1, <1>4, <2>6 DEF Fine, Answered, shares
    <3>5. Accounted(r)' BY <1>2, <1>4 DEF Accounted
    <3>6. Truthful(r)' BY <1>1, <1>4 DEF Fine, Truthful, shares
    <3> QED BY <3>1, <3>2, <3>3, <3>4, <3>5, <3>6 DEF Fine
  <2> QED BY <1>4, <2>5, <2>6, <2>7, <2>8, <2>9, QuietInv DEF files, provider, bulk
<1> QED BY <1>3, <1>4 DEF TryUpload

LEMMA TryDownloadInv ==
    ASSUME IndInv, NEW r \in Requests, TryDownload(r)
    PROVE  IndInv'
<1>1. pc[r] = "gate" /\ Fine(r) /\ Handles(pc[r], req[r].op) BY Local DEF TryDownload
<1>2. req[r].op = "download" BY <1>1 DEF Handles
<1>3. CASE Refuse(r, {429}) BY <1>1, <1>2, <1>3, RefuseInv DEF Statuses, Ends
<1>4. CASE /\ downloads < DownloadLimit
           /\ downloads' = downloads + 1
           /\ Goto(r, "open")
           /\ UNCHANGED <<req, answer, uploads, files, provider, shares, bulk>>
  <2>1. /\ uploads \in Nat /\ downloads \in Nat /\ pc \in [Requests -> Places]
        /\ uploads <= UploadLimit
    BY DEF IndInv, TypeOK, GatesExact
  <2>2. /\ "open" \in Places /\ "open" \notin Uploading /\ "open" \in Downloading
        /\ pc[r] \notin Uploading /\ pc[r] \notin Downloading
    BY <1>1 DEF Places, Uploading, Downloading
  <2>3. pc' = [pc EXCEPT ![r] = "open"] BY <1>4 DEF Goto
  <2>4. /\ uploads' = uploads + (IF "open" \in Uploading THEN 1 ELSE 0)
                              - (IF pc[r] \in Uploading THEN 1 ELSE 0)
        /\ downloads' = downloads + (IF "open" \in Downloading THEN 1 ELSE 0)
                                  - (IF pc[r] \in Downloading THEN 1 ELSE 0)
        /\ uploads' <= UploadLimit /\ downloads' <= DownloadLimit
    BY <1>4, <2>1, <2>2
  <2>5. GatesExact' /\ uploads' \in Nat /\ downloads' \in Nat
    BY <2>2, <2>3, <2>4, GatesKept
  <2>6. /\ pc' \in [Requests -> Places] /\ pc'[r] = "open"
        /\ \A q \in Requests \ {r} : pc'[q] = pc[q]
    BY <2>1, <2>2, <2>3
  <2>7. TypeOK' BY <1>4, <2>5, <2>6 DEF IndInv, TypeOK, files, provider, shares, bulk
  <2>8. OneSuccess' BY <1>4 DEF IndInv, OneSuccess, provider
  <2>9. Fine(r)'
    <3>1. Handles(pc[r], req[r].op)'
      BY <1>2, <1>4, <2>6 DEF Handles, Uploading, Downloading, Administrative
    <3>2. Cleared(r)' BY <1>1, <1>4 DEF Fine, Cleared, files, Uploading
    <3>3. VerifiedFirst(r)'
      BY <1>1, <1>4, <2>6 DEF Fine, VerifiedFirst, provider, shares, Admitted, Uploading
    <3>4. Answered(r)' BY <1>1, <1>4, <2>6 DEF Fine, Answered, shares
    <3>5. Accounted(r)' BY <1>2, <1>4 DEF Accounted
    <3>6. Truthful(r)' BY <1>1, <1>4 DEF Fine, Truthful, shares
    <3> QED BY <3>1, <3>2, <3>3, <3>4, <3>5, <3>6 DEF Fine
  <2> QED BY <1>4, <2>5, <2>6, <2>7, <2>8, <2>9, QuietInv DEF files, provider, bulk
<1> QED BY <1>3, <1>4 DEF TryDownload

LEMMA LeaveUploadInv ==
    ASSUME IndInv, NEW r \in Requests, LeaveUpload(r)
    PROVE  IndInv'
<1>1. pc[r] = "leaveUpload" /\ Fine(r) BY Local DEF LeaveUpload
<1>2. /\ uploads \in Nat /\ downloads \in Nat /\ pc \in [Requests -> Places]
      /\ uploads <= UploadLimit /\ downloads <= DownloadLimit
      BY DEF IndInv, TypeOK, GatesExact
<1>3. /\ "done" \in Places /\ "done" \notin Uploading \union Downloading
      /\ pc[r] \in Uploading /\ pc[r] \notin Downloading
      BY <1>1 DEF Places, Uploading, Downloading
<1>4. /\ stage' = IF "file" \in parts[r] THEN stage \ {r} ELSE stage
      /\ uploads' = uploads - 1 /\ pc' = [pc EXCEPT ![r] = "done"]
      /\ UNCHANGED <<req, answer, downloads, parts, opened, provider, shares, bulk>>
      BY DEF LeaveUpload, Goto
<1>5. /\ uploads' = uploads + (IF "done" \in Uploading THEN 1 ELSE 0)
                            - (IF pc[r] \in Uploading THEN 1 ELSE 0)
      /\ downloads' = downloads + (IF "done" \in Downloading THEN 1 ELSE 0)
                                - (IF pc[r] \in Downloading THEN 1 ELSE 0)
      /\ uploads' <= UploadLimit /\ downloads' <= DownloadLimit
      BY <1>2, <1>3, <1>4
<1>6. GatesExact' /\ uploads' \in Nat /\ downloads' \in Nat
      BY <1>3, <1>4, <1>5, GatesKept
<1>7. /\ pc' \in [Requests -> Places] /\ pc'[r] = "done"
      /\ \A q \in Requests \ {r} : pc'[q] = pc[q]
      BY <1>2, <1>3, <1>4
<1>8. r \notin stage' BY <1>1, <1>4 DEF Fine, Cleared
<1>9. TypeOK' BY <1>4, <1>6, <1>7 DEF IndInv, TypeOK, provider, shares, bulk
<1>10. OneSuccess' BY <1>4 DEF IndInv, OneSuccess, provider
<1>11. Fine(r)'
  <2>1. Handles(pc[r], req[r].op)' BY <1>7 DEF Handles, Uploading, Downloading, Administrative
  <2>2. Cleared(r)' BY <1>1, <1>4, <1>8 DEF Fine, Cleared
  <2>3. VerifiedFirst(r)' BY <1>1, <1>4, <1>7 DEF Fine, VerifiedFirst, provider, shares, Admitted, Uploading
  <2>4. Answered(r)' BY <1>1, <1>4, <1>7 DEF Fine, Answered, shares
  <2>5. Accounted(r)' BY <1>1, <1>4, <1>7 DEF Fine, Handles, Uploading, Accounted
  <2>6. Truthful(r)' BY <1>1, <1>4 DEF Fine, Truthful, shares
  <2> QED BY <2>1, <2>2, <2>3, <2>4, <2>5, <2>6 DEF Fine
<1> QED BY <1>4, <1>6, <1>7, <1>9, <1>10, <1>11, QuietInv DEF provider, bulk

LEMMA LeaveDownloadInv ==
    ASSUME IndInv, NEW r \in Requests, LeaveDownload(r)
    PROVE  IndInv'
<1>1. pc[r] = "leaveDownload" /\ Fine(r) BY Local DEF LeaveDownload
<1>2. /\ uploads \in Nat /\ downloads \in Nat /\ pc \in [Requests -> Places]
      /\ uploads <= UploadLimit /\ downloads <= DownloadLimit
      BY DEF IndInv, TypeOK, GatesExact
<1>3. /\ "done" \in Places /\ "done" \notin Uploading \union Downloading
      /\ pc[r] \notin Uploading /\ pc[r] \in Downloading
      BY <1>1 DEF Places, Uploading, Downloading
<1>4. /\ opened' = opened \ {r}
      /\ downloads' = downloads - 1 /\ pc' = [pc EXCEPT ![r] = "done"]
      /\ UNCHANGED <<req, answer, uploads, parts, stage, provider, shares, bulk>>
      BY DEF LeaveDownload, Goto
<1>5. /\ uploads' = uploads + (IF "done" \in Uploading THEN 1 ELSE 0)
                            - (IF pc[r] \in Uploading THEN 1 ELSE 0)
      /\ downloads' = downloads + (IF "done" \in Downloading THEN 1 ELSE 0)
                                - (IF pc[r] \in Downloading THEN 1 ELSE 0)
      /\ uploads' <= UploadLimit /\ downloads' <= DownloadLimit
      BY <1>2, <1>3, <1>4
<1>6. GatesExact' /\ uploads' \in Nat /\ downloads' \in Nat
      BY <1>3, <1>4, <1>5, GatesKept
<1>7. /\ pc' \in [Requests -> Places] /\ pc'[r] = "done"
      /\ \A q \in Requests \ {r} : pc'[q] = pc[q]
      BY <1>2, <1>3, <1>4
<1>8. r \notin stage BY <1>1 DEF Fine, Cleared, Uploading
<1>9. TypeOK' BY <1>4, <1>6, <1>7 DEF IndInv, TypeOK, provider, shares, bulk
<1>10. OneSuccess' BY <1>4 DEF IndInv, OneSuccess, provider
<1>11. Fine(r)'
  <2>1. Handles(pc[r], req[r].op)' BY <1>7 DEF Handles, Uploading, Downloading, Administrative
  <2>2. Cleared(r)' BY <1>4, <1>8 DEF Cleared
  <2>3. VerifiedFirst(r)' BY <1>1, <1>4, <1>7 DEF Fine, VerifiedFirst, provider, shares, Admitted, Uploading
  <2>4. Answered(r)' BY <1>1, <1>4, <1>7 DEF Fine, Answered, shares
  <2>5. Accounted(r)' BY <1>1, <1>4, <1>7 DEF Fine, Handles, Downloading, Accounted
  <2>6. Truthful(r)' BY <1>1, <1>4 DEF Fine, Truthful, shares
  <2> QED BY <2>1, <2>2, <2>3, <2>4, <2>5, <2>6 DEF Fine
<1> QED BY <1>4, <1>6, <1>7, <1>9, <1>10, <1>11, QuietInv DEF provider, bulk

\* An upload that reads a part.
LEMMA UploadStepInv ==
    ASSUME IndInv, NEW r \in Requests, ReadMetadata(r) \/ StageFile(r) \/ FinishStage(r)
    PROVE  IndInv'
<1> DEFINE p == IF StageFile(r) THEN "staging" ELSE "parts"
<1>1. /\ pc[r] \in {"parts", "staging"} /\ Fine(r) BY Local DEF ReadMetadata, StageFile, FinishStage
<1>2. pc \in [Requests -> Places] BY DEF IndInv, TypeOK
<1>3. /\ p \in {"parts", "staging"} /\ p \in Places
      /\ p \in Uploading <=> pc[r] \in Uploading
      /\ p \in Downloading <=> pc[r] \in Downloading
      BY <1>1 DEF Places, Uploading, Downloading
<1>4. Goto(r, p) BY <1>2 DEF ReadMetadata, StageFile, FinishStage, Goto
<1>5. UNCHANGED <<req, answer, gates, opened, provider, shares, bulk>>
      BY DEF ReadMetadata, StageFile, FinishStage
<1>6. /\ parts' \in [Requests -> SUBSET {"metadata", "file"}]
      /\ parts[r] \subseteq parts'[r] /\ \A q \in Requests \ {r} : parts'[q] = parts[q]
      /\ stage' \subseteq stage \union {r}
  <2>1. parts \in [Requests -> SUBSET {"metadata", "file"}] BY DEF IndInv, TypeOK
  <2>2. CASE ReadMetadata(r) BY <2>1, <2>2 DEF ReadMetadata
  <2>3. CASE StageFile(r) BY <2>1, <2>3 DEF StageFile
  <2>4. CASE FinishStage(r) BY <2>1, <2>4 DEF FinishStage
  <2> QED BY <2>2, <2>3, <2>4
<1>7. r \in stage' => p = "staging" \/ "file" \in parts'[r]
  <2>1. CASE ReadMetadata(r) BY <1>1, <1>6, <2>1 DEF Fine, Cleared, ReadMetadata
  <2>2. CASE StageFile(r) BY <2>2
  <2>3. CASE FinishStage(r) BY <2>3 DEF FinishStage, IndInv, TypeOK
  <2> QED BY <2>1, <2>2, <2>3
<1> HIDE DEF p
<1>8. /\ pc' \in [Requests -> Places] /\ pc'[r] = p
      /\ GatesExact' /\ uploads' \in Nat /\ downloads' \in Nat
      /\ \A x \in Requests \ {r} : pc'[x] = pc[x]
      BY <1>3, <1>4, <1>5, GotoStep
<1>9. TypeOK' BY <1>5, <1>6, <1>8 DEF IndInv, TypeOK, provider, shares, bulk
<1>10. OneSuccess' BY <1>5 DEF IndInv, OneSuccess, provider
<1>11. Fine(r)'
  <2>1. Handles(pc[r], req[r].op)'
    BY <1>1, <1>3, <1>5, <1>8 DEF Fine, Handles, Uploading, Downloading, Administrative
  <2>2. Cleared(r)' BY <1>1, <1>3, <1>5, <1>7, <1>8 DEF Fine, Cleared, Uploading
  <2>3. VerifiedFirst(r)'
    BY <1>1, <1>3, <1>5, <1>8 DEF Fine, VerifiedFirst, provider, shares, Admitted, Uploading
  <2>4. Answered(r)' BY <1>1, <1>3, <1>5, <1>8 DEF Fine, Answered, shares
  <2>5. Accounted(r)' BY <1>1, <1>5 DEF Fine, Handles, Uploading, Accounted
  <2>6. Truthful(r)' BY <1>1, <1>5 DEF Fine, Truthful, shares
  <2> QED BY <2>1, <2>2, <2>3, <2>4, <2>5, <2>6 DEF Fine
<1> QED BY <1>5, <1>6, <1>8, <1>9, <1>10, <1>11, QuietInv DEF provider, bulk

LEMMA OpenFileInv ==
    ASSUME IndInv, NEW r \in Requests, OpenFile(r)
    PROVE  IndInv'
<1>1. pc[r] = "open" /\ Fine(r) BY Local DEF OpenFile
<1>2. req[r].op = "download" BY <1>1 DEF Fine, Handles, Downloading
<1>3. CASE Missing(r) BY <1>1, <1>3, MissingInv DEF Ends
<1>4. ASSUME NEW S \in {{404, 500}, {500}}, Refuse(r, S) PROVE IndInv'
  <2>1. S \in SUBSET (Statuses \ {201, 204}) /\ 200 \notin S BY DEF Statuses
  <2>2. pc[r] \notin {"idle", "staging"} \union Ends BY <1>1 DEF Ends
  <2> QED BY <1>4, <2>1, <2>2, RefuseInv
<1>5. CASE /\ opened' = opened \union {r}
           /\ Goto(r, "sending")
           /\ UNCHANGED <<req, answer, gates, parts, stage, provider, shares, bulk>>
  <2>1. /\ "sending" \in Places
        /\ "sending" \in Uploading <=> pc[r] \in Uploading
        /\ "sending" \in Downloading <=> pc[r] \in Downloading
    BY <1>1 DEF Places, Uploading, Downloading
  <2>2. /\ pc' \in [Requests -> Places] /\ pc'[r] = "sending"
        /\ GatesExact' /\ uploads' \in Nat /\ downloads' \in Nat
        /\ \A q \in Requests \ {r} : pc'[q] = pc[q]
    BY <1>5, <2>1, GotoStep
  <2>3. TypeOK' BY <1>5, <2>2 DEF IndInv, TypeOK, provider, shares, bulk
  <2>4. OneSuccess' BY <1>5 DEF IndInv, OneSuccess, provider
  <2>5. Fine(r)'
    <3>1. Handles(pc[r], req[r].op)'
      BY <1>2, <1>5, <2>2 DEF Handles, Uploading, Downloading, Administrative
    <3>2. Cleared(r)' BY <1>1, <1>5, <2>2 DEF Fine, Cleared, Uploading
    <3>3. VerifiedFirst(r)'
      BY <1>1, <1>5, <2>2 DEF Fine, VerifiedFirst, provider, shares, Admitted, Uploading
    <3>4. Answered(r)' BY <1>1, <1>5, <2>2 DEF Fine, Answered, shares
    <3>5. Accounted(r)' BY <1>2, <1>5 DEF Accounted
    <3>6. Truthful(r)' BY <1>1, <1>5 DEF Fine, Truthful, shares
    <3> QED BY <3>1, <3>2, <3>3, <3>4, <3>5, <3>6 DEF Fine
  <2> QED BY <1>5, <2>2, <2>3, <2>4, <2>5, QuietInv DEF provider, bulk
<1> QED BY <1>3, <1>4, <1>5 DEF OpenFile

LEMMA AuthenticateInv ==
    ASSUME IndInv, NEW r \in Requests, Authenticate(r)
    PROVE  IndInv'
<1>1. pc[r] = "session" /\ Fine(r) BY Local DEF Authenticate
<1>2. req[r].op \in Administrative BY <1>1 DEF Fine, Handles
<1>3. ASSUME NEW S \in {{404}, {401, 403}, {400}}, Refuse(r, S) PROVE IndInv'
  <2>1. S \in SUBSET (Statuses \ {201, 204}) /\ 200 \notin S BY DEF Statuses
  <2>2. pc[r] \notin {"idle", "staging"} \union Ends BY <1>1 DEF Ends
  <2> QED BY <1>3, <2>1, <2>2, RefuseInv
<1>4. ASSUME NEW p \in {"adminDelete", "cleanup"}, req[r].op = p, Proceed(r, p) PROVE IndInv'
  BY <1>1, <1>4, ProceedInv
     DEF Places, Ends, Uploading, Downloading, Handles, Administrative, Admitted
<1>5. CASE /\ req[r].op = "bulk"
           /\ todo' = [todo EXCEPT ![r] = {i \in DOMAIN req[r].ids : req[r].ids[i] # None}]
           /\ failed' = [failed EXCEPT ![r] = {req[r].ids[i] : i \in DOMAIN req[r].ids} \ Shares]
           /\ Goto(r, "bulk")
           /\ UNCHANGED <<req, answer, gates, files, provider, shares>>
  <2>1. /\ "bulk" \in Places
        /\ "bulk" \in Uploading <=> pc[r] \in Uploading
        /\ "bulk" \in Downloading <=> pc[r] \in Downloading
    BY <1>1 DEF Places, Uploading, Downloading
  <2>2. /\ pc' \in [Requests -> Places] /\ pc'[r] = "bulk"
        /\ GatesExact' /\ uploads' \in Nat /\ downloads' \in Nat
        /\ \A q \in Requests \ {r} : pc'[q] = pc[q]
    BY <1>5, <2>1, GotoStep
  <2>3. /\ todo \in [Requests -> SUBSET Nat]
        /\ failed \in [Requests -> SUBSET (Shares \union {None})]
        /\ req[r].ids \in Seq(Shares \union {None})
    BY DEF IndInv, TypeOK
  <2>4. \A i \in DOMAIN req[r].ids : i \in Nat /\ req[r].ids[i] \in Shares \union {None} BY <2>3
  <2>5. /\ todo' \in [Requests -> SUBSET Nat]
        /\ todo'[r] = {i \in DOMAIN req[r].ids : req[r].ids[i] # None}
        /\ \A q \in Requests \ {r} : todo'[q] = todo[q]
    BY <1>5, <2>3, <2>4
  <2>6. /\ failed' \in [Requests -> SUBSET (Shares \union {None})]
        /\ failed'[r] = {req[r].ids[i] : i \in DOMAIN req[r].ids} \ Shares
        /\ \A q \in Requests \ {r} : failed'[q] = failed[q]
    BY <1>5, <2>3, <2>4
  <2>7. TypeOK' BY <1>5, <2>2, <2>5, <2>6 DEF IndInv, TypeOK, files, provider, shares
  <2>8. OneSuccess' BY <1>5 DEF IndInv, OneSuccess, provider
  <2>9. answer[r] = 0 /\ r \notin did /\ kind[r] = "none" BY <1>1 DEF Fine, Answered, Ends
  <2>10. Fine(r)'
    <3>1. Handles(pc[r], req[r].op)'
      BY <1>5, <2>2 DEF Handles, Uploading, Downloading, Administrative
    <3>2. Cleared(r)' BY <1>1, <1>5, <2>2 DEF Fine, Cleared, files, Uploading
    <3>3. VerifiedFirst(r)'
      BY <1>1, <1>5, <2>2 DEF Fine, VerifiedFirst, provider, shares, Admitted, Uploading
    <3>4. Answered(r)' BY <1>5, <2>2, <2>9 DEF Answered, shares
    <3>5. \A i \in DOMAIN req[r].ids : req[r].ids[i] \in failed'[r] \/ i \in todo'[r]
      BY <2>5, <2>6
    <3>6. Accounted(r)'
      <4>1. req' = req /\ answer'[r] = 0 /\ todo'[r] \subseteq DOMAIN req[r].ids BY <1>5, <2>5, <2>9
      <4> QED BY <3>5, <4>1 DEF Accounted
    <3>7. Truthful(r)' BY <1>5, <2>9 DEF Truthful
    <3> QED BY <3>1, <3>2, <3>3, <3>4, <3>6, <3>7 DEF Fine
  <2> QED BY <1>5, <2>2, <2>5, <2>6, <2>7, <2>8, <2>10, QuietInv DEF files, provider
<1> QED BY <1>3, <1>4, <1>5 DEF Authenticate

LEMMA BulkDeleteInv ==
    ASSUME IndInv, NEW r \in Requests, NEW i \in todo[r], BulkDelete(r, i)
    PROVE  IndInv'
<1>1. pc[r] = "bulk" /\ Fine(r) BY Local DEF BulkDelete
<1>2. req[r].op = "bulk" BY <1>1 DEF Fine, Handles, Administrative
<1>3. answer[r] = 0 BY <1>1 DEF Fine, Answered, Ends
<1>i. PICK s : s = req[r].ids[i] OBVIOUS
<1>4. UNCHANGED <<pc, req, answer, gates, files, provider>> BY DEF BulkDelete
<1>5. /\ todo \in [Requests -> SUBSET Nat]
      /\ failed \in [Requests -> SUBSET (Shares \union {None})]
      /\ kind \in [Shares -> {"none", "text", "encrypted", "file"}]
      /\ expired \subseteq Shares /\ did \subseteq Requests
      /\ req[r].ids \in Seq(Shares \union {None})
      BY DEF IndInv, TypeOK
<1>6. s \in Shares \union {None}
  <2>1. i \in DOMAIN req[r].ids BY <1>1, <1>2 DEF Fine, Accounted
  <2> QED BY <1>i, <1>5, <2>1
<1>7. /\ todo' = [todo EXCEPT ![r] = @ \ {i}]
      /\ \/ failed' = [failed EXCEPT ![r] = @ \union {s}] /\ UNCHANGED shares
         \/ failed' = [failed EXCEPT ![r] = @ \union {s}] /\ Remove(r, s)
         \/ UNCHANGED failed /\ Live(s) /\ Remove(r, s)
      BY <1>i DEF BulkDelete
<1>8. /\ todo' \in [Requests -> SUBSET Nat] /\ todo'[r] = todo[r] \ {i}
      /\ \A q \in Requests \ {r} : todo'[q] = todo[q]
      BY <1>5, <1>7
<1>9. /\ failed' \in [Requests -> SUBSET (Shares \union {None})]
      /\ failed[r] \subseteq failed'[r]
      /\ \A q \in Requests \ {r} : failed'[q] = failed[q]
      BY <1>5, <1>6, <1>7
<1>10. /\ kind' \in [Shares -> {"none", "text", "encrypted", "file"}]
       /\ \A x \in Shares : kind[x] = "none" => kind'[x] = "none"
       /\ expired' \subseteq Shares /\ did' \subseteq Requests
       /\ \A q \in Requests \ {r} : q \in did' <=> q \in did
      BY <1>5, <1>7 DEF Remove, shares
<1>11. TypeOK' BY <1>4, <1>8, <1>9, <1>10 DEF IndInv, TypeOK, gates, files, provider
<1>12. GatesExact' BY <1>4 DEF IndInv, GatesExact, gates
<1>13. OneSuccess' BY <1>4 DEF IndInv, OneSuccess, provider
<1>14. \A x \in Shares : Gone(x) => Gone(x)' BY <1>4, <1>10 DEF Gone
<1>15. Apart(r)
  <2>1. \A q \in Requests : kind'[q] # "none" => kind[q] # "none" BY <1>5, <1>10 DEF Shares
  <2>2. \A x \in Shares : Gone(x) => kind'[x] = "none" /\ (x \in Requests => answer'[x] # 0)
    BY <1>14 DEF Gone
  <2> QED BY <1>4, <1>8, <1>9, <1>10, <2>1, <2>2 DEF Apart, files, provider
<1>16. s \in failed'[r] \/ Gone(s)'
  <2>1. CASE failed' = [failed EXCEPT ![r] = @ \union {s}] BY <1>5, <2>1
  <2>2. CASE Live(s) /\ Remove(r, s)
    <3>1. s \in Shares /\ kind[s] # "none" BY <1>6, <2>2 DEF Live
    <3>2. s \in Requests => answer[s] # 0
      <4> SUFFICES ASSUME s \in Requests PROVE answer[s] # 0 OBVIOUS
      <4>1. Fine(s) BY Local
      <4> QED BY <3>1, <4>1 DEF Fine, Answered
    <3>3. kind'[s] = "none" BY <1>5, <2>2, <3>1 DEF Remove
    <3> QED BY <1>4, <2>2, <3>2, <3>3 DEF Gone, Live
  <2> QED BY <1>7, <2>1, <2>2
<1>17. Fine(r)'
  <2>1. Handles(pc[r], req[r].op)' BY <1>1, <1>4 DEF Fine
  <2>2. Cleared(r)' BY <1>1, <1>4 DEF Fine, Cleared, files
  <2>3. VerifiedFirst(r)' BY <1>1, <1>2, <1>4 DEF Fine, VerifiedFirst, provider
  <2>4. Answered(r)'
    <3>1. kind'[r] # "none" => kind[r] # "none" BY <1>5, <1>10 DEF Shares
    <3> QED BY <1>1, <1>4, <3>1 DEF Fine, Answered
  <2>5. \A j \in DOMAIN req[r].ids :
           req[r].ids[j] \in failed'[r] \/ j \in todo'[r] \/ Gone(req[r].ids[j])'
    <3> SUFFICES ASSUME NEW j \in DOMAIN req[r].ids
                 PROVE  req[r].ids[j] \in failed'[r] \/ j \in todo'[r] \/ Gone(req[r].ids[j])'
      OBVIOUS
    <3>1. CASE j = i BY <1>i, <1>4, <1>16, <3>1
    <3>2. CASE req[r].ids[j] \in failed[r] BY <1>9, <3>2
    <3>3. CASE j # i /\ j \in todo[r] BY <1>8, <3>3
    <3>4. CASE Gone(req[r].ids[j])
      <4>1. req[r].ids[j] \in Shares BY <1>5, <3>4 DEF Gone
      <4> QED BY <1>4, <1>14, <3>4, <4>1
    <3> QED BY <1>1, <1>2, <3>1, <3>2, <3>3, <3>4 DEF Fine, Accounted
  <2>6. Accounted(r)'
    <3>1. todo[r] \subseteq DOMAIN req[r].ids BY <1>1, <1>2 DEF Fine, Accounted
    <3> QED BY <1>3, <1>4, <1>8, <2>5, <3>1 DEF Accounted
  <2>7. Truthful(r)' BY <1>2, <1>4 DEF Truthful
  <2> QED BY <2>1, <2>2, <2>3, <2>4, <2>6, <2>7 DEF Fine
<1> QED BY <1>11, <1>12, <1>13, <1>15, <1>17, Assembled

LEMMA DeadlineInv ==
    ASSUME IndInv, NEW r \in Requests, Deadline(r)
    PROVE  IndInv'
<1>1. Fine(r) BY Local
<1>2. CASE FailStage(r) BY <1>2, FailStageInv
<1>3. CASE pc[r] \in {"text", "patchBody"} /\ Refuse(r, {400})
  BY <1>3, RefuseInv DEF Statuses, Ends
<1>4. CASE pc[r] = "parts" /\ Refuse(r, {500}) BY <1>4, RefuseInv DEF Statuses, Ends
<1>5. CASE pc[r] = "sending" /\ Refuse(r, {200})
  <2>1. req[r].op = "download" BY <1>1, <1>5 DEF Fine, Handles, Downloading
  <2> QED BY <1>5, <2>1, RefuseInv DEF Statuses, Ends
<1> QED BY <1>2, <1>3, <1>4, <1>5 DEF Deadline

LEMMA ExpireInv ==
    ASSUME IndInv, NEW s \in Shares, Expire(s)
    PROVE  IndInv'
<1>1. UNCHANGED <<pc, req, answer, gates, files, provider, kind, did, bulk>> BY DEF Expire
<1>2. TypeOK' BY <1>1 DEF Expire, IndInv, TypeOK, gates, files, provider, bulk
<1>3. GatesExact' /\ OneSuccess' BY <1>1 DEF IndInv, GatesExact, OneSuccess, gates, provider
<1>4. ASSUME NEW r \in Requests PROVE Fine(r)'
  <2>1. Fine(r) BY Local
  <2>2. Handles(pc[r], req[r].op)' /\ Cleared(r)' /\ VerifiedFirst(r)'
    BY <1>1, <2>1 DEF Fine, Cleared, VerifiedFirst, files, provider
  <2>3. Answered(r)' /\ Accounted(r)' /\ Truthful(r)'
    BY <1>1, <2>1 DEF Fine, Answered, Accounted, Truthful, Gone, bulk
  <2> QED BY <2>2, <2>3 DEF Fine
<1> QED BY <1>2, <1>3, <1>4 DEF IndInv, AnswerTruth, Fine, Truthful

-------------------------------------------------------------------------------
LEMMA InitInv == Init => IndInv
<1> SUFFICES ASSUME Init PROVE IndInv OBVIOUS
<1> USE DEF Init
<1>1. TypeOK
  <2>1. [op |-> "read", token |-> None, ids |-> <<None>>, owner |-> None]
           \in [op : {"create", "read", "raw", "download", "patch", "delete"} \union Administrative,
                token : Tokens \union {None}, ids : Seq(Shares \union {None}),
                owner : Shares \union {None}]
    OBVIOUS
  <2>2. "idle" \in Places BY DEF Places
  <2> QED BY <2>1, <2>2 DEF TypeOK
<1>2. GatesExact
  <2>1. /\ {r \in Requests : pc[r] \in Uploading} = {}
        /\ {r \in Requests : pc[r] \in Downloading} = {}
    BY DEF Uploading, Downloading
  <2>2. Cardinality({r \in Requests : pc[r] \in Uploading}) = 0
        /\ Cardinality({r \in Requests : pc[r] \in Downloading}) = 0
    BY <2>1, FS_EmptySet
  <2> QED BY <2>2 DEF GatesExact
<1>3. OneSuccess BY DEF OneSuccess
<1>4. ASSUME NEW r \in Requests PROVE Fine(r)
  <2>1. /\ pc[r] = "idle" /\ req[r].op = "read" /\ answer[r] = 0 /\ verdict[r] = "none"
        /\ kind[r] = "none"
    BY DEF Shares
  <2> QED BY <2>1 DEF Fine, Handles, Administrative, Uploading, Downloading, Cleared,
                       VerifiedFirst, Admitted, Answered, Accounted, Truthful
<1> QED BY <1>1, <1>2, <1>3, <1>4, IndInvParts

LEMMA StepInv == IndInv /\ [Next]_vars => IndInv'
<1> SUFFICES ASSUME IndInv, [Next]_vars PROVE IndInv' OBVIOUS
<1>1. CASE UNCHANGED vars
  <2>1. UNCHANGED <<pc, req, answer, gates, files, provider, kind, expired, did, bulk>>
    BY <1>1 DEF vars, shares
  <2> QED
    BY <2>1 DEF IndInv, TypeOK, GatesExact, AnswerTruth, OneSuccess, Cleared, VerifiedFirst,
                Answered, Accounted, Gone, gates, files, provider, bulk
<1>2. ASSUME NEW r \in Requests, NEW q \in Sendable(r), Arrive(r, q) PROVE IndInv'
  BY <1>2, ArriveInv
<1>3. ASSUME NEW r \in Requests, Server(r) PROVE IndInv'
  <2>1. ASSUME NEW i \in todo[r], BulkDelete(r, i) PROVE IndInv' BY <2>1, BulkDeleteInv
  <2> QED
    BY <1>3, <2>1, LimitInv, RequireChallengeInv, VerifiedInv, CreationInv, InsertTextInv,
       TryUploadInv, CommitFileInv, LeaveUploadInv, RouteInv, GetShareInv, TryDownloadInv,
       OpenFileInv, LeaveDownloadInv, AuthorizeInv, UpdateInv, DeleteInv, AuthenticateInv,
       EndBulkInv, CleanupInv
    DEF Server
<1>4. ASSUME NEW r \in Requests, Body(r) PROVE IndInv'
  BY <1>4, CreationInv, AuthorizeInv, SendFileInv, UploadStepInv, PartsInv DEF Body
<1>5. ASSUME NEW r \in Requests, RefuseParts(r) PROVE IndInv' BY <1>5, PartsInv
<1>6. ASSUME NEW r \in Requests, Redeem(r) PROVE IndInv' BY <1>6, RedeemInv
<1>7. ASSUME NEW r \in Requests, Deadline(r) PROVE IndInv' BY <1>7, DeadlineInv
<1>8. ASSUME NEW s \in Shares, Expire(s) PROVE IndInv' BY <1>8, ExpireInv
<1> QED BY <1>1, <1>2, <1>3, <1>4, <1>5, <1>6, <1>7, <1>8 DEF Next

\* The invariant of a request's way through its handler: what it holds at each
\* place, what it has been verified for, what it has answered.
THEOREM Invariance == Spec => []IndInv
BY InitInv, StepInv, PTL DEF Spec

\* The gates count the handlers that are in them, and no more than their limits.
THEOREM GatesAreExact == Spec => []GatesExact
<1>1. IndInv => GatesExact BY DEF IndInv
<1> QED BY <1>1, Invariance, PTL

\* A handler that has returned left no staged file and no open object.
THEOREM HandlersClean == Spec => []NothingLeft
<1>1. IndInv => NothingLeft
      BY DEF IndInv, NothingLeft, Cleared, Uploading
<1> QED BY <1>1, Invariance, PTL

\* One token admits one creation, and none if it is another site's.
THEOREM TokensOnce == Spec => []OneSharePerToken
<1>1. IndInv => OneSharePerToken
  <2> SUFFICES ASSUME IndInv, Challenge PROVE OneSharePerToken BY DEF OneSharePerToken
  <2>1. ASSUME NEW r \in did, req[r].op = "create"
        PROVE  r \in Requests /\ verdict[r] = "success" /\ req[r].token \in Tokens \ Foreign
    <3>1. r \in Requests BY DEF IndInv, TypeOK
    <3>2. VerifiedFirst(r) BY <3>1, Local
    <3> QED BY <2>1, <3>1, <3>2 DEF VerifiedFirst
  <2>2. ASSUME NEW r \in did, NEW q \in did, req[r].op = "create", req[q].op = "create",
               req[r].token = req[q].token
        PROVE  r = q
    BY <2>1, <2>2 DEF IndInv, OneSuccess
  <2> QED BY <2>1, <2>2 DEF OneSharePerToken
<1> QED BY <1>1, Invariance, PTL

\* A status code tells whether its request changed a Share.
THEOREM AnswersAreTrue == Spec => []AnswerTruth
<1>1. IndInv => AnswerTruth BY DEF IndInv
<1> QED BY <1>1, Invariance, PTL

\* A bulk deletion reports each ID whose Share is still there.
THEOREM BulkReports == Spec => []BulkTruth
<1>1. IndInv => BulkTruth BY DEF IndInv, BulkTruth, Accounted, Gone, Live
<1> QED BY <1>1, Invariance, PTL
-------------------------------------------------------------------------------
(* What a step may do to a request, and to a Share.                        *)

\* How many steps a handler at place p, which has read these parts, may still take; a
\* bulk deletion takes one for each of its IDs besides.
Steps(p, read) ==
    CASE p = "done" -> 0
      [] p \in {"leaveUpload", "leaveDownload"} -> 1
      [] p \in {"insert", "commit", "get", "sending", "update", "delete",
                "adminDelete", "bulk", "cleanup"} -> 2
      [] p \in {"text", "open", "patchBody", "session"} -> 3
      [] p = "parts" -> 3 + (IF "metadata" \in read THEN 0 ELSE 1)
                          + (IF "file" \in read THEN 0 ELSE 2)
      [] p = "staging" -> 4 + (IF "metadata" \in read THEN 0 ELSE 1)
      [] p \in {"gate", "authorize"} -> 4
      [] p = "route" -> 5
      [] p = "upload" -> 7
      [] p = "format" -> 8
      [] p = "verifying" -> 9
      [] p = "challenge" -> 10
      [] p = "limiter" -> 11
      [] p = "idle" -> 12

\* Each step of a handler leaves it fewer steps to take, whatever the others do: none
\* turns back, waits in a loop or starts over.
Advances(r) ==
    \/ pc'[r] = pc[r] /\ parts'[r] = parts[r] /\ todo'[r] = todo[r]
    \/ Steps(pc'[r], parts'[r]) < Steps(pc[r], parts[r])
    \/ pc[r] = "bulk" /\ pc'[r] = "bulk" /\ \E i \in todo[r] : todo'[r] = todo[r] \ {i}
OnlyForward == [][\A r \in Requests : Advances(r)]_vars

\* Request r, not answered yet, may take Share s away.
MayRemove(r, s) ==
    /\ answer[r] = 0
    /\ \/ req[r].op = "delete" /\ The(r) = s /\ req[r].owner = s /\ s \notin expired
       \/ req[r].op = "adminDelete" /\ The(r) = s
       \/ req[r].op = "bulk" /\ \E i \in DOMAIN req[r].ids : req[r].ids[i] = s
       \/ req[r].op = "cleanup" /\ s \in expired

\* A Share appears as its creation succeeds, and goes as its owner deletes it before it
\* expires, the administrator asks for it to go, or a cleanup finds it expired; its kind
\* never changes.  Who patches one has its owner token, and it has not expired.
ChangesWarranted ==
    /\ \A s \in Shares :
          kind'[s] # kind[s] =>
             \/ /\ kind[s] = "none" /\ s \in Requests
                /\ req[s].op = "create" /\ answer[s] = 0 /\ answer'[s] = 201
             \/ kind'[s] = "none" /\ \E r \in did' : MayRemove(r, s)
    /\ \A r \in did' \ did :
          req[r].op = "patch" => Active(The(r)) /\ req[r].owner = The(r)
Warranted == [][ChangesWarranted]_vars

Idle == {"idle"} \union Ends

LEMMA StepsOf ==
    ASSUME NEW read
    PROVE  /\ Steps("idle", read) = 12 /\ Steps("limiter", read) = 11
           /\ Steps("challenge", read) = 10 /\ Steps("verifying", read) = 9
           /\ Steps("format", read) = 8 /\ Steps("upload", read) = 7
           /\ Steps("route", read) = 5
           /\ Steps("gate", read) = 4 /\ Steps("authorize", read) = 4
           /\ \A p \in {"text", "open", "patchBody", "session"} : Steps(p, read) = 3
           /\ \A p \in {"insert", "commit", "get", "sending", "update", "delete",
                        "adminDelete", "bulk", "cleanup"} : Steps(p, read) = 2
           /\ Steps("leaveUpload", read) = 1 /\ Steps("leaveDownload", read) = 1
           /\ Steps("done", read) = 0
           /\ Steps("parts", read) = 3 + (IF "metadata" \in read THEN 0 ELSE 1)
                                       + (IF "file" \in read THEN 0 ELSE 2)
           /\ Steps("staging", read) = 4 + (IF "metadata" \in read THEN 0 ELSE 1)
BY DEF Steps

\* An answer is on the way out.
LEMMA EndedSteps ==
    ASSUME NEW p \in Places \ Idle, NEW read, NEW after
    PROVE  Steps(Ended(p), after) < Steps(p, read)
<1>1. Ended(p) \in {"leaveUpload", "leaveDownload", "done"} BY EndedIs DEF Idle, Ends
<1>2. Steps(Ended(p), after) \in {0, 1} BY <1>1, StepsOf
<1>3. Steps(p, read) \in {2, 3, 4, 5, 6, 7, 8, 9, 10, 11}
  <2>1. CASE p = "parts"
    <3>1. Steps(p, read) = 3 + (IF "metadata" \in read THEN 0 ELSE 1)
                             + (IF "file" \in read THEN 0 ELSE 2)
      BY <2>1, StepsOf
    <3>2. (IF "metadata" \in read THEN 0 ELSE 1) \in {0, 1} OBVIOUS
    <3>3. (IF "file" \in read THEN 0 ELSE 2) \in {0, 2} OBVIOUS
    <3> QED BY <3>1, <3>2, <3>3
  <2>2. CASE p = "staging"
    <3>1. Steps(p, read) = 4 + (IF "metadata" \in read THEN 0 ELSE 1) BY <2>2, StepsOf
    <3>2. (IF "metadata" \in read THEN 0 ELSE 1) \in {0, 1} OBVIOUS
    <3> QED BY <3>1, <3>2
  <2>3. CASE p \in {"insert", "commit", "get", "sending", "update", "delete",
                    "adminDelete", "bulk", "cleanup"}
    BY <2>3, StepsOf
  <2>4. CASE p \in {"text", "open", "patchBody", "session"} BY <2>4, StepsOf
  <2>5. CASE p \in {"gate", "authorize", "route", "upload", "format", "verifying",
                    "challenge", "limiter"}
    BY <2>5, StepsOf
  <2> QED BY <2>1, <2>2, <2>3, <2>4, <2>5
    DEF Places, Idle, Ends, Uploading, Downloading
<1> QED BY <1>2, <1>3

\* A step of one request that leaves it fewer steps advances them all.
LEMMA OneAdvances ==
    ASSUME IndInv, NEW r \in Requests, NEW p, Goto(r, p),
           \A q \in Requests \ {r} : parts'[q] = parts[q] /\ todo'[q] = todo[q],
           Steps(p, parts'[r]) < Steps(pc[r], parts[r])
    PROVE  \A q \in Requests : Advances(q)
<1>1. pc \in [Requests -> Places] BY DEF IndInv, TypeOK
<1>2. pc' = [pc EXCEPT ![r] = p] BY DEF Goto
<1>3. pc'[r] = p BY <1>1, <1>2
<1>4. Advances(r) BY <1>3 DEF Advances
<1>5. \A q \in Requests \ {r} : Advances(q) BY <1>1, <1>2 DEF Advances
<1> QED BY <1>4, <1>5

LEMMA AnswerAdvances ==
    ASSUME IndInv, NEW r \in Requests, NEW status, Answer(r, status), pc[r] \notin Idle,
           \A q \in Requests \ {r} : parts'[q] = parts[q] /\ todo'[q] = todo[q]
    PROVE  \A q \in Requests : Advances(q)
<1>1. Goto(r, Ended(pc[r])) BY DEF Answer, Ended
<1>2. pc[r] \in Places \ Idle BY DEF IndInv, TypeOK
<1>3. Steps(Ended(pc[r]), parts'[r]) < Steps(pc[r], parts[r]) BY <1>2, EndedSteps
<1> QED BY <1>1, <1>3, OneAdvances

LEMMA RefuseAdvances ==
    ASSUME IndInv, NEW r \in Requests, NEW statuses, Refuse(r, statuses), pc[r] \notin Idle
    PROVE  \A q \in Requests : Advances(q)
<1>1. PICK status \in statuses : Answer(r, status) BY DEF Refuse
<1>2. parts' = parts /\ todo' = todo BY DEF Refuse, files, bulk
<1> QED BY <1>1, <1>2, AnswerAdvances

LEMMA ProceedAdvances ==
    ASSUME IndInv, NEW r \in Requests, NEW p, Proceed(r, p),
           Steps(p, parts[r]) < Steps(pc[r], parts[r])
    PROVE  \A q \in Requests : Advances(q)
<1>1. Goto(r, p) /\ parts' = parts /\ todo' = todo BY DEF Proceed, files, bulk
<1> QED BY <1>1, OneAdvances

LEMMA StillAdvances ==
    ASSUME pc' = pc, parts' = parts, todo' = todo
    PROVE  \A q \in Requests : Advances(q)
BY DEF Advances

-------------------------------------------------------------------------------
LEMMA ArriveAdvances ==
    ASSUME IndInv, NEW r \in Requests, NEW q, Arrive(r, q)
    PROVE  \A x \in Requests : Advances(x)
<1>1. PICK p \in {"session", "limiter"} : Goto(r, p) BY DEF Arrive
<1>2. pc[r] = "idle" /\ parts' = parts /\ todo' = todo BY DEF Arrive, files, bulk
<1>3. Steps(p, parts'[r]) < Steps(pc[r], parts[r]) BY <1>2, StepsOf
<1> QED BY <1>1, <1>2, <1>3, OneAdvances

LEMMA CreationAdvances ==
    ASSUME IndInv, NEW r \in Requests,
           Limit(r) \/ Verified(r) \/ VerifyFails(r) \/ CheckFormat(r) \/ ReadText(r)
    PROVE  \A q \in Requests : Advances(q)
<1>1. pc[r] \in {"limiter", "verifying", "format", "text"}
      BY DEF Limit, Verified, VerifyFails, CheckFormat, ReadText
<1>2. pc[r] \notin Idle BY <1>1 DEF Idle, Ends
<1>3. ASSUME NEW statuses, Refuse(r, statuses) PROVE \A q \in Requests : Advances(q)
      BY <1>2, <1>3, RefuseAdvances
<1>4. ASSUME Limit(r) PROVE \A q \in Requests : Advances(q)
  <2>1. CASE Refuse(r, {429}) BY <1>3, <2>1
  <2>2. ASSUME NEW p \in {"challenge", "gate", "route"}, Proceed(r, p)
        PROVE  \A q \in Requests : Advances(q)
    <3>1. pc[r] = "limiter" BY <1>4 DEF Limit
    <3>2. Steps(p, parts[r]) < Steps(pc[r], parts[r]) BY <3>1, StepsOf
    <3> QED BY <2>2, <3>2, ProceedAdvances
  <2>3. CASE req[r].op = "create" BY <1>4, <2>1, <2>2, <2>3 DEF Limit
  <2>4. CASE req[r].op = "download" BY <1>4, <2>1, <2>2, <2>4 DEF Limit
  <2>5. CASE req[r].op \notin {"create", "download"} BY <1>4, <2>1, <2>2, <2>5 DEF Limit
  <2> QED BY <2>3, <2>4, <2>5
<1>5. ASSUME Verified(r) \/ VerifyFails(r) PROVE \A q \in Requests : Advances(q)
  <2>1. pc[r] = "verifying" BY <1>5 DEF Verified, VerifyFails
  <2>2. Steps("format", parts[r]) < Steps(pc[r], parts[r]) BY <2>1, StepsOf
  <2> QED BY <1>3, <1>5, <2>2, ProceedAdvances DEF Verified, VerifyFails
<1>6. ASSUME CheckFormat(r) PROVE \A q \in Requests : Advances(q)
  <2>1. pc[r] = "format" BY <1>6 DEF CheckFormat
  <2>2. /\ Steps("text", parts[r]) < Steps(pc[r], parts[r])
        /\ Steps("upload", parts[r]) < Steps(pc[r], parts[r])
    BY <2>1, StepsOf
  <2> QED BY <1>3, <1>6, <2>2, ProceedAdvances DEF CheckFormat
<1>7. ASSUME ReadText(r) PROVE \A q \in Requests : Advances(q)
  <2>1. pc[r] = "text" BY <1>7 DEF ReadText
  <2>2. Steps("insert", parts[r]) < Steps(pc[r], parts[r]) BY <2>1, StepsOf
  <2> QED BY <1>3, <1>7, <2>2, ProceedAdvances DEF ReadText
<1> QED BY <1>4, <1>5, <1>6, <1>7

LEMMA ChallengeAdvances ==
    ASSUME IndInv, NEW r \in Requests, RequireChallenge(r)
    PROVE  \A q \in Requests : Advances(q)
<1>1. pc[r] = "challenge" BY DEF RequireChallenge
<1>2. /\ Steps("format", parts[r]) < Steps(pc[r], parts[r])
      /\ Steps("verifying", parts[r]) < Steps(pc[r], parts[r])
      BY <1>1, StepsOf
<1>3. CASE Proceed(r, "format") BY <1>2, <1>3, ProceedAdvances
<1>4. CASE Refuse(r, {403})
  <2>1. pc[r] \notin Idle BY <1>1 DEF Idle, Ends
  <2> QED BY <1>4, <2>1, RefuseAdvances
<1>5. CASE Goto(r, "verifying") /\ UNCHANGED <<files, bulk>>
  <2>1. parts' = parts /\ todo' = todo BY <1>5 DEF files, bulk
  <2> QED BY <1>2, <1>5, <2>1, OneAdvances
<1> QED BY <1>3, <1>4, <1>5 DEF RequireChallenge

\* The steps that enter or leave a gate, or move on and open an object.
LEMMA GateAdvances ==
    ASSUME IndInv, NEW r \in Requests,
           TryUpload(r) \/ TryDownload(r) \/ LeaveUpload(r) \/ LeaveDownload(r)
    PROVE  \A q \in Requests : Advances(q)
<1>1. CASE TryUpload(r)
  <2>1. pc[r] = "upload" BY <1>1 DEF TryUpload
  <2>2. Steps("parts", parts[r]) < Steps(pc[r], parts[r])
    <3>1. (IF "metadata" \in parts[r] THEN 0 ELSE 1) \in {0, 1} OBVIOUS
    <3>2. (IF "file" \in parts[r] THEN 0 ELSE 2) \in {0, 2} OBVIOUS
    <3> QED BY <2>1, <3>1, <3>2, StepsOf
  <2>3. CASE Refuse(r, {429})
    <3>1. pc[r] \notin Idle BY <2>1 DEF Idle, Ends
    <3> QED BY <2>3, <3>1, RefuseAdvances
  <2>4. CASE Goto(r, "parts") /\ UNCHANGED <<files, bulk>>
    <3>1. parts' = parts /\ todo' = todo BY <2>4 DEF files, bulk
    <3> QED BY <2>2, <2>4, <3>1, OneAdvances
  <2> QED BY <1>1, <2>3, <2>4 DEF TryUpload
<1>2. CASE TryDownload(r)
  <2>1. pc[r] = "gate" BY <1>2 DEF TryDownload
  <2>2. Steps("open", parts[r]) < Steps(pc[r], parts[r]) BY <2>1, StepsOf
  <2>3. CASE Refuse(r, {429})
    <3>1. pc[r] \notin Idle BY <2>1 DEF Idle, Ends
    <3> QED BY <2>3, <3>1, RefuseAdvances
  <2>4. CASE Goto(r, "open") /\ UNCHANGED <<files, bulk>>
    <3>1. parts' = parts /\ todo' = todo BY <2>4 DEF files, bulk
    <3> QED BY <2>2, <2>4, <3>1, OneAdvances
  <2> QED BY <1>2, <2>3, <2>4 DEF TryDownload
<1>3. CASE LeaveUpload(r) \/ LeaveDownload(r)
  <2>1. /\ pc[r] \in {"leaveUpload", "leaveDownload"} /\ Goto(r, "done")
        /\ parts' = parts /\ todo' = todo
    BY <1>3 DEF LeaveUpload, LeaveDownload, bulk
  <2>2. Steps("done", parts[r]) < Steps(pc[r], parts[r]) BY <2>1, StepsOf
  <2> QED BY <2>1, <2>2, OneAdvances
<1> QED BY <1>1, <1>2, <1>3

\* The parts of an upload: each is read once.
LEMMA PartsAdvance ==
    ASSUME IndInv, NEW r \in Requests,
           ReadMetadata(r) \/ StageFile(r) \/ FinishStage(r) \/ EndParts(r) \/ RefuseParts(r)
    PROVE  \A q \in Requests : Advances(q)
<1>1. parts \in [Requests -> SUBSET {"metadata", "file"}] /\ pc \in [Requests -> Places]
      BY DEF IndInv, TypeOK
<1>2. CASE ReadMetadata(r)
  <2>1. /\ pc[r] = "parts" /\ "metadata" \notin parts[r] /\ pc' = pc /\ todo' = todo
        /\ parts' = [parts EXCEPT ![r] = @ \union {"metadata"}]
    BY <1>2 DEF ReadMetadata, bulk
  <2>2. parts'[r] = parts[r] \union {"metadata"} BY <1>1, <2>1
  <2>3. /\ Steps("parts", parts[r]) = 4 + (IF "file" \in parts[r] THEN 0 ELSE 2)
        /\ Steps("parts", parts'[r]) = 3 + (IF "file" \in parts[r] THEN 0 ELSE 2)
    BY <2>1, <2>2, StepsOf
  <2>4. (IF "file" \in parts[r] THEN 0 ELSE 2) \in {0, 2} OBVIOUS
  <2>5. Goto(r, "parts") BY <1>1, <2>1 DEF Goto
  <2>6. Steps("parts", parts'[r]) < Steps(pc[r], parts[r]) BY <2>1, <2>3, <2>4
  <2> QED BY <1>1, <2>1, <2>5, <2>6, OneAdvances
<1>3. CASE StageFile(r)
  <2>1. /\ pc[r] = "parts" /\ "file" \notin parts[r] /\ Goto(r, "staging")
        /\ parts' = parts /\ todo' = todo
    BY <1>3 DEF StageFile, bulk
  <2>2. /\ Steps("parts", parts[r]) = 5 + (IF "metadata" \in parts[r] THEN 0 ELSE 1)
        /\ Steps("staging", parts[r]) = 4 + (IF "metadata" \in parts[r] THEN 0 ELSE 1)
    BY <2>1, StepsOf
  <2>3. (IF "metadata" \in parts[r] THEN 0 ELSE 1) \in {0, 1} OBVIOUS
  <2>4. Steps("staging", parts'[r]) < Steps(pc[r], parts[r]) BY <2>1, <2>2, <2>3
  <2> QED BY <2>1, <2>4, OneAdvances
<1>4. CASE FinishStage(r)
  <2>1. /\ pc[r] = "staging" /\ Goto(r, "parts") /\ todo' = todo
        /\ parts' = [parts EXCEPT ![r] = @ \union {"file"}]
    BY <1>4 DEF FinishStage, bulk
  <2>2. parts'[r] = parts[r] \union {"file"} BY <1>1, <2>1
  <2>3. /\ Steps("staging", parts[r]) = 4 + (IF "metadata" \in parts[r] THEN 0 ELSE 1)
        /\ Steps("parts", parts'[r]) = 3 + (IF "metadata" \in parts[r] THEN 0 ELSE 1)
    BY <2>2, StepsOf
  <2>4. (IF "metadata" \in parts[r] THEN 0 ELSE 1) \in {0, 1} OBVIOUS
  <2>5. Steps("parts", parts'[r]) < Steps(pc[r], parts[r]) BY <2>1, <2>3, <2>4
  <2> QED BY <1>1, <2>1, <2>5, OneAdvances
<1>5. CASE EndParts(r) \/ RefuseParts(r)
  <2>1. pc[r] = "parts" BY <1>5 DEF EndParts, RefuseParts
  <2>2. pc[r] \notin Idle BY <2>1 DEF Idle, Ends
  <2>3. ASSUME NEW statuses, Refuse(r, statuses) PROVE \A q \in Requests : Advances(q)
    BY <2>2, <2>3, RefuseAdvances
  <2>4. CASE parts[r] = {"metadata", "file"} /\ Proceed(r, "commit")
    <3>1. Steps("commit", parts[r]) < Steps(pc[r], parts[r]) BY <2>1, <2>4, StepsOf
    <3> QED BY <2>4, <3>1, ProceedAdvances
  <2> QED BY <1>5, <2>3, <2>4 DEF EndParts, RefuseParts
<1> QED BY <1>2, <1>3, <1>4, <1>5

LEMMA ReadingAdvances ==
    ASSUME IndInv, NEW r \in Requests,
           Route(r) \/ GetShare(r) \/ OpenFile(r) \/ SendFile(r) \/ AuthorizeOwner(r) \/ ReadPatch(r)
    PROVE  \A q \in Requests : Advances(q)
<1>1. pc[r] \in {"route", "get", "open", "sending", "authorize", "patchBody"}
      BY DEF Route, GetShare, OpenFile, SendFile, AuthorizeOwner, ReadPatch
<1>2. pc[r] \notin Idle BY <1>1 DEF Idle, Ends
<1>3. ASSUME NEW statuses, Refuse(r, statuses) PROVE \A q \in Requests : Advances(q)
      BY <1>2, <1>3, RefuseAdvances
<1>4. CASE Route(r)
  <2>1. pc[r] = "route" BY <1>4 DEF Route
  <2>2. ASSUME NEW p \in {"get", "authorize", "delete"}, Proceed(r, p)
        PROVE  \A q \in Requests : Advances(q)
    <3>1. Steps(p, parts[r]) < Steps(pc[r], parts[r]) BY <2>1, StepsOf
    <3> QED BY <2>2, <3>1, ProceedAdvances
  <2> QED BY <1>3, <1>4, <2>2 DEF Route
<1>5. CASE GetShare(r)
  <2>1. \E statuses : Refuse(r, statuses) BY <1>5 DEF GetShare, Missing
  <2> QED BY <1>3, <2>1
<1>6. CASE OpenFile(r)
  <2>1. pc[r] = "open" BY <1>6 DEF OpenFile
  <2>2. Steps("sending", parts[r]) < Steps(pc[r], parts[r]) BY <2>1, StepsOf
  <2>3. CASE Goto(r, "sending") /\ UNCHANGED <<parts, bulk>>
    <3>1. parts' = parts /\ todo' = todo BY <2>3 DEF bulk
    <3> QED BY <2>2, <2>3, <3>1, OneAdvances
  <2>4. CASE \E statuses : Refuse(r, statuses) BY <1>3, <2>4
  <2> QED BY <1>6, <2>3, <2>4 DEF OpenFile, Missing
<1>7. CASE SendFile(r) BY <1>3, <1>7 DEF SendFile
<1>8. CASE AuthorizeOwner(r)
  <2>1. pc[r] = "authorize" BY <1>8 DEF AuthorizeOwner
  <2>2. Steps("patchBody", parts[r]) < Steps(pc[r], parts[r]) BY <2>1, StepsOf
  <2>3. CASE Proceed(r, "patchBody") BY <2>2, <2>3, ProceedAdvances
  <2>4. CASE \E statuses : Refuse(r, statuses) BY <1>3, <2>4
  <2> QED BY <1>8, <2>3, <2>4 DEF AuthorizeOwner, Missing
<1>9. CASE ReadPatch(r)
  <2>1. pc[r] = "patchBody" BY <1>9 DEF ReadPatch
  <2>2. Steps("update", parts[r]) < Steps(pc[r], parts[r]) BY <2>1, StepsOf
  <2> QED BY <1>3, <1>9, <2>2, ProceedAdvances DEF ReadPatch
<1> QED BY <1>4, <1>5, <1>6, <1>7, <1>8, <1>9

\* The steps that change a Share answer, or only answer.
LEMMA ChangeAdvances ==
    ASSUME IndInv, NEW r \in Requests,
           \/ InsertText(r) \/ CommitFile(r) \/ UpdateShare(r) \/ DeleteShare(r)
           \/ AdminDelete(r) \/ Cleanup(r) \/ EndBulk(r) \/ Deadline(r)
    PROVE  \A q \in Requests : Advances(q)
<1>1. pc[r] \notin Idle
      BY DEF InsertText, CommitFile, UpdateShare, DeleteShare, AdminDelete, Cleanup, EndBulk,
             Deadline, FailStage, Idle, Ends
<1>2. ASSUME NEW statuses, Refuse(r, statuses) PROVE \A q \in Requests : Advances(q)
      BY <1>1, <1>2, RefuseAdvances
<1>3. ASSUME NEW status, Answer(r, status), UNCHANGED bulk,
             \A q \in Requests \ {r} : parts'[q] = parts[q]
      PROVE  \A q \in Requests : Advances(q)
      BY <1>1, <1>3, AnswerAdvances DEF bulk
<1>4. UNCHANGED files => \A q \in Requests \ {r} : parts'[q] = parts[q] BY DEF files
<1>5. CASE InsertText(r) BY <1>2, <1>3, <1>4, <1>5 DEF InsertText
<1>6. CASE CommitFile(r)
  <2>1. \A q \in Requests \ {r} : parts'[q] = parts[q] BY <1>6 DEF CommitFile, IndInv, TypeOK
  <2>2. PICK status : Answer(r, status) BY <1>6 DEF CommitFile
  <2> QED BY <1>3, <1>6, <2>1, <2>2 DEF CommitFile
<1>7. CASE UpdateShare(r)
  <2>1. CASE \E statuses : Refuse(r, statuses) BY <1>2, <2>1
  <2>2. CASE Answer(r, 200) /\ UNCHANGED <<files, bulk>> BY <1>3, <1>4, <2>2
  <2> QED BY <1>7, <2>1, <2>2 DEF UpdateShare, Missing
<1>8. CASE DeleteShare(r) \/ AdminDelete(r)
  <2>1. CASE \E statuses : Refuse(r, statuses) BY <1>2, <2>1
  <2>2. CASE Answer(r, 204) /\ UNCHANGED <<files, bulk>> BY <1>3, <1>4, <2>2
  <2> QED BY <1>8, <2>1, <2>2 DEF DeleteShare, AdminDelete, Missing
<1>9. CASE Cleanup(r)
  <2>1. PICK status : Answer(r, status) BY <1>9 DEF Cleanup
  <2> QED BY <1>3, <1>4, <1>9, <2>1 DEF Cleanup
<1>10. CASE EndBulk(r) BY <1>2, <1>10 DEF EndBulk
<1>11. CASE Deadline(r)
  <2>1. CASE FailStage(r)
    <3>1. PICK status : Answer(r, status) BY <2>1 DEF FailStage
    <3>2. UNCHANGED bulk /\ parts' = parts BY <2>1 DEF FailStage
    <3> QED BY <1>3, <3>1, <3>2
  <2>2. CASE \E statuses : Refuse(r, statuses) BY <1>2, <2>2
  <2> QED BY <1>11, <2>1, <2>2 DEF Deadline
<1> QED BY <1>5, <1>6, <1>7, <1>8, <1>9, <1>10, <1>11

LEMMA AuthenticateAdvances ==
    ASSUME IndInv, NEW r \in Requests, Authenticate(r)
    PROVE  \A q \in Requests : Advances(q)
<1>1. pc[r] = "session" /\ pc \in [Requests -> Places] /\ todo \in [Requests -> SUBSET Nat]
      BY DEF Authenticate, IndInv, TypeOK
<1>2. \A p \in {"adminDelete", "cleanup", "bulk"} : Steps(p, parts[r]) < Steps(pc[r], parts[r])
      BY <1>1, StepsOf
<1>3. CASE \E statuses : Refuse(r, statuses)
  <2>1. pc[r] \notin Idle BY <1>1 DEF Idle, Ends
  <2> QED BY <1>3, <2>1, RefuseAdvances
<1>4. CASE Proceed(r, "adminDelete") \/ Proceed(r, "cleanup") BY <1>2, <1>4, ProceedAdvances
<1>5. CASE /\ todo' = [todo EXCEPT ![r] = {i \in DOMAIN req[r].ids : req[r].ids[i] # None}]
           /\ Goto(r, "bulk") /\ UNCHANGED files
  <2>1. parts' = parts /\ \A q \in Requests \ {r} : todo'[q] = todo[q] BY <1>1, <1>5 DEF files
  <2> QED BY <1>2, <1>5, <2>1, OneAdvances
<1> QED BY <1>3, <1>4, <1>5 DEF Authenticate

LEMMA BulkAdvances ==
    ASSUME IndInv, NEW r \in Requests, NEW i \in todo[r], BulkDelete(r, i)
    PROVE  \A q \in Requests : Advances(q)
<1>1. /\ pc[r] = "bulk" /\ pc' = pc /\ todo' = [todo EXCEPT ![r] = @ \ {i}] /\ parts' = parts
      BY DEF BulkDelete, files
<1>2. todo \in [Requests -> SUBSET Nat] BY DEF IndInv, TypeOK
<1>3. Advances(r) BY <1>1, <1>2 DEF Advances
<1>4. \A q \in Requests \ {r} : Advances(q) BY <1>1, <1>2 DEF Advances
<1> QED BY <1>3, <1>4

\* The safety half of EveryRequestEnds: every step of a request brings it nearer to its
\* end, and no step of another one takes it back.
THEOREM RequestsAdvance == Spec => OnlyForward
<1>1. ASSUME IndInv, [Next]_vars PROVE [\A r \in Requests : Advances(r)]_vars
  <2>1. CASE UNCHANGED vars BY <2>1
  <2>2. ASSUME NEW r \in Requests, NEW q \in Sendable(r), Arrive(r, q)
        PROVE  \A x \in Requests : Advances(x)
    BY <1>1, <2>2, ArriveAdvances
  <2>3. ASSUME NEW r \in Requests, Server(r) PROVE \A x \in Requests : Advances(x)
    <3>1. ASSUME NEW i \in todo[r], BulkDelete(r, i) PROVE \A x \in Requests : Advances(x)
      BY <1>1, <3>1, BulkAdvances
    <3> QED
      BY <1>1, <2>3, <3>1, CreationAdvances, ChallengeAdvances, GateAdvances, ReadingAdvances,
         ChangeAdvances, AuthenticateAdvances
      DEF Server
  <2>4. ASSUME NEW r \in Requests, Body(r) \/ RefuseParts(r) PROVE \A x \in Requests : Advances(x)
    BY <1>1, <2>4, CreationAdvances, ReadingAdvances, PartsAdvance DEF Body
  <2>5. ASSUME NEW r \in Requests, Deadline(r) PROVE \A x \in Requests : Advances(x)
    BY <1>1, <2>5, ChangeAdvances
  <2>6. ASSUME NEW r \in Requests, Redeem(r) PROVE \A x \in Requests : Advances(x)
    BY <2>6, StillAdvances DEF Redeem, files, bulk
  <2>7. ASSUME NEW s \in Shares, Expire(s) PROVE \A x \in Requests : Advances(x)
    BY <2>7, StillAdvances DEF Expire, files, bulk
  <2> QED BY <1>1, <2>1, <2>2, <2>3, <2>4, <2>5, <2>6, <2>7 DEF Next
<1> QED BY <1>1, Invariance, PTL DEF Spec, OnlyForward


-------------------------------------------------------------------------------
LEMMA Unchanged ==
    ASSUME UNCHANGED <<kind, did>>
    PROVE  ChangesWarranted
BY DEF ChangesWarranted

\* A Share created by a request at one of the last places of a creation.
LEMMA CreateWarranted ==
    ASSUME IndInv, NEW r \in Requests, InsertText(r) \/ CommitFile(r)
    PROVE  ChangesWarranted
<1>1. pc[r] \in {"insert", "commit"} /\ Fine(r) BY Local DEF InsertText, CommitFile
<1>2. req[r].op = "create" /\ answer[r] = 0 /\ kind[r] = "none"
      BY <1>1 DEF Fine, Handles, Answered, Uploading
<1>3. CASE UNCHANGED <<kind, did>> BY <1>3, Unchanged
<1>4. ASSUME NEW k, kind' = [kind EXCEPT ![r] = k], did' = did \union {r}, Answer(r, 201)
      PROVE  ChangesWarranted
  <2>1. answer'[r] = 201 BY <1>4 DEF Answer, IndInv, TypeOK
  <2>2. \A s \in Shares : kind'[s] # kind[s] => s = r BY <1>4 DEF IndInv, TypeOK
  <2> QED BY <1>2, <1>4, <2>1, <2>2 DEF ChangesWarranted
<1> QED BY <1>3, <1>4 DEF InsertText, CommitFile, Refuse, shares

LEMMA PatchWarranted ==
    ASSUME IndInv, NEW r \in Requests, UpdateShare(r)
    PROVE  ChangesWarranted
<1>1. CASE UNCHANGED <<kind, did>> BY <1>1, Unchanged
<1>2. CASE Active(The(r)) /\ req[r].owner = The(r) /\ kind' = kind /\ did' = did \union {r}
  BY <1>2 DEF ChangesWarranted
<1> QED BY <1>1, <1>2 DEF UpdateShare, Missing, Refuse, shares

\* A Share that r removes, which may.
LEMMA RemoveWarranted ==
    ASSUME IndInv, NEW r \in Requests, NEW s, Remove(r, s), MayRemove(r, s),
           req[r].op # "patch"
    PROVE  ChangesWarranted
<1>1. \A x \in Shares : kind'[x] # kind[x] => x = s /\ kind'[x] = "none"
      BY DEF Remove, IndInv, TypeOK
<1>2. r \in did' /\ did' \ did \subseteq {r} BY DEF Remove
<1> QED BY <1>1, <1>2 DEF ChangesWarranted

LEMMA DeleteWarranted ==
    ASSUME IndInv, NEW r \in Requests, DeleteShare(r) \/ AdminDelete(r)
    PROVE  ChangesWarranted
<1>1. pc[r] \in {"delete", "adminDelete"} /\ Fine(r) BY Local DEF DeleteShare, AdminDelete
<1>2. answer[r] = 0 BY <1>1 DEF Fine, Answered
<1>3. /\ DeleteShare(r) => req[r].op = "delete"
      /\ AdminDelete(r) => req[r].op = "adminDelete"
      BY <1>1 DEF DeleteShare, AdminDelete, Fine, Handles, Administrative
<1>4. CASE UNCHANGED <<kind, did>> BY <1>4, Unchanged
<1>5. CASE DeleteShare(r) /\ Active(The(r)) /\ req[r].owner = The(r) /\ Remove(r, The(r))
  <2>1. MayRemove(r, The(r)) BY <1>2, <1>3, <1>5 DEF MayRemove, Active
  <2> QED BY <1>3, <1>5, <2>1, RemoveWarranted
<1>6. CASE AdminDelete(r) /\ Remove(r, The(r))
  <2>1. MayRemove(r, The(r)) BY <1>2, <1>3, <1>6 DEF MayRemove
  <2> QED BY <1>3, <1>6, <2>1, RemoveWarranted
<1> QED BY <1>4, <1>5, <1>6 DEF DeleteShare, AdminDelete, Missing, Refuse, shares

\* A bulk deletion removes one of its IDs.
LEMMA BulkWarranted ==
    ASSUME IndInv, NEW r \in Requests, NEW i \in todo[r], BulkDelete(r, i)
    PROVE  ChangesWarranted
<1>1. pc[r] = "bulk" /\ Fine(r) BY Local DEF BulkDelete
<1>2. req[r].op = "bulk" /\ answer[r] = 0 BY <1>1 DEF Fine, Handles, Answered, Administrative
<1>3. i \in DOMAIN req[r].ids BY <1>1, <1>2 DEF Fine, Accounted
<1>4. CASE UNCHANGED shares BY <1>4, Unchanged DEF shares
<1>5. CASE Remove(r, req[r].ids[i])
  <2>1. MayRemove(r, req[r].ids[i]) BY <1>2, <1>3 DEF MayRemove
  <2> QED BY <1>2, <1>5, <2>1, RemoveWarranted
<1> QED BY <1>4, <1>5 DEF BulkDelete

LEMMA CleanupWarranted ==
    ASSUME IndInv, NEW r \in Requests, Cleanup(r)
    PROVE  ChangesWarranted
<1>1. pc[r] = "cleanup" /\ Fine(r) BY Local DEF Cleanup
<1>2. req[r].op = "cleanup" /\ answer[r] = 0 BY <1>1 DEF Fine, Handles, Answered, Administrative
<1>3. PICK gone \in SUBSET expired :
         /\ kind' = [s \in Shares |-> IF s \in gone THEN "none" ELSE kind[s]]
         /\ did' = IF gone = {} THEN did ELSE did \union {r}
      BY DEF Cleanup
<1>4. ASSUME NEW s \in Shares, kind'[s] # kind[s]
      PROVE  kind'[s] = "none" /\ \E q \in did' : MayRemove(q, s)
  <2>1. s \in gone /\ kind'[s] = "none" BY <1>3, <1>4
  <2>2. r \in did' BY <1>3, <2>1
  <2>3. MayRemove(r, s) BY <1>2, <2>1 DEF MayRemove
  <2> QED BY <2>1, <2>2, <2>3
<1>5. \A q \in did' \ did : q = r BY <1>3
<1> QED BY <1>2, <1>4, <1>5 DEF ChangesWarranted

\* A Share changes only for a request that may change it, at the moment it does.
THEOREM ChangesAreWarranted == Spec => Warranted
<1>1. ASSUME IndInv, [Next]_vars PROVE [ChangesWarranted]_vars
  <2>1. CASE UNCHANGED vars BY <2>1
  <2>2. ASSUME NEW r \in Requests, NEW q \in Sendable(r), Arrive(r, q) PROVE UNCHANGED <<kind, did>>
    BY <2>2 DEF Arrive, shares
  <2>3. ASSUME NEW r \in Requests, Server(r) PROVE ChangesWarranted
    <3>1. ASSUME NEW i \in todo[r], BulkDelete(r, i) PROVE ChangesWarranted
      BY <1>1, <3>1, BulkWarranted
    <3>2. CASE InsertText(r) \/ CommitFile(r) BY <1>1, <3>2, CreateWarranted
    <3>3. CASE UpdateShare(r) BY <1>1, <3>3, PatchWarranted
    <3>4. CASE DeleteShare(r) \/ AdminDelete(r) BY <1>1, <3>4, DeleteWarranted
    <3>5. CASE Cleanup(r) BY <1>1, <3>5, CleanupWarranted
    <3>6. CASE Limit(r) \/ RequireChallenge(r) \/ Verified(r) \/ VerifyFails(r) \/ CheckFormat(r)
      <4>1. UNCHANGED shares
        BY <3>6 DEF Limit, RequireChallenge, Verified, VerifyFails, CheckFormat, Refuse, Proceed
      <4> QED BY <4>1, Unchanged DEF shares
    <3>7. CASE TryUpload(r) \/ LeaveUpload(r) \/ TryDownload(r) \/ OpenFile(r) \/ LeaveDownload(r)
      <4>1. UNCHANGED shares
        BY <3>7 DEF TryUpload, LeaveUpload, TryDownload, OpenFile, LeaveDownload, Missing, Refuse
      <4> QED BY <4>1, Unchanged DEF shares
    <3>8. CASE Route(r) \/ GetShare(r) \/ AuthorizeOwner(r) \/ Authenticate(r) \/ EndBulk(r)
      <4>1. UNCHANGED shares
        BY <3>8 DEF Route, GetShare, AuthorizeOwner, Authenticate, EndBulk, Missing, Refuse, Proceed
      <4> QED BY <4>1, Unchanged DEF shares
    <3> QED BY <2>3, <3>1, <3>2, <3>3, <3>4, <3>5, <3>6, <3>7, <3>8 DEF Server
  <2>4. ASSUME NEW r \in Requests, Body(r) \/ RefuseParts(r) \/ Redeem(r)
        PROVE  UNCHANGED <<kind, did>>
    BY <2>4 DEF Body, ReadText, ReadPatch, SendFile, ReadMetadata, StageFile, FinishStage, EndParts,
                RefuseParts, Redeem, Refuse, Proceed, shares
  <2>5. ASSUME NEW r \in Requests, Deadline(r) PROVE UNCHANGED <<kind, did>>
    BY <2>5 DEF Deadline, FailStage, Refuse, shares
  <2>6. ASSUME NEW s \in Shares, Expire(s) PROVE UNCHANGED <<kind, did>> BY <2>6 DEF Expire
  <2> QED BY <1>1, <2>1, <2>2, <2>3, <2>4, <2>5, <2>6, Unchanged DEF Next
<1> QED BY <1>1, Invariance, PTL DEF Spec, Warranted
===============================================================================
