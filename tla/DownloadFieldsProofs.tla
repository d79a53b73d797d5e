---- MODULE DownloadFieldsProofs ----
(***************************************************************************)
(* Proofs about Downloads: the fields of a tab are exact for a download    *)
(* that is alone, and type correctness with the bound of the counts.       *)
(***************************************************************************)
EXTENDS DownloadsProofs, FiniteSetTheorems

\* A message of that name about the download is queued.
Has(name, d) ==
    \E k \in 1 .. Len(m_functionQueue) :
        m_functionQueue[k].name = name /\ m_functionQueue[k].download = d

\* The pieces of data of these downloads that are queued.
Waiting(D) ==
    {k \in 1 .. Len(m_functionQueue) :
        m_functionQueue[k].name = "DidReceiveData" /\ m_functionQueue[k].download \in D}

\* All pieces that were ever sent.
Pieces == {p \in Download \X (1 .. MaxChunks) : p[2] <= sent[p[1]]}

\* The program was asked for the file name of the download.
Named(d) == phase[d] = "writing" \/ sent[d] > 0 \/ Has("DidFinish", d)

FieldTypes ==
    /\ currenttab \in Tab
    /\ downloadfilename \in [Tab -> DownloadOrNone]
    /\ bytesdownloaded \in [Tab -> Nat]
    /\ download_ref \in [Tab -> DownloadOrNone]
    /\ sent \in [Download -> 0 .. MaxChunks]
    /\ sole \in DownloadOrNone

\* Nothing is sent before there is a file.
EarlyEmpty == \A d \in Download : phase[d] \in {"new", "accepted", "started"} => sent[d] = 0

\* didStart runs before the program is asked for the file name: that question is
\* synchronous.
StartFirst == \A d \in Download : Has("DidStart", d) => ~Named(d)

DataSent == \A d \in Download : Has("DidReceiveData", d) => sent[d] > 0

\* The fields of the sole download.
SoleNamed ==
    \A d \in Download : (sole = d /\ Named(d)) => downloadfilename[currenttab] = d

SoleCount ==
    \A d \in Download :
        sole = d => /\ bytesdownloaded[currenttab] + Cardinality(Waiting({d})) = sent[d]
                    /\ download_ref[currenttab] = d

SoleDialog ==
    \A d \in Download :
        (sole = d /\ Shown("open") /\ dialog.download = d) => (dialog.file = d /\ dialog.buf = d)

\* A tab has counted at most what was sent and is not queued any more.
CountBounded ==
    \A t \in Tab : bytesdownloaded[t] + Cardinality(Waiting(Download)) <= Cardinality(Pieces)

\* The inductive invariant of the fields, relative to ProxyInv.
FieldInv ==
    /\ FieldTypes
    /\ EarlyEmpty
    /\ StartFirst
    /\ DataSent
    /\ SoleNamed
    /\ SoleCount
    /\ SoleDialog
    /\ CountBounded

fieldsVars == <<m_functionQueue, dialog, currenttab, downloadfilename, bytesdownloaded,
                download_ref, phase, sent, sole>>

\* The other steps do not touch them.
LEMMA FieldsUnchanged ==
    ASSUME FieldInv, UNCHANGED fieldsVars
    PROVE  FieldInv'
<1> USE DEF fieldsVars
<1>1. FieldTypes' /\ EarlyEmpty' /\ DataSent'
  BY DEF FieldInv, FieldTypes, EarlyEmpty, DataSent, Has
<1>2. StartFirst' /\ SoleNamed'
  BY DEF FieldInv, StartFirst, SoleNamed, Named, Has
<1>3. SoleCount' /\ SoleDialog' /\ CountBounded'
  BY DEF FieldInv, SoleCount, SoleDialog, CountBounded, Waiting, Pieces, Shown
<1> QED
  BY <1>1, <1>2, <1>3 DEF FieldInv

-----------------------------------------------------------------------------
(* Counting in a queue.                                                    *)

\* A set of positions is finite.
LEMMA PositionsFinite ==
    ASSUME NEW n \in Nat, NEW I \in SUBSET (1 .. n)
    PROVE  IsFiniteSet(I) /\ Cardinality(I) \in Nat
<1>1. IsFiniteSet(1 .. n)
  BY FS_Interval
<1>2. IsFiniteSet(I)
  BY <1>1, FS_Subset
<1> QED
  BY <1>2, FS_CardinalityType

\* The positions behind the first, each moved up by one, are as many.
LEMMA PositionsShifted ==
    ASSUME NEW n \in Nat, NEW I \in SUBSET (1 .. n), NEW J \in SUBSET (1 .. (n - 1)),
           \A k \in 1 .. (n - 1) : k \in J <=> k + 1 \in I
    PROVE  Cardinality(J) = (IF 1 \in I THEN Cardinality(I) - 1 ELSE Cardinality(I))
<1> DEFINE R == I \ {1}
           f == [k \in J |-> k + 1]
<1>1. IsFiniteSet(I) /\ Cardinality(I) \in Nat
  BY PositionsFinite
<1>2. /\ IsFiniteSet(R)
      /\ Cardinality(R) = (IF 1 \in I THEN Cardinality(I) - 1 ELSE Cardinality(I))
  BY <1>1, FS_RemoveElement
<1>3. \A k \in J : k \in Int /\ k + 1 \in R
  OBVIOUS
<1>4. f \in [J -> R]
  BY <1>3
<1>5. \A i \in R : i - 1 \in J /\ (i - 1) + 1 = i
  OBVIOUS
<1>6. \A i \in R : \E k \in J : f[k] = i
  BY <1>5
<1>7. \A j, k \in J : f[j] = f[k] => j = k
  BY <1>3
<1>8. f \in Bijection(J, R)
  BY <1>4, <1>6, <1>7 DEF Bijection, Injection, IsInjective, Surjection
<1>9. f \in Injection(J, R) /\ f \in Surjection(J, R)
  BY <1>8 DEF Bijection
<1> HIDE DEF f, R
<1>10. Cardinality(J) = Cardinality(R)
  BY <1>2, <1>9, FS_Injection
<1> QED
  BY <1>2, <1>10

\* The messages that are queued after one was sent.
LEMMA QueueAppended ==
    ASSUME ProxyInv, NEW m \in Message, m_functionQueue' = Append(m_functionQueue, m)
    PROVE  /\ \A name, d : Has(name, d)' <=> (Has(name, d) \/ (m.name = name /\ m.download = d))
           /\ \A D : /\ Cardinality(Waiting(D)) \in Nat
                     /\ Cardinality(Waiting(D)') =
                          (IF m.name = "DidReceiveData" /\ m.download \in D
                           THEN Cardinality(Waiting(D)) + 1 ELSE Cardinality(Waiting(D)))
<1> DEFINE n == Len(m_functionQueue)
<1>1. /\ n \in Nat
      /\ Len(m_functionQueue') = n + 1
      /\ \A k \in 1 .. n : m_functionQueue'[k] = m_functionQueue[k]
      /\ m_functionQueue'[n + 1] = m
  <2>1. m_functionQueue \in Seq(Message)
    BY DEF ProxyInv, ProxyTypes
  <2> QED
    BY <2>1, AppendProperties
<1> HIDE DEF n
<1>2. 1 .. (n + 1) = (1 .. n) \cup {n + 1} /\ n + 1 \notin 1 .. n
  BY <1>1
<1>3. ASSUME NEW name, NEW d
      PROVE  Has(name, d)' <=> (Has(name, d) \/ (m.name = name /\ m.download = d))
  BY <1>1, <1>2 DEF Has, n
<1>4. ASSUME NEW D
      PROVE  /\ Cardinality(Waiting(D)) \in Nat
             /\ Cardinality(Waiting(D)') =
                  (IF m.name = "DidReceiveData" /\ m.download \in D
                   THEN Cardinality(Waiting(D)) + 1 ELSE Cardinality(Waiting(D)))
  <2>1. Waiting(D) \in SUBSET (1 .. n)
    BY DEF Waiting, n
  <2>2. IsFiniteSet(Waiting(D)) /\ Cardinality(Waiting(D)) \in Nat
    BY <1>1, <2>1, PositionsFinite
  <2>3. Waiting(D)' = (IF m.name = "DidReceiveData" /\ m.download \in D
                       THEN Waiting(D) \cup {n + 1} ELSE Waiting(D))
    BY <1>1, <1>2 DEF Waiting, n
  <2>4. n + 1 \notin Waiting(D)
    BY <1>2, <2>1
  <2>5. Cardinality(Waiting(D) \cup {n + 1}) = Cardinality(Waiting(D)) + 1
    BY <2>2, <2>4, FS_AddElement
  <2> QED
    BY <2>2, <2>3, <2>5
<1> QED
  BY <1>3, <1>4

\* The messages that are queued after the first was taken.
LEMMA QueueTaken ==
    ASSUME ProxyInv, dequeue
    PROVE  /\ \A name, d : Has(name, d)' => Has(name, d)
           /\ Has(Taken.name, Taken.download)
           /\ \A D : /\ Cardinality(Waiting(D)) \in Nat
                     /\ Cardinality(Waiting(D)') =
                          (IF Taken.name = "DidReceiveData" /\ Taken.download \in D
                           THEN Cardinality(Waiting(D)) - 1 ELSE Cardinality(Waiting(D)))
<1> DEFINE n == Len(m_functionQueue)
<1>1. /\ n \in Nat
      /\ Len(m_functionQueue') = n - 1
      /\ 1 \in 1 .. n /\ Taken = m_functionQueue[1]
      /\ \A k \in 1 .. (n - 1) :
           k + 1 \in 1 .. n /\ m_functionQueue'[k] = m_functionQueue[k + 1]
  BY Dequeued
<1> HIDE DEF n
<1>2. ASSUME NEW name, NEW d, Has(name, d)' PROVE Has(name, d)
  <2>1. PICK k \in 1 .. (n - 1) :
               m_functionQueue'[k].name = name /\ m_functionQueue'[k].download = d
    BY <1>1, <1>2 DEF Has
  <2> QED
    BY <1>1, <2>1 DEF Has, n
<1>3. Has(Taken.name, Taken.download)
  BY <1>1 DEF Has, n
<1>4. ASSUME NEW D
      PROVE  /\ Cardinality(Waiting(D)) \in Nat
             /\ Cardinality(Waiting(D)') =
                  (IF Taken.name = "DidReceiveData" /\ Taken.download \in D
                   THEN Cardinality(Waiting(D)) - 1 ELSE Cardinality(Waiting(D)))
  <2>1. Waiting(D) \in SUBSET (1 .. n)
    BY DEF Waiting, n
  <2>2. Cardinality(Waiting(D)) \in Nat
    BY <1>1, <2>1, PositionsFinite
  <2>3. Waiting(D)' \in SUBSET (1 .. (n - 1))
    BY <1>1 DEF Waiting
  <2>4. \A k \in 1 .. (n - 1) : k \in Waiting(D)' <=> k + 1 \in Waiting(D)
    BY <1>1 DEF Waiting, n
  <2>5. 1 \in Waiting(D) <=> (Taken.name = "DidReceiveData" /\ Taken.download \in D)
    BY <1>1 DEF Waiting, n
  <2>6. Cardinality(Waiting(D)') =
          (IF 1 \in Waiting(D) THEN Cardinality(Waiting(D)) - 1 ELSE Cardinality(Waiting(D)))
    BY <1>1, <2>1, <2>3, <2>4, PositionsShifted
  <2> QED
    BY <2>2, <2>5, <2>6
<1> QED
  BY <1>2, <1>3, <1>4

\* What ProxyInv says of a message.
LEMMA MessageKnown ==
    ASSUME ProxyInv, NEW name \in DownloadMessages, NEW d, Has(name, d)
    PROVE  /\ d \in Download /\ phase[d] # "new"
           /\ name \in Final => phase[d] = "over"
           /\ ~(Shown("open") /\ dialog.download = d)
<1>1. PICK k \in 1 .. Len(m_functionQueue) :
             m_functionQueue[k].name = name /\ m_functionQueue[k].download = d
  BY DEF Has
<1>2. d \in Download /\ phase[d] # "new"
  BY <1>1 DEF ProxyInv, MessagesKnown
<1>3. name \in Final => phase[d] = "over"
  BY <1>1 DEF ProxyInv, FinalOver
<1>4. ~(Shown("open") /\ dialog.download = d)
  BY <1>1 DEF ProxyInv, DialogKnown, About
<1> QED
  BY <1>2, <1>3, <1>4

-----------------------------------------------------------------------------
(* Steps of the web processes.                                             *)

\* The set of all pieces is finite.
LEMMA PiecesFinite ==
    ASSUME sent \in [Download -> 0 .. MaxChunks]
    PROVE  /\ IsFiniteSet(Pieces)
           /\ Cardinality(Pieces) \in Nat
           /\ Cardinality(Pieces) <= MaxDownloads * MaxChunks
<1>1. MaxDownloads \in Nat /\ MaxChunks \in Nat
  BY DownloadsAssumption
<1>2. IsFiniteSet(Download) /\ Cardinality(Download) = MaxDownloads
  BY <1>1, FS_Interval DEF Download
<1>3. IsFiniteSet(1 .. MaxChunks) /\ Cardinality(1 .. MaxChunks) = MaxChunks
  BY <1>1, FS_Interval
<1>4. /\ IsFiniteSet(Download \X (1 .. MaxChunks))
      /\ Cardinality(Download \X (1 .. MaxChunks)) = MaxDownloads * MaxChunks
  BY <1>2, <1>3, FS_Product
<1>5. Pieces \in SUBSET (Download \X (1 .. MaxChunks))
  BY DEF Pieces
<1>6. IsFiniteSet(Pieces) /\ Cardinality(Pieces) <= MaxDownloads * MaxChunks
  BY <1>4, <1>5, FS_Subset
<1> QED
  BY <1>6, FS_CardinalityType

\* A piece is sent.
LEMMA PieceSent ==
    ASSUME sent \in [Download -> 0 .. MaxChunks], NEW d \in Download, sent[d] < MaxChunks,
           sent' = [sent EXCEPT ![d] = @ + 1]
    PROVE  /\ sent' \in [Download -> 0 .. MaxChunks]
           /\ Cardinality(Pieces') = Cardinality(Pieces) + 1
<1>1. MaxChunks \in Nat /\ sent[d] \in Nat
  BY DownloadsAssumption
<1>2. /\ sent'[d] = sent[d] + 1
      /\ \A e \in Download : e # d => sent'[e] = sent[e]
      /\ sent' \in [Download -> 0 .. MaxChunks]
  BY <1>1
<1> DEFINE x == <<d, sent[d] + 1>>
<1>3. x \in Download \X (1 .. MaxChunks) /\ x[1] = d /\ x[2] = sent[d] + 1
  BY <1>1
<1>4. x \notin Pieces
  BY <1>1, <1>3 DEF Pieces
<1>5. Pieces' = Pieces \cup {x}
  <2>1. ASSUME NEW p \in Download \X (1 .. MaxChunks)
        PROVE  p[2] <= sent'[p[1]] <=> (p[2] <= sent[p[1]] \/ p = x)
    <3>1. p[1] \in Download /\ p[2] \in 1 .. MaxChunks /\ p = <<p[1], p[2]>>
      OBVIOUS
    <3>2. CASE p[1] = d
      <4>1. p[2] <= sent[d] + 1 <=> (p[2] <= sent[d] \/ p[2] = sent[d] + 1)
        BY <1>1, <3>1
      <4>2. p = x <=> p[2] = sent[d] + 1
        BY <3>1, <3>2
      <4> QED
        BY <1>2, <3>2, <4>1, <4>2
    <3>3. CASE p[1] # d
      BY <1>2, <1>3, <3>1, <3>3
    <3> QED
      BY <3>2, <3>3
  <2> HIDE DEF x
  <2> QED
    BY <1>3, <2>1 DEF Pieces
<1> HIDE DEF x
<1>6. IsFiniteSet(Pieces)
  BY PiecesFinite
<1> QED
  BY <1>2, <1>4, <1>5, <1>6, FS_AddElement

\* A process sends a message.  It sends data and the end of the data only when
\* there is a file, and tells of the start before.
LEMMA SendFields ==
    ASSUME ProxyInv, FieldInv,
           NEW m \in Message, m_functionQueue' = Append(m_functionQueue, m),
           UNCHANGED <<dialog, currenttab, downloadfilename, bytesdownloaded, download_ref, sole>>,
           \A e \in Download :
               /\ phase'[e] = "writing" => phase[e] = "writing"
               /\ phase'[e] \in {"new", "accepted", "started"}
                    => phase[e] \in {"new", "accepted", "started"},
           m.name = "DidStart" => ~Named(m.download),
           m.name = "DidFinish" => phase[m.download] = "writing",
           IF m.name = "DidReceiveData"
           THEN /\ m.download \in Download /\ phase[m.download] = "writing"
                /\ sent[m.download] < MaxChunks
                /\ sent' = [sent EXCEPT ![m.download] = @ + 1]
           ELSE sent' = sent
    PROVE  FieldInv'
<1>1. /\ \A name, d : Has(name, d)' <=> (Has(name, d) \/ (m.name = name /\ m.download = d))
      /\ \A D : /\ Cardinality(Waiting(D)) \in Nat
                /\ Cardinality(Waiting(D)') =
                     (IF m.name = "DidReceiveData" /\ m.download \in D
                      THEN Cardinality(Waiting(D)) + 1 ELSE Cardinality(Waiting(D)))
  BY QueueAppended
<1>2. sent \in [Download -> 0 .. MaxChunks] /\ MaxChunks \in Nat
  BY DownloadsAssumption DEF FieldInv, FieldTypes
<1>3. /\ sent' \in [Download -> 0 .. MaxChunks]
      /\ \A d \in Download :
            sent'[d] = IF m.name = "DidReceiveData" /\ m.download = d THEN sent[d] + 1 ELSE sent[d]
      /\ Cardinality(Pieces') =
            (IF m.name = "DidReceiveData" THEN Cardinality(Pieces) + 1 ELSE Cardinality(Pieces))
  <2>1. CASE m.name = "DidReceiveData"
    BY <1>2, <2>1, PieceSent
  <2>2. CASE m.name # "DidReceiveData"
    BY <1>2, <2>2 DEF Pieces
  <2> QED
    BY <2>1, <2>2
<1>4. ASSUME NEW d \in Download, Named(d)' PROVE Named(d)
  <2>1. CASE phase'[d] = "writing"
    BY <2>1 DEF Named
  <2>2. CASE sent'[d] > 0
    BY <1>3, <2>2 DEF Named
  <2>3. CASE Has("DidFinish", d)'
    BY <1>1, <2>3 DEF Named
  <2> QED
    BY <1>4, <2>1, <2>2, <2>3 DEF Named
<1>5. FieldTypes'
  BY <1>3 DEF FieldInv, FieldTypes
<1>6. EarlyEmpty'
  BY <1>3 DEF FieldInv, EarlyEmpty
<1>7. StartFirst'
  BY <1>1, <1>4 DEF FieldInv, StartFirst
<1>8. DataSent'
  <2> SUFFICES ASSUME NEW d \in Download, Has("DidReceiveData", d)' PROVE sent'[d] > 0
    BY DEF DataSent
  <2>1. sent[d] \in Nat
    BY <1>2
  <2>2. CASE m.name = "DidReceiveData" /\ m.download = d
    BY <1>3, <2>1, <2>2
  <2>3. CASE Has("DidReceiveData", d)
    <3>1. sent[d] > 0
      BY <2>3 DEF FieldInv, DataSent
    <3> QED
      BY <1>3, <2>1, <3>1
  <2> QED
    BY <1>1, <2>2, <2>3
<1>9. SoleNamed'
  BY <1>4 DEF FieldInv, SoleNamed
<1>10. SoleCount'
  <2> SUFFICES ASSUME NEW d \in Download, sole = d
               PROVE  /\ bytesdownloaded[currenttab] + Cardinality(Waiting({d})') = sent'[d]
                      /\ download_ref[currenttab] = d
    BY DEF SoleCount
  <2>1. /\ bytesdownloaded[currenttab] + Cardinality(Waiting({d})) = sent[d]
        /\ download_ref[currenttab] = d
    BY DEF FieldInv, SoleCount
  <2>2. bytesdownloaded[currenttab] \in Nat /\ Cardinality(Waiting({d})) \in Nat /\ sent[d] \in Nat
    BY <1>1, <1>2 DEF FieldInv, FieldTypes
  <2>3. m.download \in {d} <=> m.download = d
    OBVIOUS
  <2> QED
    BY <1>1, <1>3, <2>1, <2>2, <2>3
<1>11. SoleDialog'
  BY DEF FieldInv, SoleDialog, Shown
<1>12. CountBounded'
  <2> SUFFICES ASSUME NEW t \in Tab
               PROVE  bytesdownloaded[t] + Cardinality(Waiting(Download)') <= Cardinality(Pieces')
    BY DEF CountBounded
  <2>1. bytesdownloaded[t] + Cardinality(Waiting(Download)) <= Cardinality(Pieces)
    BY DEF FieldInv, CountBounded
  <2>2. bytesdownloaded[t] \in Nat
    BY DEF FieldInv, FieldTypes
  <2>3. Cardinality(Pieces) \in Nat /\ Cardinality(Waiting(Download)) \in Nat
    BY <1>1, <1>2, PiecesFinite
  <2>4. m.name = "DidReceiveData" => m.download \in Download
    OBVIOUS
  <2> QED
    BY <1>1, <1>3, <2>1, <2>2, <2>3, <2>4
<1> QED
  BY <1>5, <1>6, <1>7, <1>8, <1>9, <1>10, <1>11, <1>12 DEF FieldInv

\* createDownloadProxy: a new download has neither data nor a file.
LEMMA CreateFields ==
    ASSUME ProxyInv, FieldInv, NEW t \in Tab, uniqueDownloadID < MaxDownloads,
           createDownloadProxy(t),
           UNCHANGED <<m_functionQueue, dialog, currenttab, downloadfilename, bytesdownloaded,
                       download_ref, sent, sole>>
    PROVE  FieldInv'
<1> DEFINE d == uniqueDownloadID + 1
<1>1. uniqueDownloadID \in Nat /\ d \in Download /\ d > uniqueDownloadID
  BY DownloadsAssumption DEF ProxyInv, ProxyTypes, DownloadOrNone, Download, None
<1>2. phase[d] = "new"
  BY <1>1 DEF ProxyInv, NumberNew
<1>3. phase' = [phase EXCEPT ![d] = "accepted"]
  BY DEF createDownloadProxy
<1> HIDE DEF d
<1>4. \A e \in Download : phase'[e] = IF e = d THEN "accepted" ELSE phase[e]
  BY <1>1, <1>3 DEF ProxyInv, ProxyTypes
<1>5. \A e \in Download : phase'[e] = "writing" <=> phase[e] = "writing"
  BY <1>2, <1>4
<1>6. \A e \in Download : Named(e)' <=> Named(e)
  BY <1>5 DEF Named, Has
<1>7. FieldTypes' /\ DataSent' /\ SoleDialog'
  BY DEF FieldInv, FieldTypes, DataSent, Has, SoleDialog, Shown
<1>8. EarlyEmpty'
  BY <1>2, <1>4 DEF FieldInv, EarlyEmpty
<1>9. StartFirst' /\ SoleNamed'
  BY <1>6 DEF FieldInv, StartFirst, SoleNamed, Has
<1>10. SoleCount' /\ CountBounded'
  BY DEF FieldInv, SoleCount, CountBounded, Waiting, Pieces
<1> QED
  BY <1>7, <1>8, <1>9, <1>10 DEF FieldInv

\* The policy for a response changes the fields of save-as only.
LEMMA PolicyFields ==
    ASSUME ProxyInv, FieldInv, NEW t \in Tab, decidePolicyForResponse(t),
           UNCHANGED <<m_functionQueue, dialog, currenttab, downloadfilename, bytesdownloaded,
                       download_ref, sent, sole>>
    PROVE  FieldInv'
<1>1. CASE createDownloadProxy(t)
  <2>1. uniqueDownloadID < MaxDownloads
    BY DEF decidePolicyForResponse
  <2> QED
    BY <1>1, <2>1, CreateFields
<1>2. CASE ShowOrIgnore
  <2>1. UNCHANGED phase
    BY <1>2 DEF ShowOrIgnore
  <2> QED
    BY <2>1, FieldsUnchanged DEF fieldsVars
<1> QED
  BY <1>1, <1>2 DEF decidePolicyForResponse

\* startWithHandle: the download has neither data nor a file when it is told of.
LEMMA StartSentFields ==
    ASSUME ProxyInv, FieldInv, NEW d \in Download, startWithHandle(d)
    PROVE  FieldInv'
<1> DEFINE m == Msg("DidStart", home[d], d)
<1>1. m \in Message /\ m.name = "DidStart" /\ m.download = d
  BY DEF ProxyInv, ProxyTypes, Message, Msg, DownloadMessages, DownloadOrNone
<1>2. /\ phase[d] = "accepted" /\ phase' = [phase EXCEPT ![d] = "started"] /\ sent' = sent
      /\ m_functionQueue' = Append(m_functionQueue, m)
      /\ UNCHANGED <<dialog, currenttab, downloadfilename, bytesdownloaded, download_ref, sole>>
  BY DEF startWithHandle, Send, enqueue, fieldVars
<1> HIDE DEF m
<1>3. \A e \in Download : phase'[e] = IF e = d THEN "started" ELSE phase[e]
  BY <1>2 DEF ProxyInv, ProxyTypes
<1>4. ~Named(d)
  <2>1. sent[d] = 0
    BY <1>2 DEF FieldInv, EarlyEmpty
  <2>2. "DidFinish" \in DownloadMessages /\ "DidFinish" \in Final
    BY DEF DownloadMessages, Final
  <2>3. ~Has("DidFinish", d)
    BY <1>2, <2>2, MessageKnown
  <2> QED
    BY <1>2, <2>1, <2>3 DEF Named
<1> QED
  BY <1>1, <1>2, <1>3, <1>4, SendFields

\* The messages of the processes about their downloads.
LEMMA ProgressFields ==
    ASSUME ProxyInv, FieldInv, NEW d \in Download,
           receiveData(d) \/ endDownload(d) \/ cancelDownload(d)
    PROVE  FieldInv'
<1>1. ASSUME NEW name \in DownloadMessages
      PROVE  /\ Msg(name, home[d], d) \in Message
             /\ Msg(name, home[d], d).name = name /\ Msg(name, home[d], d).download = d
  BY DEF ProxyInv, ProxyTypes, Message, Msg, DownloadOrNone
<1>2. CASE receiveData(d)
  <2> DEFINE m == Msg("DidReceiveData", home[d], d)
  <2>1. m \in Message /\ m.name = "DidReceiveData" /\ m.download = d
    BY <1>1 DEF DownloadMessages
  <2>2. /\ phase[d] = "writing" /\ phase' = phase /\ sent[d] < MaxChunks
        /\ sent' = [sent EXCEPT ![d] = @ + 1]
        /\ m_functionQueue' = Append(m_functionQueue, m)
        /\ UNCHANGED <<dialog, currenttab, downloadfilename, bytesdownloaded, download_ref, sole>>
    BY <1>2 DEF receiveData, Send, enqueue, fieldVars
  <2> HIDE DEF m
  <2> QED
    BY <2>1, <2>2, SendFields
<1>3. ASSUME NEW name \in Final, Send(name, home[d], d), sent' = sent,
             phase' = [phase EXCEPT ![d] = "over"], name = "DidFinish" => phase[d] = "writing"
      PROVE  FieldInv'
  <2> DEFINE m == Msg(name, home[d], d)
  <2>1. m \in Message /\ m.name = name /\ m.download = d
    BY <1>1 DEF DownloadMessages, Final
  <2>2. /\ m_functionQueue' = Append(m_functionQueue, m)
        /\ UNCHANGED <<dialog, currenttab, downloadfilename, bytesdownloaded, download_ref, sole>>
    BY <1>3 DEF Send, enqueue, fieldVars
  <2>3. \A e \in Download : phase'[e] = IF e = d THEN "over" ELSE phase[e]
    BY <1>3 DEF ProxyInv, ProxyTypes
  <2>4. name # "DidStart" /\ name # "DidReceiveData"
    BY DEF Final
  <2> HIDE DEF m
  <2> QED
    BY <1>3, <2>1, <2>2, <2>3, <2>4, SendFields
<1>4. CASE endDownload(d)
  <2>1. phase' = [phase EXCEPT ![d] = "over"] /\ sent' = sent
    BY <1>4 DEF endDownload
  <2>2. \E name \in Final : Send(name, home[d], d) /\ (name = "DidFinish" => phase[d] = "writing")
    <3>1. CASE phase[d] = "writing" /\ Send("DidFinish", home[d], d)
      BY <3>1 DEF Final
    <3>2. CASE Send("DidFail", home[d], d)
      BY <3>2 DEF Final
    <3> QED
      BY <1>4, <3>1, <3>2 DEF endDownload
  <2> QED
    BY <1>3, <2>1, <2>2
<1>5. CASE cancelDownload(d)
  <2>1. CASE phase[d] \in {"started", "writing"}
    <3>1. Send("DidCancel", home[d], d) /\ phase' = [phase EXCEPT ![d] = "over"] /\ sent' = sent
      BY <1>5, <2>1 DEF cancelDownload
    <3>2. "DidCancel" \in Final
      BY DEF Final
    <3> QED
      BY <1>3, <3>1, <3>2
  <2>2. CASE phase[d] \notin {"started", "writing"}
    <3>1. UNCHANGED fieldsVars
      BY <1>5, <2>2 DEF cancelDownload, fieldsVars, queueVars, fieldVars
    <3> QED
      BY <3>1, FieldsUnchanged
  <2> QED
    BY <2>1, <2>2
<1> QED
  BY <1>2, <1>4, <1>5

\* A process dies in the middle of its downloads.
LEMMA CrashFields ==
    ASSUME ProxyInv, FieldInv, NEW t \in Tab, Crash(t)
    PROVE  FieldInv'
<1> DEFINE m == Msg("DidClose", t, None)
<1>1. m \in Message /\ m.name = "DidClose"
  BY DEF Message, Msg, DownloadOrNone
<1>2. /\ m_functionQueue' = Append(m_functionQueue, m)
      /\ UNCHANGED <<dialog, currenttab, downloadfilename, bytesdownloaded, download_ref, sent, sole>>
      /\ phase' = [d \in Download |->
                     IF home[d] = t /\ phase[d] # "new" THEN "over" ELSE phase[d]]
  BY DEF Crash, enqueue, fieldVars
<1>3. \A e \in Download : phase'[e] = phase[e] \/ phase'[e] = "over"
  BY <1>2
<1> HIDE DEF m
<1> QED
  BY <1>1, <1>2, <1>3, SendFields

\* decideDestinationWithSuggestedFilename: nothing is queued, so didStart has run.
LEMMA DestinationFields ==
    ASSUME ProxyInv, FieldInv, NEW d \in Download, decideDestinationWithSuggestedFilename(d)
    PROVE  FieldInv'
<1>1. /\ phase[d] = "started" /\ m_functionQueue = << >>
      /\ phase' = [phase EXCEPT ![d] = "writing"]
      /\ downloadfilename' = [downloadfilename EXCEPT ![currenttab] = d]
      /\ sole' = StillSole(d)
      /\ UNCHANGED <<m_functionQueue, dialog, currenttab, bytesdownloaded, download_ref, sent>>
  BY DEF decideDestinationWithSuggestedFilename, Request, queueVars
<1>2. \A e \in Download : phase'[e] = IF e = d THEN "writing" ELSE phase[e]
  BY <1>1 DEF ProxyInv, ProxyTypes
<1>3. sole' = None \/ (sole' = d /\ sole = d)
  BY <1>1 DEF StillSole
<1>4. None \notin Download
  BY DEF None, Download
<1>5. \A e \in Download : sole' = e => (e = d /\ sole = d)
  BY <1>3, <1>4
<1>6. downloadfilename'[currenttab] = d
  BY <1>1 DEF FieldInv, FieldTypes
<1>7. FieldTypes'
  BY <1>1, <1>3 DEF FieldInv, FieldTypes, DownloadOrNone
<1>8. EarlyEmpty'
  BY <1>1, <1>2 DEF FieldInv, EarlyEmpty
<1>9. StartFirst' /\ DataSent'
  BY <1>1 DEF StartFirst, DataSent, Has
<1>10. SoleNamed'
  BY <1>1, <1>5, <1>6 DEF SoleNamed
<1>11. SoleCount'
  BY <1>1, <1>5 DEF FieldInv, SoleCount, Waiting
<1>12. SoleDialog'
  BY <1>1, <1>5 DEF FieldInv, SoleDialog, Shown
<1>13. CountBounded'
  BY <1>1 DEF FieldInv, CountBounded, Waiting, Pieces
<1> QED
  BY <1>7, <1>8, <1>9, <1>10, <1>11, <1>12, <1>13 DEF FieldInv

-----------------------------------------------------------------------------
(* Steps of the UI process and of the user.                                *)

\* Whatever message is taken, the parts about the queue stay.
LEMMA TakenFields ==
    ASSUME ProxyInv, FieldInv, dequeue, UNCHANGED <<phase, sent>>
    PROVE  /\ EarlyEmpty' /\ StartFirst' /\ DataSent'
           /\ \A d \in Download : Named(d)' => Named(d)
<1>1. \A name, d : Has(name, d)' => Has(name, d)
  BY QueueTaken
<1>2. \A d \in Download : Named(d)' => Named(d)
  BY <1>1 DEF Named
<1>3. EarlyEmpty'
  BY DEF FieldInv, EarlyEmpty
<1>4. StartFirst'
  BY <1>1, <1>2 DEF FieldInv, StartFirst
<1>5. DataSent'
  BY <1>1 DEF FieldInv, DataSent
<1> QED
  BY <1>2, <1>3, <1>4, <1>5

\* didStart: the fields are those of the download from now on.
LEMMA StartFields ==
    ASSUME ProxyInv, FieldInv, takeFirst("DidStart"), didStart(Taken.download),
           UNCHANGED <<dialog, currenttab, downloadfilename, phase, sent>>
    PROVE  FieldInv'
<1>1. /\ dequeue /\ Taken.name = "DidStart"
      /\ bytesdownloaded' = [bytesdownloaded EXCEPT ![currenttab] = 0]
      /\ download_ref' = [download_ref EXCEPT ![currenttab] = Taken.download]
      /\ sole' = Taken.download
  BY DEF takeFirst, didStart
<1>2. PICK d : d = Taken.download
  OBVIOUS
<1>3. /\ Has("DidStart", d)
      /\ \A D : Cardinality(Waiting(D)) \in Nat /\ Cardinality(Waiting(D)') = Cardinality(Waiting(D))
  BY <1>1, <1>2, QueueTaken
<1>4. d \in Download /\ ~(Shown("open") /\ dialog.download = d)
  BY <1>3, MessageKnown DEF DownloadMessages
<1>5. ~Named(d)
  BY <1>3, <1>4 DEF FieldInv, StartFirst
<1>6. sent[d] = 0
  <2>1. sent[d] \in Nat /\ ~(sent[d] > 0)
    BY <1>4, <1>5 DEF FieldInv, FieldTypes, Named
  <2> QED
    BY <2>1
<1>7. Waiting({d}) = {}
  <2>1. ~Has("DidReceiveData", d)
    BY <1>4, <1>6 DEF FieldInv, DataSent
  <2> QED
    BY <2>1 DEF Has, Waiting
<1>8. /\ bytesdownloaded' \in [Tab -> Nat] /\ bytesdownloaded'[currenttab] = 0
      /\ \A t \in Tab : bytesdownloaded'[t] <= bytesdownloaded[t]
      /\ download_ref'[currenttab] = d
      /\ download_ref' \in [Tab -> DownloadOrNone]
  BY <1>1, <1>2, <1>4 DEF FieldInv, FieldTypes, DownloadOrNone
<1>9. FieldTypes'
  BY <1>1, <1>2, <1>4, <1>8 DEF FieldInv, FieldTypes, DownloadOrNone
<1>10. EarlyEmpty' /\ StartFirst' /\ DataSent' /\ \A e \in Download : Named(e)' => Named(e)
  BY <1>1, TakenFields
<1>11. SoleNamed'
  BY <1>1, <1>2, <1>5, <1>10 DEF SoleNamed
<1>12. SoleCount'
  <2>1. Cardinality(Waiting({d})') = 0
    BY <1>3, <1>7, FS_EmptySet
  <2>2. bytesdownloaded'[currenttab] + Cardinality(Waiting({d})') = sent[d]
    BY <1>6, <1>8, <2>1
  <2> QED
    BY <1>1, <1>2, <1>8, <2>2 DEF SoleCount
<1>13. SoleDialog'
  BY <1>1, <1>2, <1>4 DEF SoleDialog, Shown
<1>14. CountBounded'
  <2> SUFFICES ASSUME NEW t \in Tab
               PROVE  bytesdownloaded'[t] + Cardinality(Waiting(Download)') <= Cardinality(Pieces)
    BY DEF CountBounded, Pieces
  <2>1. bytesdownloaded[t] + Cardinality(Waiting(Download)) <= Cardinality(Pieces)
    BY DEF FieldInv, CountBounded
  <2>2. bytesdownloaded[t] \in Nat /\ bytesdownloaded'[t] \in Nat
    BY <1>8 DEF FieldInv, FieldTypes
  <2>3. Cardinality(Pieces) \in Nat
    BY PiecesFinite DEF FieldInv, FieldTypes
  <2> QED
    BY <1>3, <1>8, <2>1, <2>2, <2>3
<1> QED
  BY <1>9, <1>10, <1>11, <1>12, <1>13, <1>14 DEF FieldInv

\* didReceiveData: the current tab counts what leaves the queue.
LEMMA DataFields ==
    ASSUME ProxyInv, FieldInv, takeFirst("DidReceiveData"), didReceiveData(Taken.download),
           UNCHANGED <<dialog, currenttab, downloadfilename, phase, sent>>
    PROVE  FieldInv'
<1>1. /\ dequeue /\ Taken.name = "DidReceiveData"
      /\ bytesdownloaded' = [bytesdownloaded EXCEPT ![currenttab] = @ + 1]
      /\ sole' = StillSole(Taken.download)
      /\ download_ref' = download_ref
  BY DEF takeFirst, didReceiveData
<1>2. PICK d : d = Taken.download
  OBVIOUS
<1>3. /\ Has("DidReceiveData", d)
      /\ \A D : /\ Cardinality(Waiting(D)) \in Nat
                /\ d \in D => Cardinality(Waiting(D)') = Cardinality(Waiting(D)) - 1
  BY <1>1, <1>2, QueueTaken
<1>4. d \in Download
  BY <1>3, MessageKnown DEF DownloadMessages
<1>5. sole' = None \/ (sole' = d /\ sole = d)
  BY <1>1, <1>2 DEF StillSole
<1>6. None \notin Download
  BY DEF None, Download
<1>7. \A e \in Download : sole' = e => (e = d /\ sole = d)
  BY <1>5, <1>6
<1>8. /\ bytesdownloaded' \in [Tab -> Nat]
      /\ bytesdownloaded'[currenttab] = bytesdownloaded[currenttab] + 1
      /\ \A t \in Tab : bytesdownloaded'[t] <= bytesdownloaded[t] + 1
  BY <1>1 DEF FieldInv, FieldTypes
<1>9. FieldTypes'
  BY <1>1, <1>4, <1>5, <1>8 DEF FieldInv, FieldTypes, DownloadOrNone
<1>10. EarlyEmpty' /\ StartFirst' /\ DataSent' /\ \A e \in Download : Named(e)' => Named(e)
  BY <1>1, TakenFields
<1>11. SoleNamed'
  BY <1>7, <1>10 DEF FieldInv, SoleNamed
<1>12. SoleCount'
  <2>1. ASSUME sole = d
        PROVE  /\ bytesdownloaded'[currenttab] + Cardinality(Waiting({d})') = sent[d]
               /\ download_ref[currenttab] = d
    <3>1. /\ bytesdownloaded[currenttab] + Cardinality(Waiting({d})) = sent[d]
          /\ download_ref[currenttab] = d
      BY <1>4, <2>1 DEF FieldInv, SoleCount
    <3>2. bytesdownloaded[currenttab] \in Nat /\ sent[d] \in Nat
      BY <1>4 DEF FieldInv, FieldTypes
    <3>3. /\ Cardinality(Waiting({d})) \in Nat
          /\ Cardinality(Waiting({d})') = Cardinality(Waiting({d})) - 1
      BY <1>3
    <3> QED
      BY <1>8, <3>1, <3>2, <3>3
  <2> QED
    BY <1>1, <1>7, <2>1 DEF SoleCount
<1>13. SoleDialog'
  BY <1>7 DEF FieldInv, SoleDialog, Shown
<1>14. CountBounded'
  <2> SUFFICES ASSUME NEW t \in Tab
               PROVE  bytesdownloaded'[t] + Cardinality(Waiting(Download)') <= Cardinality(Pieces)
    BY DEF CountBounded, Pieces
  <2>1. bytesdownloaded[t] + Cardinality(Waiting(Download)) <= Cardinality(Pieces)
    BY DEF FieldInv, CountBounded
  <2>2. bytesdownloaded[t] \in Nat /\ bytesdownloaded'[t] \in Nat
    BY <1>8 DEF FieldInv, FieldTypes
  <2>3. Cardinality(Pieces) \in Nat
    BY PiecesFinite DEF FieldInv, FieldTypes
  <2>4. /\ Cardinality(Waiting(Download)) \in Nat
        /\ Cardinality(Waiting(Download)') = Cardinality(Waiting(Download)) - 1
    BY <1>3, <1>4
  <2> QED
    BY <1>8, <2>1, <2>2, <2>3, <2>4
<1> QED
  BY <1>9, <1>10, <1>11, <1>12, <1>13, <1>14 DEF FieldInv

\* The handlers that write to no field: the sole download stays or gives way.
LEMMA OtherFields ==
    ASSUME ProxyInv, FieldInv, dequeue, Taken.name # "DidReceiveData",
           UNCHANGED <<currenttab, downloadfilename, bytesdownloaded, download_ref, phase, sent>>,
           sole' = None \/ sole' = sole,
           SoleDialog'
    PROVE  FieldInv'
<1>1. \A D : Cardinality(Waiting(D)) \in Nat /\ Cardinality(Waiting(D)') = Cardinality(Waiting(D))
  BY QueueTaken
<1>2. None \notin Download
  BY DEF None, Download
<1>3. FieldTypes'
  BY DEF FieldInv, FieldTypes, DownloadOrNone
<1>4. EarlyEmpty' /\ StartFirst' /\ DataSent' /\ \A e \in Download : Named(e)' => Named(e)
  BY TakenFields
<1>5. SoleNamed'
  BY <1>2, <1>4 DEF FieldInv, SoleNamed
<1>6. SoleCount'
  BY <1>1, <1>2 DEF FieldInv, SoleCount
<1>7. CountBounded'
  BY <1>1 DEF FieldInv, CountBounded, Pieces
<1> QED
  BY <1>3, <1>4, <1>5, <1>6, <1>7 DEF FieldInv

\* didFinish: the question is about the file of the sole download, and a second
\* question never overwrites its path, because the download is not sole then.
LEMMA FinishFields ==
    ASSUME ProxyInv, FieldInv, handleDidFinish
    PROVE  FieldInv'
<1>1. /\ dequeue /\ Taken.name = "DidFinish" /\ didFinish(Taken.download)
      /\ sole' = StillSole(Taken.download)
      /\ UNCHANGED <<currenttab, downloadfilename, bytesdownloaded, download_ref, phase, sent>>
  BY DEF handleDidFinish, takeFirst, fieldVars, webVars
<1>2. PICK d : d = Taken.download
  OBVIOUS
<1>3. Has("DidFinish", d)
  BY <1>1, <1>2, QueueTaken
<1>4. d \in Download /\ ~(Shown("open") /\ dialog.download = d)
  BY <1>3, MessageKnown DEF DownloadMessages
<1>5. sole' = None \/ (sole' = d /\ sole = d)
  BY <1>1, <1>2 DEF StillSole
<1>6. None \notin Download
  BY DEF None, Download
<1>7. \A e \in Download : sole' = e => (e = d /\ sole = d)
  BY <1>5, <1>6
<1>8. sole = d => downloadfilename[currenttab] = d
  BY <1>3, <1>4 DEF FieldInv, SoleNamed, Named
<1> DEFINE file == downloadfilename[currenttab]
<1>9. SoleDialog'
  <2>1. CASE dialog' = Question("open", home[d], d, file, file)
    <3>1. dialog'.file = file /\ dialog'.buf = file
      BY <2>1 DEF Question
    <3> QED
      BY <1>7, <1>8, <3>1 DEF SoleDialog
  <2>2. CASE dialog # NoDialog /\ dialog' = [dialog EXCEPT !.buf = file]
    <3>1. IsQuestion(dialog)
      BY <2>2 DEF ProxyInv, ProxyTypes
    <3>2. dialog' = [kind |-> dialog.kind, tab |-> dialog.tab, download |-> dialog.download,
                     file |-> dialog.file, buf |-> file]
      BY <2>2, <3>1 DEF IsQuestion
    <3> HIDE DEF file
    <3>3. dialog'.download = dialog.download /\ dialog'.kind = dialog.kind
      BY <3>2
    <3> QED
      BY <1>4, <1>7, <2>2, <3>3 DEF SoleDialog, Shown
  <2> QED
    BY <1>1, <1>2, <2>1, <2>2 DEF didFinish, show
<1> QED
  BY <1>1, <1>5, <1>9, OtherFields

\* The handlers of the UI process.
LEMMA HandlersFields ==
    ASSUME ProxyInv, FieldInv, Handle
    PROVE  FieldInv'
<1>1. CASE handleProgress
  <2>1. UNCHANGED <<dialog, currenttab, downloadfilename, phase, sent>>
    BY <1>1 DEF handleProgress, webVars
  <2> QED
    BY <1>1, <2>1, StartFields, DataFields DEF handleProgress
<1>2. CASE handleDidFinish
  BY <1>2, FinishFields
<1>3. CASE handleOver \/ handleDidClose
  <2>1. /\ dequeue /\ Taken.name # "DidReceiveData"
        /\ UNCHANGED <<dialog, currenttab, downloadfilename, bytesdownloaded, download_ref,
                       phase, sent, sole>>
    BY <1>3 DEF handleOver, handleDidClose, takeFirst, fieldVars, webVars
  <2>2. SoleDialog'
    BY <2>1 DEF FieldInv, SoleDialog, Shown
  <2> QED
    BY <2>1, <2>2, OtherFields
<1> QED
  BY <1>1, <1>2, <1>3 DEF Handle

\* A change of the question or of the tab; no download is sole in another tab.
LEMMA UserFields ==
    ASSUME FieldInv,
           UNCHANGED <<m_functionQueue, downloadfilename, bytesdownloaded, download_ref, phase, sent>>,
           currenttab' \in Tab, sole' = None \/ (sole' = sole /\ currenttab' = currenttab),
           SoleDialog'
    PROVE  FieldInv'
<1>1. None \notin Download
  BY DEF None, Download
<1>2. FieldTypes'
  BY DEF FieldInv, FieldTypes, DownloadOrNone
<1>3. EarlyEmpty' /\ DataSent'
  BY DEF FieldInv, EarlyEmpty, DataSent, Has
<1>4. \A d \in Download : Named(d)' <=> Named(d)
  BY DEF Named, Has
<1>5. StartFirst'
  BY <1>4 DEF FieldInv, StartFirst, Has
<1>6. SoleNamed'
  BY <1>1, <1>4 DEF FieldInv, SoleNamed
<1>7. SoleCount'
  BY <1>1 DEF FieldInv, SoleCount, Waiting
<1>8. CountBounded'
  BY DEF FieldInv, CountBounded, Waiting, Pieces
<1> QED
  BY <1>2, <1>3, <1>5, <1>6, <1>7, <1>8 DEF FieldInv

\* Every step keeps the invariant of the fields.
LEMMA NextFields ==
    ASSUME ProxyInv, FieldInv, [Next]_vars
    PROVE  FieldInv'
<1>1. CASE Handle
  BY <1>1, HandlersFields
<1>2. ASSUME NEW d \in Download, receiveData(d) \/ endDownload(d) \/ cancelDownload(d)
      PROVE  FieldInv'
  BY <1>2, ProgressFields
<1>3. ASSUME NEW d \in Download, decideDestinationWithSuggestedFilename(d) \/ startWithHandle(d)
      PROVE  FieldInv'
  BY <1>3, DestinationFields, StartSentFields
<1>4. ASSUME NEW t \in Tab, Respond(t) PROVE FieldInv'
  <2>1. /\ decidePolicyForResponse(t)
        /\ UNCHANGED <<m_functionQueue, dialog, currenttab, downloadfilename, bytesdownloaded,
                       download_ref, sent, sole>>
    BY <1>4 DEF Respond, queueVars
  <2> QED
    BY <2>1, PolicyFields
<1>5. CASE RespondToTarget
  <2>1. /\ target \in Tab /\ decidePolicyForResponse(target)
        /\ UNCHANGED <<m_functionQueue, dialog, currenttab, downloadfilename, bytesdownloaded,
                       download_ref, sent, sole>>
    BY <1>5 DEF RespondToTarget, queueVars
  <2> QED
    BY <2>1, PolicyFields
<1>6. ASSUME NEW t \in Tab, Crash(t) PROVE FieldInv'
  BY <1>6, CrashFields
<1>7. ASSUME NEW t \in Tab, runJavaScriptConfirm(t) PROVE FieldInv'
  <2>1. UNCHANGED <<m_functionQueue, currenttab, downloadfilename, bytesdownloaded, download_ref,
                    phase, sent, sole>>
    BY <1>7 DEF runJavaScriptConfirm, fieldVars, webVars
  <2>2. CASE dialog' = dialog
    BY <2>1, <2>2, FieldsUnchanged DEF fieldsVars
  <2>3. CASE dialog' = Question("script", t, None, None, None)
    <3>1. dialog'.kind # "open"
      BY <2>3 DEF Question
    <3>2. SoleDialog'
      BY <3>1 DEF SoleDialog, Shown
    <3>3. currenttab' \in Tab
      BY <2>1 DEF FieldInv, FieldTypes
    <3> QED
      BY <2>1, <3>2, <3>3, UserFields
  <2> QED
    BY <1>7, <2>2, <2>3 DEF runJavaScriptConfirm, show, showNothing
<1>8. CASE answer
  <2>1. /\ dialog' = NoDialog
        /\ UNCHANGED <<m_functionQueue, currenttab, downloadfilename, bytesdownloaded, download_ref,
                       phase, sent, sole>>
    BY <1>8 DEF answer, hide, fieldVars, webVars
  <2>2. SoleDialog' /\ currenttab' \in Tab
    BY <2>1 DEF FieldInv, FieldTypes, SoleDialog, Shown
  <2> QED
    BY <2>1, <2>2, UserFields
<1>9. ASSUME NEW t \in Tab, selectTab(t) PROVE FieldInv'
  <2>1. /\ currenttab' = t /\ sole' = None
        /\ UNCHANGED <<m_functionQueue, dialog, downloadfilename, bytesdownloaded, download_ref,
                       phase, sent>>
    BY <1>9 DEF selectTab, queueVars, fieldVars, webVars
  <2>2. SoleDialog'
    BY <2>1 DEF SoleDialog, None, Download
  <2> QED
    BY <2>1, <2>2, UserFields
<1>10. CASE FailTarget \/ download_file \/ cb_stop_xfer \/ UNCHANGED vars
  <2>1. UNCHANGED fieldsVars
    BY <1>10 DEF FailTarget, download_file, cb_stop_xfer, vars, queueVars, fieldVars, webVars,
                 fieldsVars
  <2> QED
    BY <2>1, FieldsUnchanged
<1> QED
  BY <1>1, <1>2, <1>3, <1>4, <1>5, <1>6, <1>7, <1>8, <1>9, <1>10
  DEF Next, Obey, User, Network

\* At start nothing is queued, sent or counted, and no download is sole.
LEMMA InitFields == Init => FieldInv
<1> SUFFICES ASSUME Init PROVE FieldInv
  OBVIOUS
<1>1. m_functionQueue = << >> /\ dialog = NoDialog /\ sole = None
  BY DEF Init, QueueInit
<1>2. 0 \in Tab /\ MaxChunks \in Nat /\ None \notin Download
  BY DownloadsAssumption DEF Tab, None, Download
<1>3. FieldTypes
  BY <1>2 DEF Init, FieldTypes, DownloadOrNone
<1>4. EarlyEmpty
  BY DEF Init, EarlyEmpty
<1>5. StartFirst /\ DataSent
  BY <1>1 DEF StartFirst, DataSent, Has
<1>6. SoleNamed /\ SoleCount /\ SoleDialog
  BY <1>1, <1>2 DEF SoleNamed, SoleCount, SoleDialog
<1>7. CountBounded
  <2>1. Waiting(Download) = {}
    BY <1>1 DEF Waiting
  <2>2. Cardinality(Waiting(Download)) = 0
    BY <2>1, FS_EmptySet
  <2>3. Cardinality(Pieces) \in Nat
    BY <1>3, PiecesFinite DEF FieldTypes
  <2>4. \A t \in Tab : bytesdownloaded[t] = 0
    BY DEF Init
  <2> QED
    BY <2>2, <2>3, <2>4 DEF CountBounded
<1> QED
  BY <1>3, <1>4, <1>5, <1>6, <1>7 DEF FieldInv

\* The invariant says of the sole download what SoleDownloadExact says.
LEMMA FieldsExact ==
    ASSUME ProxyInv, FieldInv
    PROVE  SoleDownloadExact
<1> SUFFICES ASSUME sole # None PROVE
        /\ bytesdownloaded[currenttab]
             = sent[sole] - Cardinality({k \in Queued("DidReceiveData") :
                                           m_functionQueue[k].download = sole})
        /\ download_ref[currenttab] = sole
        /\ bytesdownloaded[currenttab] > 0 => downloadfilename[currenttab] = sole
        /\ (Shown("open") /\ dialog.download = sole) => (dialog.file = sole /\ dialog.buf = sole)
  BY DEF SoleDownloadExact
<1>1. sole \in Download
  BY DEF FieldInv, FieldTypes, DownloadOrNone
<1>2. {k \in Queued("DidReceiveData") : m_functionQueue[k].download = sole} = Waiting({sole})
  BY DEF Queued, Waiting
<1>3. /\ bytesdownloaded[currenttab] + Cardinality(Waiting({sole})) = sent[sole]
      /\ download_ref[currenttab] = sole
  BY <1>1 DEF FieldInv, SoleCount
<1>4. bytesdownloaded[currenttab] \in Nat /\ sent[sole] \in Nat
  BY <1>1 DEF FieldInv, FieldTypes
<1>5. Cardinality(Waiting({sole})) \in Nat
  <2>1. Len(m_functionQueue) \in Nat
    BY LenProperties DEF ProxyInv, ProxyTypes
  <2>2. Waiting({sole}) \in SUBSET (1 .. Len(m_functionQueue))
    BY DEF Waiting
  <2> QED
    BY <2>1, <2>2, PositionsFinite
<1>6. bytesdownloaded[currenttab] = sent[sole] - Cardinality(Waiting({sole}))
  BY <1>3, <1>4, <1>5
<1>7. bytesdownloaded[currenttab] > 0 => downloadfilename[currenttab] = sole
  <2> SUFFICES ASSUME bytesdownloaded[currenttab] > 0
               PROVE  downloadfilename[currenttab] = sole
    OBVIOUS
  <2>1. sent[sole] > 0
    BY <1>3, <1>4, <1>5
  <2> QED
    BY <1>1, <2>1 DEF FieldInv, SoleNamed, Named
<1>8. (Shown("open") /\ dialog.download = sole) => (dialog.file = sole /\ dialog.buf = sole)
  BY <1>1 DEF FieldInv, SoleDialog
<1> QED
  BY <1>2, <1>3, <1>6, <1>7, <1>8

\* didStart, didReceiveData, decideDestinationWithSuggestedFilename, didFinish: as
\* long as the user stays on the tab and no other download has a callback, count,
\* reference and file name are those of the download, with any number of tabs,
\* downloads and crashes and whatever is still in the queue.
THEOREM FieldsOfSoleDownload == Spec => []SoleDownloadExact
<1>1. Init => ProxyInv /\ FieldInv
  BY InitProxyInv, InitFields
<1>2. ProxyInv /\ FieldInv /\ [Next]_vars => (ProxyInv /\ FieldInv)'
  BY NextProxyInv, NextFields
<1>3. ProxyInv /\ FieldInv => SoleDownloadExact
  BY FieldsExact
<1> QED
  BY <1>1, <1>2, <1>3, PTL DEF Spec

-----------------------------------------------------------------------------
(* Type correctness.                                                       *)

\* The parts of the type invariant that the other invariants do not need.
RestTypes ==
    /\ dialog # NoDialog => dialog.kind \in {"script", "open"}
    /\ m_downloads \subseteq 1 .. uniqueDownloadID
    /\ cancels \subseteq Download
    /\ overtaken \in BOOLEAN

\* The four invariants together are the type invariant.
LEMMA TypesTogether ==
    ASSUME FlagInv, ProxyInv, FieldInv, RestTypes
    PROVE  TypeOK
<1>1. bytesdownloaded \in [Tab -> 0 .. MaxDownloads * MaxChunks]
  <2>1. ASSUME NEW t \in Tab PROVE bytesdownloaded[t] \in 0 .. MaxDownloads * MaxChunks
    <3>1. bytesdownloaded[t] + Cardinality(Waiting(Download)) <= Cardinality(Pieces)
      BY DEF FieldInv, CountBounded
    <3>2. bytesdownloaded[t] \in Nat
      BY DEF FieldInv, FieldTypes
    <3>3. Cardinality(Pieces) \in Nat /\ Cardinality(Pieces) <= MaxDownloads * MaxChunks
      BY PiecesFinite DEF FieldInv, FieldTypes
    <3>4. Cardinality(Waiting(Download)) \in Nat
      <4>1. Len(m_functionQueue) \in Nat
        BY LenProperties DEF ProxyInv, ProxyTypes
      <4>2. Waiting(Download) \in SUBSET (1 .. Len(m_functionQueue))
        BY DEF Waiting
      <4> QED
        BY <4>1, <4>2, PositionsFinite
    <3> DEFINE bound == MaxDownloads * MaxChunks
    <3>5. bound \in Nat
      BY DownloadsAssumption
    <3> HIDE DEF bound
    <3>6. Cardinality(Pieces) <= bound
      BY <3>3 DEF bound
    <3>7. bytesdownloaded[t] \in 0 .. bound
      BY <3>1, <3>2, <3>3, <3>4, <3>5, <3>6
    <3> QED
      BY <3>7 DEF bound
  <2>2. bytesdownloaded \in [Tab -> Nat]
    BY DEF FieldInv, FieldTypes
  <2> QED
    BY <2>1, <2>2
<1> QED
  BY <1>1 DEF FlagInv, FlagTypes, ProxyInv, ProxyTypes, FieldInv, FieldTypes, RestTypes, TypeOK

\* Every step keeps the rest of the types; a cancel is for a download with a proxy.
LEMMA NextRest ==
    ASSUME ProxyInv, RestTypes, [Next]_vars
    PROVE  RestTypes'
<1>1. /\ dialog # NoDialog => (dialog.kind \in {"script", "open"} /\ IsQuestion(dialog))
      /\ uniqueDownloadID \in 0 .. MaxDownloads
  BY DownloadsAssumption DEF RestTypes, ProxyInv, ProxyTypes, DownloadOrNone, Download, None
<1>2. m_downloads \subseteq Download
  BY <1>1, DownloadsAssumption DEF RestTypes, Download
<1>3. CASE Handle
  <2>1. /\ m_downloads' \subseteq m_downloads
        /\ UNCHANGED <<uniqueDownloadID, cancels, overtaken>>
    BY <1>3 DEF Handle, handleProgress, handleDidFinish, didFinish, handleOver, downloadFinished,
                handleDidClose, proxyVars, webVars
  <2>2. dialog' # NoDialog => dialog'.kind \in {"script", "open"}
    <3>1. CASE dialog' = dialog
      BY <1>1, <3>1
    <3>2. CASE handleDidFinish
      <4> DEFINE file == downloadfilename[currenttab]
      <4>1. CASE dialog' = Question("open", home[Taken.download], Taken.download, file, file)
        BY <4>1 DEF Question
      <4>2. CASE dialog # NoDialog /\ dialog' = [dialog EXCEPT !.buf = file]
        <5>1. dialog' = [kind |-> dialog.kind, tab |-> dialog.tab, download |-> dialog.download,
                         file |-> dialog.file, buf |-> file]
          BY <1>1, <4>2 DEF IsQuestion
        <5> HIDE DEF file
        <5>2. dialog'.kind = dialog.kind
          BY <5>1
        <5> QED
          BY <1>1, <4>2, <5>2
      <4> QED
        BY <3>2, <4>1, <4>2 DEF handleDidFinish, didFinish, show
    <3> QED
      BY <1>3, <3>1, <3>2 DEF Handle, handleProgress, handleOver, handleDidClose
  <2> QED
    BY <2>1, <2>2 DEF RestTypes
<1>4. ASSUME NEW t \in Tab, decidePolicyForResponse(t), UNCHANGED <<dialog, cancels>>,
             overtaken' \in BOOLEAN
      PROVE  RestTypes'
  <2>1. \/ /\ uniqueDownloadID' = uniqueDownloadID + 1
           /\ m_downloads' = m_downloads \cup {uniqueDownloadID + 1}
        \/ UNCHANGED <<uniqueDownloadID, m_downloads>>
    BY <1>4 DEF decidePolicyForResponse, createDownloadProxy, ShowOrIgnore, proxyVars
  <2>2. m_downloads \subseteq 1 .. uniqueDownloadID
    BY DEF RestTypes
  <2>3. uniqueDownloadID \in Nat
    BY <1>1
  <2>4. m_downloads \cup {uniqueDownloadID + 1} \subseteq 1 .. (uniqueDownloadID + 1)
    BY <2>2, <2>3
  <2>5. m_downloads' \subseteq 1 .. uniqueDownloadID'
    <3>1. CASE /\ uniqueDownloadID' = uniqueDownloadID + 1
               /\ m_downloads' = m_downloads \cup {uniqueDownloadID + 1}
      BY <2>4, <3>1
    <3>2. CASE UNCHANGED <<uniqueDownloadID, m_downloads>>
      BY <2>2, <3>2
    <3> QED
      BY <2>1, <3>1, <3>2
  <2> QED
    BY <1>4, <2>5 DEF RestTypes
<1>5. ASSUME NEW t \in Tab, Respond(t) PROVE RestTypes'
  <2>1. decidePolicyForResponse(t) /\ UNCHANGED <<dialog, cancels>> /\ overtaken' \in BOOLEAN
    BY <1>5 DEF Respond, queueVars
  <2> QED
    BY <1>4, <2>1
<1>6. CASE RespondToTarget
  <2>1. /\ target \in Tab /\ decidePolicyForResponse(target)
        /\ UNCHANGED <<dialog, cancels>> /\ overtaken' \in BOOLEAN
    BY <1>6 DEF RespondToTarget, queueVars
  <2> QED
    BY <1>4, <2>1
<1>7. ASSUME NEW t \in Tab, Crash(t) PROVE RestTypes'
  <2>1. /\ UNCHANGED <<dialog, uniqueDownloadID, m_downloads>>
        /\ cancels' \subseteq cancels /\ overtaken' \in BOOLEAN
    BY <1>7 DEF Crash, proxyVars
  <2> QED
    BY <2>1 DEF RestTypes
<1>8. ASSUME NEW t \in Tab, runJavaScriptConfirm(t) PROVE RestTypes'
  <2>1. UNCHANGED <<uniqueDownloadID, m_downloads, cancels, overtaken>>
    BY <1>8 DEF runJavaScriptConfirm, proxyVars, webVars
  <2>2. dialog' = dialog \/ dialog' = Question("script", t, None, None, None)
    BY <1>8 DEF runJavaScriptConfirm, show, showNothing
  <2>3. dialog' = dialog \/ dialog'.kind = "script"
    BY <2>2 DEF Question
  <2> QED
    BY <2>1, <2>3 DEF RestTypes
<1>9. ASSUME NEW d \in Download,
             \/ decideDestinationWithSuggestedFilename(d)
             \/ receiveData(d) \/ endDownload(d) \/ startWithHandle(d) \/ cancelDownload(d)
      PROVE  RestTypes'
  <2>1. UNCHANGED <<dialog, uniqueDownloadID, m_downloads, overtaken>> /\ cancels' \subseteq cancels
    BY <1>9 DEF decideDestinationWithSuggestedFilename, receiveData, endDownload, startWithHandle,
                cancelDownload, Send, queueVars, proxyVars
  <2> QED
    BY <2>1 DEF RestTypes
<1>10. ASSUME NEW t \in Tab, selectTab(t) PROVE RestTypes'
  <2>1. UNCHANGED <<dialog, uniqueDownloadID, m_downloads, cancels, overtaken>>
    BY <1>10 DEF selectTab, queueVars, proxyVars, webVars
  <2> QED
    BY <2>1 DEF RestTypes
<1>11. CASE cb_stop_xfer
  <2>1. /\ UNCHANGED <<dialog, uniqueDownloadID, m_downloads, overtaken>>
        /\ cancels' \subseteq cancels \cup m_downloads
    BY <1>11 DEF cb_stop_xfer, WKDownloadCancel, queueVars, proxyVars
  <2> QED
    BY <1>2, <2>1 DEF RestTypes
<1>12. CASE answer
  <2>1. /\ dialog' = NoDialog /\ m_downloads' \subseteq m_downloads
        /\ UNCHANGED <<uniqueDownloadID, cancels, overtaken>>
    BY <1>12 DEF answer, hide, webVars
  <2> QED
    BY <2>1 DEF RestTypes
<1>13. CASE FailTarget \/ download_file \/ UNCHANGED vars
  <2>1. /\ UNCHANGED <<dialog, uniqueDownloadID, m_downloads, cancels>>
        /\ overtaken' = FALSE \/ overtaken' = overtaken
    BY <1>13 DEF FailTarget, download_file, vars, queueVars, proxyVars, webVars
  <2> QED
    BY <2>1 DEF RestTypes
<1> QED
  BY <1>3, <1>5, <1>6, <1>7, <1>8, <1>9, <1>10, <1>11, <1>12, <1>13
  DEF Next, Obey, User, Network

\* Type correctness of program, proxies and processes, for any number of tabs,
\* downloads, pieces and crashes: no number is given that is not in the map, and
\* no tab ever counts more data than all downloads together have sent.
THEOREM DownloadsTypeCorrect == Spec => []TypeOK
<1> DEFINE All == FlagInv /\ ProxyInv /\ FieldInv /\ RestTypes
<1>1. Init => All
  <2> SUFFICES ASSUME Init PROVE All
    OBVIOUS
  <2>1. FlagInv
    BY InitFlag
  <2>2. ProxyInv /\ FieldInv
    BY InitProxyInv, InitFields
  <2>3. RestTypes
    BY DEF Init, QueueInit, RestTypes
  <2> QED
    BY <2>1, <2>2, <2>3
<1>2. All /\ [Next]_vars => All'
  BY NextFlag, NextProxyInv, NextFields, NextRest
<1>3. All => TypeOK
  BY TypesTogether
<1> QED
  BY <1>1, <1>2, <1>3, PTL DEF Spec
====
