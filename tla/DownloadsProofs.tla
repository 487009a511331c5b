--------------------------- MODULE DownloadsProofs ---------------------------
(* Proofs about Artifacts and Downloads, for every selection, file name,   *)
(* number of requests, lifetime, clock and signing time.                   *)
(*                                                                         *)
(* One inductive invariant follows the job's files from the worker that    *)
(* stores them to the row that names them, a second one the links from the *)
(* row a request read to the cache and to the answers taken from it.       *)
EXTENDS Downloads, StagesProofs, SequenceTheorems

USE ArtifactsAssumption, DownloadsAssumption

-----------------------------------------------------------------------------
(* The inductive invariants.                                               *)

(* What a stage returns: the name or names of what it stored, and the key  *)
(* of the object or of its folder.                                         *)
IsFile(n) == n # NoName /\ n.ext # ""

IsMetadata(s, data) ==
    IF s = "separate"
    THEN \E a, b : /\ IsFile(a) /\ IsFile(b)
                   /\ data = [s3_key |-> <<Directory(s)>>,
                              first_filename |-> a, second_filename |-> b]
    ELSE \E f : /\ IsFile(f)
                /\ data = [s3_key |-> <<Directory(s), f>>, filename |-> f]

Links(s, data) == StageLinks(<<s, data>>)

ResultInv ==
    result # NoResult =>
        /\ result.completed_stage \in selected
        /\ IsMetadata(result.completed_stage, result.stage_data)

MessageInv ==
    message # NoMessage => /\ message.requested_stage \in selected
                           /\ result = NoResult

(* The bucket holds what the row names, and what the result on its way     *)
(* back is about to name.                                                  *)
BucketInv ==
    bucket = DownloadLinks \cup
             (IF result # NoResult THEN Links(result.completed_stage, result.stage_data)
                                   ELSE {})

CompletedInv == completed => message = NoMessage /\ result = NoResult

ArtifactsInv ==
    /\ selected \in Selections /\ completed \in BOOLEAN
    /\ \E S : stages \in Seq(S)
    /\ ResultInv /\ MessageInv /\ BucketInv /\ CompletedInv /\ MessageIsUsable

(* A request signs what the job has, all of it, and only once it has it.   *)
SigningInv ==
    \A r \in Requests :
        /\ pc[r] \in {"sign", "store"} =>
              completed /\ {l.key : l \in links[r]} \cup unsigned[r] = bucket
        /\ pc[r] = "sign" => unsigned[r] # {}
        /\ pc[r] # "sign" => unsigned[r] = {}
        /\ pc[r] = "row" => links[r] = {}

CacheInv == cache.until > 0 => completed /\ {l.key : l \in cache.links} = bucket

(* A link was signed after its request had read the row, which is not long *)
(* ago; a cached one outlives its entry but for that time.                 *)
TimeInv ==
    /\ \A r \in Requests : \A l \in links[r] : l.expires \in Nat
    /\ \A r \in Requests : pc[r] \in {"sign", "store"} =>
          /\ began[r] <= now /\ now <= began[r] + SigningTime
          /\ \A l \in links[r] : began[r] + DownloadTtl < l.expires + TicksPerSecond
    /\ cache.until \in Nat
    /\ \A l \in cache.links :
          /\ l.expires \in Nat
          /\ cache.until < l.expires + SigningTime + TicksPerSecond

RequestsInv ==
    /\ DownloadsTypeOK /\ DOMAIN links = Requests /\ DOMAIN unsigned = Requests
    /\ SigningInv /\ CacheInv /\ AnswersAreWhole /\ TimeInv

DownloadsInv == ArtifactsInv /\ RequestsInv

-----------------------------------------------------------------------------
(* Names, keys and metadata.                                               *)

(* A file name is told from a directory and from the absent name by its    *)
(* extension.                                                              *)
LEMMA ExtendedIsFile ==
    ASSUME NEW n, NEW part, NEW ext \in {".wav", ".txt"}
    PROVE  IsFile(Extended(n, part, ext))
<1>1. Extended(n, part, ext).ext = ext /\ NoName.ext = "" /\ ext # ""
  BY DEF Extended, NoName
<1> QED
  BY <1>1 DEF IsFile

(* Short sequences.                                                        *)
LEMMA Pairs ==
    ASSUME NEW x, NEW y
    PROVE  /\ Last(<<x>>) = x /\ Last(<<x, y>>) = y
           /\ Append(<<x>>, y) = <<x, y>>
           /\ Front(<<x, y>>) = <<x>>
<1>1. Last(<<x>>) = x /\ Last(<<x, y>>) = y
  BY DEF Last
<1>2. <<x>> \in Seq({x, y}) /\ <<x, y>> \in Seq({x, y})
  OBVIOUS
<1>3. Append(<<x>>, y) = <<x, y>>
  <2>1. /\ Append(<<x>>, y) \in Seq({x, y}) /\ Len(Append(<<x>>, y)) = 2
        /\ Append(<<x>>, y)[1] = x /\ Append(<<x>>, y)[2] = y
    BY <1>2
  <2>2. Len(<<x, y>>) = 2 /\ <<x, y>>[1] = x /\ <<x, y>>[2] = y
    OBVIOUS
  <2>3. PICK a, b : a = Append(<<x>>, y) /\ b = <<x, y>>
    OBVIOUS
  <2>4. \A i \in 1 .. Len(a) : a[i] = b[i]
    <3>1. \A i \in 1 .. 2 : i = 1 \/ i = 2
      OBVIOUS
    <3> QED
      BY <2>1, <2>2, <2>3, <3>1
  <2>5. a \in Seq({x, y}) /\ b \in Seq({x, y}) /\ Len(a) = Len(b)
    BY <1>2, <2>1, <2>2, <2>3
  <2>6. a = b
    BY <2>4, <2>5, SeqEqual
  <2> QED
    BY <2>3, <2>6
<1>4. Front(<<x, y>>) = <<x>>
  <2>1. Len(<<x, y>>) - 1 = 1
    OBVIOUS
  <2>2. Front(<<x, y>>) = SubSeq(<<x, y>>, 1, 1)
    BY <2>1 DEF Front
  <2>3. /\ SubSeq(<<x, y>>, 1, 1) \in Seq({x, y})
        /\ Len(SubSeq(<<x, y>>, 1, 1)) = 1
        /\ SubSeq(<<x, y>>, 1, 1)[1] = x
    BY <1>2
  <2> QED
    BY <2>2, <2>3
<1> QED
  BY <1>1, <1>3, <1>4

(* Below its folder a file's key is the folder's and the name, below its   *)
(* own key it is that key.                                                 *)
LEMMA FileKey ==
    ASSUME NEW d, NEW f, IsFile(f)
    PROVE  /\ ObjectKey(<<Directory(d)>>, f) = <<Directory(d), f>>
           /\ ObjectKey(<<Directory(d), f>>, f) = <<Directory(d), f>>
<1>1. Directory(d) # f
  <2>1. Directory(d).ext = "" /\ f.ext # ""
    BY DEF Directory, IsFile
  <2> QED
    BY <2>1
<1>2. Last(<<Directory(d)>>) = Directory(d) /\ Last(<<Directory(d), f>>) = f
  BY Pairs
<1>3. Append(<<Directory(d)>>, f) = <<Directory(d), f>>
  BY Pairs
<1> QED
  BY <1>1, <1>2, <1>3 DEF ObjectKey

(* separate writes two files, every other stage one.                       *)
LEMMA OutputsOfStage ==
    ASSUME NEW m, m.requested_stage \in Stage
    PROVE  IF m.requested_stage = "separate"
           THEN \E a, b : IsFile(a) /\ IsFile(b) /\ Outputs(m) = <<a, b>>
           ELSE \E f : IsFile(f) /\ Outputs(m) = <<f>>
<1>1. PICK x, y : x = InputNames(m)[1] /\ y = m.is_seperated
  OBVIOUS
<1>2. Outputs(m) = OutputNames(m.requested_stage, x, y)
  BY <1>1 DEF Outputs
<1>3. CASE m.requested_stage = "denoise"
  <2>1. Outputs(m) = <<Cleaned(x)>>
    BY <1>2, <1>3 DEF OutputNames
  <2> QED
    BY <1>3, <2>1, ExtendedIsFile DEF Cleaned
<1>4. CASE m.requested_stage = "separate"
  <2>1. Outputs(m) = <<Speaker1(x), Speaker2(x)>>
    BY <1>2, <1>4 DEF OutputNames
  <2>2. IsFile(Speaker1(x)) /\ IsFile(Speaker2(x))
    BY ExtendedIsFile DEF Speaker1, Speaker2
  <2> QED
    BY <1>4, <2>1, <2>2
<1>5. CASE m.requested_stage = "transcribe"
  <2>1. Outputs(m) = <<FullScript(x, y)>>
    BY <1>2, <1>5 DEF OutputNames
  <2>2. IsFile(FullScript(x, y))
    BY ExtendedIsFile DEF FullScript
  <2> QED
    BY <1>5, <2>1, <2>2
<1>6. CASE m.requested_stage = "summarize"
  <2>1. Outputs(m) = <<Extended(x, "_summary", ".txt")>>
    BY <1>2, <1>6 DEF OutputNames
  <2> QED
    BY <1>6, <2>1, ExtendedIsFile
<1> QED
  BY <1>3, <1>4, <1>5, <1>6 DEF Stage

(* The links the metadata of a stage leads to are the objects it stored.   *)
LEMMA MetadataNamesOutputs ==
    ASSUME NEW m, m.requested_stage \in Stage
    PROVE  /\ IsMetadata(m.requested_stage, StageMetadata(m))
           /\ Links(m.requested_stage, StageMetadata(m)) = ToSet(OutputKeys(m))
<1>1. PICK s : s = m.requested_stage
  OBVIOUS
<1>2. CASE s = "separate"
  <2>1. PICK a, b : IsFile(a) /\ IsFile(b) /\ Outputs(m) = <<a, b>>
    BY <1>1, <1>2, OutputsOfStage
  <2>2. OutputKeys(m) = [i \in {1, 2} |-> <<Directory(s), Outputs(m)[i]>>]
    BY <1>1, <2>1 DEF OutputKeys
  <2>3. /\ OutputKeys(m)[1] = <<Directory(s), a>> /\ OutputKeys(m)[2] = <<Directory(s), b>>
        /\ DOMAIN OutputKeys(m) = {1, 2}
    BY <2>1, <2>2
  <2>4. ToSet(OutputKeys(m)) = {<<Directory(s), a>>, <<Directory(s), b>>}
    BY <2>3 DEF ToSet
  <2>5. Front(OutputKeys(m)[1]) = <<Directory(s)>>
    BY <2>3, Pairs
  <2>6. StageMetadata(m) = [s3_key |-> <<Directory(s)>>,
                            first_filename |-> a, second_filename |-> b]
    BY <1>1, <1>2, <2>1, <2>5 DEF StageMetadata
  <2>7. Links(s, StageMetadata(m)) = {ObjectKey(<<Directory(s)>>, n) : n \in {a, b}}
    BY <1>2, <2>6 DEF Links, StageLinks
  <2>8. IsMetadata(s, StageMetadata(m))
    BY <1>2, <2>1, <2>6 DEF IsMetadata
  <2>9. /\ ObjectKey(<<Directory(s)>>, a) = <<Directory(s), a>>
        /\ ObjectKey(<<Directory(s)>>, b) = <<Directory(s), b>>
    BY <2>1, FileKey
  <2>10. Links(s, StageMetadata(m)) = {<<Directory(s), a>>, <<Directory(s), b>>}
    BY <2>7, <2>9
  <2> QED
    BY <1>1, <2>4, <2>8, <2>10
<1>3. CASE s # "separate"
  <2>1. PICK f : IsFile(f) /\ Outputs(m) = <<f>>
    BY <1>1, <1>3, OutputsOfStage
  <2>2. OutputKeys(m) = [i \in {1} |-> <<Directory(s), Outputs(m)[i]>>]
    BY <1>1, <2>1 DEF OutputKeys
  <2>3. OutputKeys(m)[1] = <<Directory(s), f>> /\ DOMAIN OutputKeys(m) = {1}
    BY <2>1, <2>2
  <2>4. ToSet(OutputKeys(m)) = {<<Directory(s), f>>}
    BY <2>3 DEF ToSet
  <2>5. StageMetadata(m) = [s3_key |-> <<Directory(s), f>>, filename |-> f]
    BY <1>1, <1>3, <2>1, <2>3 DEF StageMetadata
  <2>6. Links(s, StageMetadata(m)) = {ObjectKey(<<Directory(s), f>>, f)}
    BY <1>3, <2>5 DEF Links, StageLinks
  <2>7. IsMetadata(s, StageMetadata(m))
    BY <1>3, <2>1, <2>5 DEF IsMetadata
  <2> QED
    BY <1>1, <2>1, <2>4, <2>6, <2>7, FileKey
<1> QED
  BY <1>2, <1>3

(* Only transcribe is ever directly behind separate: a summary needs a     *)
(* transcript.                                                             *)
LEMMA AfterSeparate ==
    ASSUME NEW S \in Selections, "separate" \in S, Later(S, "separate") # {}
    PROVE  NextStage(S, "separate") = "transcribe"
<1>1. S \in SUBSET Stage /\ ("summarize" \in S => "transcribe" \in S)
  BY DEF Selections, ValidSelection
<1>2. Later(S, "separate") \subseteq {"transcribe", "summarize"}
  <2> SUFFICES ASSUME NEW t \in Stage, Index(t) > Index("separate")
               PROVE  t \in {"transcribe", "summarize"}
    BY <1>1 DEF Later
  <2> QED
    BY DEF Stage, Index, StageOrder
<1>3. "transcribe" \in S /\ "separate" \in Stage
  BY <1>1, <1>2 DEF Later, Stage
<1>4. /\ NextStage(S, "separate") \in {"transcribe", "summarize"}
      /\ Index(NextStage(S, "separate")) <= Index("transcribe")
  <2>1. Index("separate") < Index("transcribe")
    BY DEF Index, StageOrder
  <2>2. /\ NextStage(S, "separate") \in Stage
        /\ Index("separate") < Index(NextStage(S, "separate"))
        /\ Index(NextStage(S, "separate")) <= Index("transcribe")
    BY <1>1, <1>3, <2>1, NextIsLeast
  <2> QED
    BY <2>2 DEF Stage, Index, StageOrder
<1> QED
  BY <1>4 DEF Index, StageOrder

(* The message built from a stage's metadata passes the checks and reads   *)
(* what the metadata leads to.                                             *)
LEMMA NextMessageIsUsable ==
    ASSUME NEW S \in Selections, NEW s \in S, Later(S, s) # {}, NEW data, IsMetadata(s, data),
           NEW m, m = NextStageMessage(s, NextStage(S, s), data)
    PROVE  /\ m # NoMessage /\ m.requested_stage \in S
           /\ ValidMessage(m) /\ InputKeys(m) \subseteq Links(s, data)
<1>1. S \in SUBSET Stage
  BY DEF Selections, ValidSelection
<1>2. PICK n : n = NextStage(S, s)
  OBVIOUS
<1>3. n \in S /\ n \in Stage /\ m = NextStageMessage(s, n, data)
  BY <1>1, <1>2, NextIsLeast
<1>4. m.requested_stage = n
  BY <1>3 DEF NextStageMessage, Message
<1>5. m # NoMessage
  BY <1>3, <1>4 DEF NoMessage, Stage
<1>6. CASE s = "separate"
  <2>1. n = "transcribe"
    BY <1>2, <1>6, AfterSeparate
  <2>2. PICK a, b : /\ IsFile(a) /\ IsFile(b)
                    /\ data = [s3_key |-> <<Directory(s)>>,
                               first_filename |-> a, second_filename |-> b]
    BY <1>6 DEF IsMetadata
  <2>3. m = Message(n, <<Directory(s)>>, FALSE, TRUE, <<a, b>>)
    BY <1>3, <1>6, <2>1, <2>2 DEF NextStageMessage
  <2>4. /\ m.is_seperated /\ m.s3_key = <<Directory(s)>>
        /\ m.input_filename1 = a /\ m.input_filename2 = b /\ m.input_filename = NoName
    BY <2>3 DEF Message
  <2>5. ValidMessage(m)
    BY <1>4, <2>1, <2>2, <2>4 DEF ValidMessage, IsFile
  <2>6. InputNames(m) = <<a, b>>
    BY <2>4 DEF InputNames
  <2>7. InputKeys(m) = {ObjectKey(<<Directory(s)>>, a), ObjectKey(<<Directory(s)>>, b)}
    BY <2>4, <2>6 DEF InputKeys
  <2>8. Links(s, data) = {ObjectKey(<<Directory(s)>>, k) : k \in {a, b}}
    BY <1>6, <2>2 DEF Links, StageLinks
  <2> QED
    BY <1>3, <1>4, <1>5, <2>5, <2>7, <2>8
<1>7. CASE s # "separate"
  <2>1. PICK f : /\ IsFile(f)
                 /\ data = [s3_key |-> <<Directory(s), f>>, filename |-> f]
    BY <1>7 DEF IsMetadata
  <2>2. m = Message(n, <<Directory(s), f>>, FALSE, FALSE, <<f>>)
    BY <1>3, <1>7, <2>1 DEF NextStageMessage
  <2>3. /\ ~m.is_seperated /\ m.s3_key = <<Directory(s), f>>
        /\ m.input_filename = f /\ m.input_filename1 = NoName /\ m.input_filename2 = NoName
    BY <2>2 DEF Message
  <2>4. ValidMessage(m)
    BY <2>1, <2>3 DEF ValidMessage, IsFile
  <2>5. InputNames(m) = <<f>>
    BY <2>3 DEF InputNames
  <2>6. InputKeys(m) = {ObjectKey(<<Directory(s), f>>, f)}
    BY <2>3, <2>5 DEF InputKeys
  <2>7. Links(s, data) = {ObjectKey(<<Directory(s), f>>, f)}
    BY <1>7, <2>1 DEF Links, StageLinks
  <2> QED
    BY <1>3, <1>4, <1>5, <2>4, <2>6, <2>7
<1> QED
  BY <1>6, <1>7

-----------------------------------------------------------------------------
(* The job's files.                                                        *)

(* The first message reads the original.                                   *)
LEMMA ArtifactsInitHolds == Init => ArtifactsInv
<1> SUFFICES ASSUME Init PROVE ArtifactsInv
  OBVIOUS
<1> USE DEF Init
<1>1. selected \in SUBSET Stage /\ selected # {}
  BY DEF Selections, ValidSelection
<1>2. PICK f : f = FirstStage(selected)
  OBVIOUS
<1>3. f \in selected /\ f \in Stage
  BY <1>1, <1>2, FirstIsLeast
<1>4. IsFile(Uploaded)
  BY DEF IsFile, Uploaded, NoName
<1>5. message = Message(f, <<Directory("original")>>, TRUE, FALSE, <<Uploaded>>)
  BY <1>2 DEF FirstMessage
<1>6. /\ message.requested_stage = f /\ ~message.is_seperated
      /\ message.s3_key = <<Directory("original")>> /\ message.input_filename = Uploaded
      /\ message.input_filename1 = NoName /\ message.input_filename2 = NoName
  BY <1>5 DEF Message
<1>7. ValidMessage(message)
  BY <1>4, <1>6 DEF ValidMessage, IsFile
<1>8. InputNames(message) = <<Uploaded>>
  BY <1>6 DEF InputNames
<1>9. InputKeys(message) = {ObjectKey(<<Directory("original")>>, Uploaded)}
  BY <1>6, <1>8 DEF InputKeys
<1>10. ObjectKey(<<Directory("original")>>, Uploaded) = <<Directory("original"), Uploaded>>
  BY <1>4, FileKey
<1>11. DownloadLinks = {<<Directory("original"), Uploaded>>}
  BY <1>10 DEF DownloadLinks
<1>12. MessageIsUsable
  BY <1>7, <1>9, <1>10 DEF MessageIsUsable
<1>13. ResultInv /\ BucketInv /\ CompletedInv
  BY <1>11 DEF ResultInv, BucketInv, CompletedInv
<1>14. MessageInv
  BY <1>3, <1>6 DEF MessageInv
<1>15. stages \in Seq({})
  OBVIOUS
<1> QED
  BY <1>12, <1>13, <1>14, <1>15 DEF ArtifactsInv

(* The worker stores its outputs, and its result names them.               *)
LEMMA ProcessMessageKeeps == ArtifactsInv /\ ProcessMessage => ArtifactsInv'
<1> SUFFICES ASSUME ArtifactsInv, ProcessMessage PROVE ArtifactsInv'
  OBVIOUS
<1>1. PICK m, s, data : /\ m = message /\ s = m.requested_stage /\ data = StageMetadata(m)
  OBVIOUS
<1>2. /\ m # NoMessage /\ message' = NoMessage
      /\ bucket' = bucket \cup ToSet(OutputKeys(m))
      /\ result' = [completed_stage |-> s, stage_data |-> data]
      /\ UNCHANGED <<selected, stages, completed>>
  BY <1>1 DEF ProcessMessage
<1>3. /\ selected \in Selections /\ s \in selected /\ result = NoResult /\ completed = FALSE
  BY <1>1, <1>2 DEF ArtifactsInv, MessageInv, CompletedInv
<1>4. s \in Stage
  BY <1>3 DEF Selections, ValidSelection
<1>5. IsMetadata(s, data) /\ Links(s, data) = ToSet(OutputKeys(m))
  BY <1>1, <1>4, MetadataNamesOutputs
<1>6. result'.completed_stage = s /\ result'.stage_data = data /\ result' # NoResult
  <2>1. result'.completed_stage = s /\ result'.stage_data = data
    BY <1>2
  <2>2. s # NoResult.completed_stage
    BY <1>4 DEF NoResult, Stage
  <2> QED
    BY <2>1, <2>2
<1>7. ResultInv'
  BY <1>2, <1>3, <1>5, <1>6 DEF ResultInv
<1>8. DownloadLinks' = DownloadLinks
  BY <1>2 DEF DownloadLinks
<1>9. BucketInv'
  <2>1. bucket = DownloadLinks
    BY <1>3 DEF ArtifactsInv, BucketInv
  <2>2. Links(result.completed_stage, result.stage_data)' = Links(s, data)
    BY <1>6 DEF Links, StageLinks
  <2> QED
    BY <1>2, <1>5, <1>6, <1>8, <2>1, <2>2 DEF BucketInv
<1>10. MessageInv' /\ CompletedInv' /\ MessageIsUsable'
  BY <1>2, <1>3 DEF MessageInv, CompletedInv, MessageIsUsable
<1> QED
  BY <1>2, <1>3, <1>7, <1>9, <1>10 DEF ArtifactsInv

(* The row takes the metadata over, and the next message is built from it. *)
LEMMA ProcessResultKeeps == ArtifactsInv /\ ProcessResult => ArtifactsInv'
<1> SUFFICES ASSUME ArtifactsInv, ProcessResult PROVE ArtifactsInv'
  OBVIOUS
<1>1. PICK s, data : s = result.completed_stage /\ data = result.stage_data
  OBVIOUS
<1>2. PICK n : n = NextStageMessage(s, NextStage(selected, s), data)
  OBVIOUS
<1>3. /\ result # NoResult /\ result' = NoResult
      /\ stages' = Append(stages, <<s, data>>)
      /\ completed' = (Later(selected, s) = {})
      /\ message' = IF Later(selected, s) = {} THEN NoMessage ELSE n
      /\ UNCHANGED <<selected, bucket>>
  BY <1>1, <1>2 DEF ProcessResult
<1>4. /\ selected \in Selections /\ s \in selected /\ IsMetadata(s, data)
      /\ bucket = DownloadLinks \cup Links(s, data)
  BY <1>1, <1>3 DEF ArtifactsInv, ResultInv, BucketInv
<1>5. PICK S : stages \in Seq(S)
  BY DEF ArtifactsInv
<1>6. /\ stages' \in Seq(S \cup {<<s, data>>}) /\ Len(stages) \in Nat
      /\ DOMAIN stages = 1 .. Len(stages) /\ DOMAIN stages' = 1 .. Len(stages) + 1
      /\ \A i \in 1 .. Len(stages) : stages'[i] = stages[i]
      /\ stages'[Len(stages) + 1] = <<s, data>>
  <2>1. stages \in Seq(S \cup {<<s, data>>})
    BY <1>5
  <2>2. Append(stages, <<s, data>>) \in Seq(S \cup {<<s, data>>})
    BY <2>1
  <2> QED
    BY <1>3, <2>1, <2>2
<1>7. DownloadLinks' = DownloadLinks \cup Links(s, data)
  <2>1. PICK o : o = ObjectKey(<<Directory("original")>>, Uploaded)
    OBVIOUS
  <2>2. DownloadLinks = {o} \cup UNION {StageLinks(stages[i]) : i \in 1 .. Len(stages)}
    BY <1>6, <2>1 DEF DownloadLinks
  <2>3. DownloadLinks' = {o} \cup UNION {StageLinks(stages'[i]) : i \in 1 .. Len(stages) + 1}
    BY <1>6, <2>1 DEF DownloadLinks
  <2>4. UNION {StageLinks(stages'[i]) : i \in 1 .. Len(stages) + 1}
            = (UNION {StageLinks(stages[i]) : i \in 1 .. Len(stages)}) \cup Links(s, data)
    <3>1. 1 .. Len(stages) + 1 = (1 .. Len(stages)) \cup {Len(stages) + 1}
      BY <1>6
    <3>2. \A i \in 1 .. Len(stages) : StageLinks(stages'[i]) = StageLinks(stages[i])
      BY <1>6
    <3>3. StageLinks(stages'[Len(stages) + 1]) = Links(s, data)
      BY <1>6 DEF Links
    <3>4. {StageLinks(stages'[i]) : i \in 1 .. Len(stages) + 1}
              = {StageLinks(stages[i]) : i \in 1 .. Len(stages)} \cup {Links(s, data)}
      BY <3>1, <3>2, <3>3
    <3>5. \A A, B : UNION (A \cup {B}) = (UNION A) \cup B
      OBVIOUS
    <3> QED
      BY <3>4, <3>5
  <2> QED
    BY <2>2, <2>3, <2>4
<1>8. BucketInv' /\ ResultInv'
  BY <1>3, <1>4, <1>7 DEF BucketInv, ResultInv
<1>9. MessageInv' /\ CompletedInv' /\ MessageIsUsable'
  <2>1. CASE Later(selected, s) = {}
    BY <1>3, <2>1 DEF MessageInv, CompletedInv, MessageIsUsable
  <2>2. CASE Later(selected, s) # {}
    <3>1. /\ n # NoMessage /\ n.requested_stage \in selected
          /\ ValidMessage(n) /\ InputKeys(n) \subseteq Links(s, data)
      BY <1>2, <1>4, <2>2, NextMessageIsUsable
    <3>2. message' = n /\ bucket' = bucket
      BY <1>3, <2>2
    <3>3. ValidMessage(message)' /\ InputKeys(message)' = InputKeys(n)
      BY <3>1, <3>2 DEF ValidMessage, InputKeys, InputNames
    <3> QED
      BY <1>3, <1>4, <2>2, <3>1, <3>2, <3>3 DEF MessageInv, CompletedInv, MessageIsUsable
  <2> QED
    BY <2>1, <2>2
<1>10. completed' \in BOOLEAN
  BY <1>3
<1> QED
  BY <1>3, <1>4, <1>6, <1>8, <1>9, <1>10 DEF ArtifactsInv

LEMMA ArtifactsIdle == ArtifactsInv /\ UNCHANGED jobVars => ArtifactsInv'
<1> SUFFICES ASSUME ArtifactsInv, UNCHANGED jobVars PROVE ArtifactsInv'
  OBVIOUS
<1>1. UNCHANGED <<selected, bucket, message, result, stages, completed>>
  BY DEF jobVars, vars
<1>2. ResultInv' /\ MessageInv' /\ CompletedInv'
  BY <1>1 DEF ArtifactsInv, ResultInv, MessageInv, CompletedInv
<1>3. BucketInv'
  BY <1>1 DEF ArtifactsInv, BucketInv, Links, DownloadLinks
<1>4. MessageIsUsable'
  BY <1>1 DEF ArtifactsInv, MessageIsUsable, InputKeys, InputNames, ValidMessage
<1> QED
  BY <1>1, <1>2, <1>3, <1>4 DEF ArtifactsInv

-----------------------------------------------------------------------------
(* The requests.                                                           *)

(* A signature's whole second is less than a second old.                   *)
LEMMA WholeSecond ==
    ASSUME NEW t \in Nat
    PROVE  Whole(t) \in Nat /\ Whole(t) <= t /\ t < Whole(t) + TicksPerSecond
BY DEF Whole

(* While the job goes on no request has read its row and been let in.      *)
LEMMA JobStepKeeps ==
    ASSUME ArtifactsInv, RequestsInv, JobStep
    PROVE  RequestsInv'
<1>1. UNCHANGED <<now, cache, pc, unsigned, links, began>>
  BY DEF JobStep, requestVars
<1>2. ~completed
  BY DEF JobStep, ProcessMessage, ProcessResult, ArtifactsInv, CompletedInv
<1>3. bucket \subseteq bucket'
  BY DEF JobStep, ProcessMessage, ProcessResult
<1>4. \A r \in Requests : pc[r] \notin {"sign", "store", "served"}
  BY <1>2 DEF RequestsInv, SigningInv, AnswersAreWhole
<1>5. ~(cache.until > 0)
  BY <1>2 DEF RequestsInv, CacheInv
<1>6. DownloadsTypeOK'
  BY <1>1, <1>3 DEF RequestsInv, DownloadsTypeOK
<1>7. SigningInv' /\ CacheInv' /\ AnswersAreWhole' /\ TimeInv'
  BY <1>1, <1>4, <1>5 DEF RequestsInv, SigningInv, CacheInv, AnswersAreWhole, TimeInv
<1> QED
  BY <1>1, <1>6, <1>7 DEF RequestsInv

(* The clock waits for requests that have signed for as long as they may.  *)
LEMMA TickKeeps ==
    ASSUME RequestsInv, Tick
    PROVE  RequestsInv'
<1>1. /\ now' = now + 1 /\ now < MaxTime
      /\ UNCHANGED <<completed, bucket, cache, pc, unsigned, links, began>>
      /\ \A r \in Requests : pc[r] \in {"sign", "store"} => now - began[r] < SigningTime
  BY DEF Tick, requestVars, jobVars, vars
<1>2. now \in Nat /\ now' \in 0 .. MaxTime /\ \A r \in Requests : began[r] \in Nat
  BY <1>1 DEF RequestsInv, DownloadsTypeOK
<1>3. DownloadsTypeOK' /\ SigningInv' /\ CacheInv' /\ AnswersAreWhole'
  BY <1>1, <1>2 DEF RequestsInv, DownloadsTypeOK, SigningInv, CacheInv, AnswersAreWhole
<1>4. TimeInv'
  BY <1>1, <1>2 DEF RequestsInv, TimeInv
<1> QED
  BY <1>1, <1>3, <1>4 DEF RequestsInv

(* What a step of request r leaves alone.                                  *)
OnlyRequest(r) ==
    /\ UNCHANGED <<completed, bucket, now>>
    /\ \A q \in Requests : q # r => /\ pc'[q] = pc[q] /\ unsigned'[q] = unsigned[q]
                                    /\ links'[q] = links[q] /\ began'[q] = began[q]
    /\ DOMAIN links' = Requests /\ DOMAIN unsigned' = Requests
    /\ pc' \in [Requests -> {"idle", "row", "sign", "store"} \cup Answered]
    /\ began' \in [Requests -> 0 .. MaxTime]

(* The invariants of one request.                                          *)
RequestInv(r) ==
    /\ unsigned[r] \subseteq bucket
    /\ \A l \in links[r] : l.key \in bucket /\ l.expires \in Nat
    /\ pc[r] \in {"sign", "store"} =>
          /\ completed /\ {l.key : l \in links[r]} \cup unsigned[r] = bucket
          /\ began[r] <= now /\ now <= began[r] + SigningTime
          /\ \A l \in links[r] : began[r] + DownloadTtl < l.expires + TicksPerSecond
    /\ pc[r] = "sign" => unsigned[r] # {}
    /\ pc[r] # "sign" => unsigned[r] = {}
    /\ pc[r] = "row" => links[r] = {}
    /\ pc[r] = "served" => completed /\ {l.key : l \in links[r]} = bucket

EntryInv ==
    /\ \A l \in cache.links :
          /\ l.key \in bucket /\ l.expires \in Nat
          /\ cache.until < l.expires + SigningTime + TicksPerSecond
    /\ cache.until \in Nat
    /\ cache.until > 0 => completed /\ {l.key : l \in cache.links} = bucket

LEMMA RequestsInvIs ==
    RequestsInv <=>
        /\ now \in 0 .. MaxTime
        /\ pc \in [Requests -> {"idle", "row", "sign", "store"} \cup Answered]
        /\ began \in [Requests -> 0 .. MaxTime]
        /\ DOMAIN links = Requests /\ DOMAIN unsigned = Requests
        /\ EntryInv /\ \A r \in Requests : RequestInv(r)
BY DEF RequestsInv, DownloadsTypeOK, SigningInv, CacheInv, AnswersAreWhole, TimeInv,
       EntryInv, RequestInv

LEMMA RequestKeeps ==
    ASSUME RequestsInv, NEW r \in Requests, OnlyRequest(r), RequestInv(r)', EntryInv'
    PROVE  RequestsInv'
<1>1. /\ now' \in 0 .. MaxTime
      /\ pc' \in [Requests -> {"idle", "row", "sign", "store"} \cup Answered]
      /\ began' \in [Requests -> 0 .. MaxTime]
      /\ DOMAIN links' = Requests /\ DOMAIN unsigned' = Requests
  BY RequestsInvIs DEF OnlyRequest
<1>2. ASSUME NEW q \in Requests PROVE RequestInv(q)'
  <2>1. RequestInv(q)
    BY RequestsInvIs
  <2> QED
    BY <2>1 DEF OnlyRequest, RequestInv
<1> QED
  BY <1>1, <1>2, RequestsInvIs DEF RequestsInv, DownloadsTypeOK, SigningInv, CacheInv,
     AnswersAreWhole, TimeInv, EntryInv, RequestInv

-----------------------------------------------------------------------------
(* One lemma for each step of a request.                                   *)

(* A completed job's files are the ones its row names.                     *)
LEMMA CompletedFiles ==
    ASSUME ArtifactsInv, completed
    PROVE  bucket = DownloadLinks /\ DownloadLinks # {}
<1>1. bucket = DownloadLinks
  BY DEF ArtifactsInv, CompletedInv, BucketInv
<1>2. DownloadLinks # {}
  BY DEF DownloadLinks
<1> QED
  BY <1>1, <1>2

LEMMA ReadCacheKeeps ==
    ASSUME RequestsInv, NEW r \in Requests, ReadCache(r)
    PROVE  RequestsInv'
<1>1. /\ links' = [links EXCEPT ![r] = cache.links]
      /\ pc' = [pc EXCEPT ![r] = "served"] /\ pc[r] \in {"idle"} \cup Answered
      /\ now < cache.until
      /\ UNCHANGED <<completed, bucket, now, cache, unsigned, began>>
  BY DEF ReadCache, Goto, Cached, jobVars, vars
<1>2. /\ now \in 0 .. MaxTime /\ EntryInv /\ RequestInv(r)
      /\ pc \in [Requests -> {"idle", "row", "sign", "store"} \cup Answered]
      /\ began \in [Requests -> 0 .. MaxTime]
      /\ DOMAIN links = Requests /\ DOMAIN unsigned = Requests
  BY RequestsInvIs
<1>3. links'[r] = cache.links /\ pc'[r] = "served"
  BY <1>1, <1>2
<1>4. OnlyRequest(r)
  BY <1>1, <1>2 DEF OnlyRequest, Answered
<1>5. EntryInv'
  BY <1>1, <1>2 DEF EntryInv
<1>6. cache.until > 0
  BY <1>1, <1>2 DEF EntryInv
<1>7. RequestInv(r)'
  BY <1>1, <1>2, <1>3, <1>6 DEF RequestInv, EntryInv, Answered
<1> QED
  BY <1>4, <1>5, <1>7, RequestKeeps

LEMMA MissCacheKeeps ==
    ASSUME RequestsInv, NEW r \in Requests, MissCache(r)
    PROVE  RequestsInv'
<1>1. /\ links' = [links EXCEPT ![r] = {}] /\ began' = [began EXCEPT ![r] = 0]
      /\ pc' = [pc EXCEPT ![r] = "row"] /\ pc[r] \in {"idle"} \cup Answered
      /\ UNCHANGED <<completed, bucket, now, cache, unsigned>>
  BY DEF MissCache, Goto, jobVars, vars
<1>2. /\ now \in 0 .. MaxTime /\ EntryInv /\ RequestInv(r)
      /\ pc \in [Requests -> {"idle", "row", "sign", "store"} \cup Answered]
      /\ began \in [Requests -> 0 .. MaxTime]
      /\ DOMAIN links = Requests /\ DOMAIN unsigned = Requests
  BY RequestsInvIs
<1>3. links'[r] = {} /\ pc'[r] = "row"
  BY <1>1, <1>2
<1>4. OnlyRequest(r)
  BY <1>1, <1>2 DEF OnlyRequest, Answered
<1>5. EntryInv'
  BY <1>1, <1>2 DEF EntryInv
<1>6. RequestInv(r)'
  BY <1>1, <1>2, <1>3 DEF RequestInv, Answered
<1> QED
  BY <1>4, <1>5, <1>6, RequestKeeps

(* Links are begun only for a completed job, and then for all its files.   *)
LEMMA ReadRowKeeps ==
    ASSUME ArtifactsInv, RequestsInv, NEW r \in Requests, ReadRow(r)
    PROVE  RequestsInv'
<1>1. /\ pc[r] = "row"
      /\ pc' = [pc EXCEPT ![r] = IF completed THEN "sign" ELSE "refused"]
      /\ unsigned' = [unsigned EXCEPT ![r] = IF completed THEN DownloadLinks ELSE {}]
      /\ began' = [began EXCEPT ![r] = IF completed THEN now ELSE 0]
      /\ UNCHANGED <<completed, bucket, now, cache, links>>
  BY DEF ReadRow, Goto, jobVars, vars
<1>2. /\ now \in 0 .. MaxTime /\ EntryInv /\ RequestInv(r)
      /\ pc \in [Requests -> {"idle", "row", "sign", "store"} \cup Answered]
      /\ began \in [Requests -> 0 .. MaxTime]
      /\ DOMAIN links = Requests /\ DOMAIN unsigned = Requests
  BY RequestsInvIs
<1>3. /\ pc'[r] = IF completed THEN "sign" ELSE "refused"
      /\ unsigned'[r] = IF completed THEN DownloadLinks ELSE {}
      /\ began'[r] = IF completed THEN now ELSE 0
      /\ links'[r] = {}
  BY <1>1, <1>2 DEF RequestInv
<1>4. OnlyRequest(r)
  BY <1>1, <1>2 DEF OnlyRequest, Answered
<1>5. EntryInv'
  BY <1>1, <1>2 DEF EntryInv
<1>6. RequestInv(r)'
  <2>1. CASE completed
    <3>1. bucket = DownloadLinks /\ DownloadLinks # {}
      BY <2>1, CompletedFiles
    <3> QED
      BY <1>1, <1>2, <1>3, <2>1, <3>1 DEF RequestInv
  <2>2. CASE ~completed
    BY <1>1, <1>2, <1>3, <2>2 DEF RequestInv
  <2> QED
    BY <2>1, <2>2
<1> QED
  BY <1>4, <1>5, <1>6, RequestKeeps

(* A link made now is dated at most a second before the row was read.      *)
LEMMA SignLinkKeeps ==
    ASSUME RequestsInv, NEW r \in Requests, SignLink(r)
    PROVE  RequestsInv'
<1>1. PICK key : key = CHOOSE k \in unsigned[r] : TRUE
  OBVIOUS
<1>2. PICK l : l = [key |-> key, expires |-> Whole(now) + DownloadTtl]
  OBVIOUS
<1>3. /\ pc[r] = "sign"
      /\ links' = [links EXCEPT ![r] = @ \cup {l}]
      /\ unsigned' = [unsigned EXCEPT ![r] = @ \ {key}]
      /\ pc' = [pc EXCEPT ![r] = IF unsigned[r] = {key} THEN "store" ELSE "sign"]
      /\ UNCHANGED <<completed, bucket, now, cache, began>>
  BY <1>1, <1>2 DEF SignLink, Goto, jobVars, vars
<1>4. /\ now \in 0 .. MaxTime /\ EntryInv /\ RequestInv(r)
      /\ pc \in [Requests -> {"idle", "row", "sign", "store"} \cup Answered]
      /\ began \in [Requests -> 0 .. MaxTime]
      /\ DOMAIN links = Requests /\ DOMAIN unsigned = Requests
  BY RequestsInvIs
<1>5. key \in unsigned[r]
  BY <1>1, <1>3, <1>4 DEF RequestInv
<1>6. /\ links'[r] = links[r] \cup {l} /\ unsigned'[r] = unsigned[r] \ {key}
      /\ pc'[r] = IF unsigned[r] = {key} THEN "store" ELSE "sign"
      /\ began'[r] = began[r]
  BY <1>3, <1>4
<1>7. OnlyRequest(r)
  BY <1>3, <1>4 DEF OnlyRequest, Answered
<1>8. EntryInv'
  BY <1>3, <1>4 DEF EntryInv
<1>9. /\ l.key = key /\ key \in bucket /\ l.expires \in Nat
      /\ began[r] + DownloadTtl < l.expires + TicksPerSecond
  <2>1. now \in Nat /\ began[r] \in Nat /\ began[r] <= now /\ key \in bucket
    BY <1>3, <1>4, <1>5 DEF RequestInv
  <2>2. Whole(now) \in Nat /\ Whole(now) <= now /\ now < Whole(now) + TicksPerSecond
    BY <2>1, WholeSecond
  <2>3. l.key = key /\ l.expires = Whole(now) + DownloadTtl
    BY <1>2
  <2> QED
    BY <2>1, <2>2, <2>3
<1>10. RequestInv(r)'
  <2>1. {k.key : k \in links'[r]} = {k.key : k \in links[r]} \cup {key}
    BY <1>6, <1>9
  <2>2. {k.key : k \in links'[r]} \cup unsigned'[r] = bucket
    BY <1>3, <1>4, <1>5, <1>6, <2>1 DEF RequestInv
  <2>3. pc'[r] = "sign" => unsigned'[r] # {}
    BY <1>5, <1>6
  <2>4. pc'[r] # "sign" => unsigned'[r] = {}
    BY <1>5, <1>6
  <2>5. pc'[r] \in {"sign", "store"}
    BY <1>6
  <2>6. /\ unsigned'[r] \subseteq bucket'
        /\ \A k \in links'[r] : /\ k.key \in bucket' /\ k.expires \in Nat
                                /\ began[r] + DownloadTtl < k.expires + TicksPerSecond
    BY <1>3, <1>4, <1>6, <1>9 DEF RequestInv
  <2>7. completed' /\ began'[r] <= now' /\ now' <= began'[r] + SigningTime
    BY <1>3, <1>4, <1>6 DEF RequestInv
  <2> QED
    BY <1>3, <1>6, <2>2, <2>3, <2>4, <2>5, <2>6, <2>7 DEF RequestInv
<1> QED
  BY <1>7, <1>8, <1>10, RequestKeeps

(* The entry lives as long as a link made now; its links were made within  *)
(* the time a request takes.                                               *)
LEMMA StoreCacheKeeps ==
    ASSUME RequestsInv, NEW r \in Requests, StoreCache(r)
    PROVE  RequestsInv'
<1>1. /\ pc[r] = "store" /\ pc' = [pc EXCEPT ![r] = "served"]
      /\ cache'.links = links[r] /\ cache'.until = now + DownloadTtl
      /\ UNCHANGED <<completed, bucket, now, unsigned, links, began>>
  BY DEF StoreCache, Goto, jobVars, vars
<1>2. /\ now \in 0 .. MaxTime /\ EntryInv /\ RequestInv(r)
      /\ pc \in [Requests -> {"idle", "row", "sign", "store"} \cup Answered]
      /\ began \in [Requests -> 0 .. MaxTime]
      /\ DOMAIN links = Requests /\ DOMAIN unsigned = Requests
  BY RequestsInvIs
<1>3. pc'[r] = "served"
  BY <1>1, <1>2
<1>4. OnlyRequest(r)
  BY <1>1, <1>2 DEF OnlyRequest, Answered
<1>5. /\ completed /\ {l.key : l \in links[r]} = bucket
      /\ now \in Nat /\ began[r] \in Nat /\ now <= began[r] + SigningTime
      /\ \A l \in links[r] : /\ l.key \in bucket /\ l.expires \in Nat
                             /\ began[r] + DownloadTtl < l.expires + TicksPerSecond
  BY <1>1, <1>2 DEF RequestInv
<1>6. EntryInv'
  BY <1>1, <1>5 DEF EntryInv
<1>7. RequestInv(r)'
  BY <1>1, <1>2, <1>3, <1>5 DEF RequestInv
<1> QED
  BY <1>4, <1>6, <1>7, RequestKeeps

LEMMA SkipStoreKeeps ==
    ASSUME RequestsInv, NEW r \in Requests, SkipStore(r)
    PROVE  RequestsInv'
<1>1. /\ pc[r] = "store" /\ pc' = [pc EXCEPT ![r] = "served"]
      /\ UNCHANGED <<completed, bucket, now, cache, unsigned, links, began>>
  BY DEF SkipStore, Goto, jobVars, vars
<1>2. /\ now \in 0 .. MaxTime /\ EntryInv /\ RequestInv(r)
      /\ pc \in [Requests -> {"idle", "row", "sign", "store"} \cup Answered]
      /\ began \in [Requests -> 0 .. MaxTime]
      /\ DOMAIN links = Requests /\ DOMAIN unsigned = Requests
  BY RequestsInvIs
<1>3. pc'[r] = "served"
  BY <1>1, <1>2
<1>4. OnlyRequest(r)
  BY <1>1, <1>2 DEF OnlyRequest, Answered
<1>5. EntryInv' /\ RequestInv(r)'
  BY <1>1, <1>2, <1>3 DEF EntryInv, RequestInv
<1> QED
  BY <1>4, <1>5, RequestKeeps

LEMMA FailRequestKeeps ==
    ASSUME RequestsInv, NEW r \in Requests, FailRequest(r)
    PROVE  RequestsInv'
<1>1. /\ pc' = [pc EXCEPT ![r] = "failed"]
      /\ unsigned' = [unsigned EXCEPT ![r] = {}] /\ links' = [links EXCEPT ![r] = {}]
      /\ UNCHANGED <<completed, bucket, now, cache, began>>
  BY DEF FailRequest, Goto, jobVars, vars
<1>2. /\ now \in 0 .. MaxTime /\ EntryInv /\ RequestInv(r)
      /\ pc \in [Requests -> {"idle", "row", "sign", "store"} \cup Answered]
      /\ began \in [Requests -> 0 .. MaxTime]
      /\ DOMAIN links = Requests /\ DOMAIN unsigned = Requests
  BY RequestsInvIs
<1>3. pc'[r] = "failed" /\ links'[r] = {} /\ unsigned'[r] = {}
  BY <1>1, <1>2
<1>4. OnlyRequest(r)
  BY <1>1, <1>2 DEF OnlyRequest, Answered
<1>5. EntryInv' /\ RequestInv(r)'
  BY <1>1, <1>2, <1>3 DEF EntryInv, RequestInv
<1> QED
  BY <1>4, <1>5, RequestKeeps

-----------------------------------------------------------------------------
(* The theorems.                                                           *)

LEMMA DownloadsInitHolds == DownloadsInit => DownloadsInv
<1> SUFFICES ASSUME DownloadsInit PROVE DownloadsInv
  OBVIOUS
<1>1. Init /\ now = 0 /\ cache = NoEntry
  BY DEF DownloadsInit
<1>2. ArtifactsInv
  BY <1>1, ArtifactsInitHolds
<1>3. cache.links = {} /\ cache.until = 0
  BY <1>1 DEF NoEntry
<1>4. EntryInv
  BY <1>3 DEF EntryInv
<1>5. ASSUME NEW r \in Requests PROVE RequestInv(r)
  <2>1. pc[r] = "idle" /\ unsigned[r] = {} /\ links[r] = {}
    BY DEF DownloadsInit
  <2> QED
    BY <2>1 DEF RequestInv
<1>6. /\ pc \in [Requests -> {"idle", "row", "sign", "store"} \cup Answered]
      /\ began \in [Requests -> 0 .. MaxTime]
      /\ DOMAIN links = Requests /\ DOMAIN unsigned = Requests
      /\ now \in 0 .. MaxTime
  BY DEF DownloadsInit
<1>7. RequestsInv
  BY <1>4, <1>5, <1>6, RequestsInvIs
<1> QED
  BY <1>2, <1>7 DEF DownloadsInv

LEMMA DownloadsStepKeeps == DownloadsInv /\ [DownloadsNext]_downloadVars => DownloadsInv'
<1> SUFFICES ASSUME ArtifactsInv, RequestsInv, [DownloadsNext]_downloadVars
             PROVE  ArtifactsInv' /\ RequestsInv'
  BY DEF DownloadsInv
<1>1. CASE JobStep
  BY <1>1, JobStepKeeps, ProcessMessageKeeps, ProcessResultKeeps DEF JobStep
<1>2. CASE Tick
  BY <1>2, TickKeeps, ArtifactsIdle DEF Tick
<1>3. ASSUME NEW r \in Requests, RequestStep(r) PROVE ArtifactsInv' /\ RequestsInv'
  <2>1. ArtifactsInv'
    BY <1>3, ArtifactsIdle DEF RequestStep, ReadCache, MissCache, ReadRow, SignLink,
       StoreCache, SkipStore, FailRequest
  <2>2. RequestsInv'
    BY <1>3, ReadCacheKeeps, MissCacheKeeps, ReadRowKeeps, SignLinkKeeps, StoreCacheKeeps,
       SkipStoreKeeps, FailRequestKeeps DEF RequestStep
  <2> QED
    BY <2>1, <2>2
<1>4. CASE UNCHANGED downloadVars
  <2>1. /\ UNCHANGED jobVars
        /\ UNCHANGED <<now, cache, pc, unsigned, links, began, completed, bucket>>
    BY <1>4 DEF downloadVars, requestVars, jobVars, vars
  <2>2. RequestsInv'
    BY <2>1 DEF RequestsInv, DownloadsTypeOK, SigningInv, CacheInv, AnswersAreWhole, TimeInv
  <2> QED
    BY <2>1, <2>2, ArtifactsIdle
<1> QED
  BY <1>1, <1>2, <1>3, <1>4 DEF DownloadsNext

(* The two inductive invariants: the bucket holds what the row and the     *)
(* result on its way name, and a request signs exactly that, with dates    *)
(* not older than its reading of the row (services.py:80-136).             *)
THEOREM DownloadsInvariant == DownloadsSpec => []DownloadsInv
BY DownloadsInitHolds, DownloadsStepKeeps, PTL DEF DownloadsSpec

(* Every key a request has to sign, has signed or finds in the cache is    *)
(* one of an object of the job.                                            *)
THEOREM DownloadsTypes == DownloadsSpec => []DownloadsTypeOK
<1>1. DownloadsInv => DownloadsTypeOK
  BY DEF DownloadsInv, RequestsInv
<1> QED
  BY <1>1, DownloadsInvariant, PTL

(* Whatever the stages and the names, the message built from the metadata  *)
(* of the stage before is accepted and reads objects that stage stored.    *)
THEOREM MessagesAreUsable == DownloadsSpec => []MessageIsUsable
<1>1. DownloadsInv => MessageIsUsable
  BY DEF DownloadsInv, ArtifactsInv
<1> QED
  BY <1>1, DownloadsInvariant, PTL

(* An answer is about a completed job and reaches exactly its objects,     *)
(* whoever filled the cache, for any number of requests.                   *)
THEOREM AnswersStayWhole == DownloadsSpec => []AnswersAreWhole
<1>1. DownloadsInv => AnswersAreWhole
  BY DEF DownloadsInv, RequestsInv
<1> QED
  BY <1>1, DownloadsInvariant, PTL

LEMMA AnswersAreInTime ==
    ASSUME RequestsInv, NEW r \in Requests, [DownloadsNext]_downloadVars,
           pc'[r] = "served", pc[r] # "served", NEW l \in links'[r]
    PROVE  now < l.expires + SigningTime + TicksPerSecond - 1
<1>1. /\ now \in Nat /\ EntryInv /\ RequestInv(r) /\ began[r] \in Nat
      /\ pc \in [Requests -> {"idle", "row", "sign", "store"} \cup Answered]
      /\ DOMAIN links = Requests
  BY RequestsInvIs
<1>2. ReadCache(r) \/ StoreCache(r) \/ SkipStore(r)
  <2>1. PICK q \in Requests : RequestStep(q)
    <3>1. pc' # pc
      OBVIOUS
    <3> QED
      BY <3>1 DEF DownloadsNext, JobStep, Tick, downloadVars, requestVars
  <2>2. q = r
    BY <1>1, <2>1 DEF RequestStep, ReadCache, MissCache, ReadRow, SignLink, StoreCache,
       SkipStore, FailRequest, Goto
  <2>3. ~MissCache(r) /\ ~ReadRow(r) /\ ~SignLink(r) /\ ~FailRequest(r)
    BY <1>1 DEF MissCache, ReadRow, SignLink, FailRequest, Goto
  <2> QED
    BY <2>1, <2>2, <2>3 DEF RequestStep
<1>3. CASE ReadCache(r)
  <2>1. l \in cache.links /\ now < cache.until
    BY <1>1, <1>3 DEF ReadCache, Cached
  <2> QED
    BY <1>1, <2>1 DEF EntryInv
<1>4. CASE StoreCache(r) \/ SkipStore(r)
  <2>1. l \in links[r] /\ pc[r] = "store"
    BY <1>1, <1>4 DEF StoreCache, SkipStore
  <2>2. /\ now <= began[r] + SigningTime /\ l.expires \in Nat
        /\ began[r] + DownloadTtl < l.expires + TicksPerSecond
    BY <1>1, <2>1 DEF RequestInv
  <2> QED
    BY <1>1, <2>2
<1> QED
  BY <1>2, <1>3, <1>4

(* However hits and refills follow one another, an answer's links expired  *)
(* no longer ago than their signing took.                                  *)
THEOREM LinksOutliveTheirEntry == DownloadsSpec => LinksExpireWithTheCache
<1>1. RequestsInv /\ [DownloadsNext]_downloadVars =>
          [\A r \in Requests : pc'[r] = "served" /\ pc[r] # "served" =>
             \A l \in links'[r] : now < l.expires + SigningTime + TicksPerSecond - 1]_downloadVars
  BY AnswersAreInTime
<1>2. DownloadsInv => RequestsInv
  BY DEF DownloadsInv
<1> QED
  BY <1>1, <1>2, DownloadsInvariant, PTL DEF DownloadsSpec, LinksExpireWithTheCache
=============================================================================
