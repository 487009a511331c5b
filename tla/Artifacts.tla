------------------------------ MODULE Artifacts ------------------------------
(***************************************************************************)
(* The contract between the backend and the workers about one job's files: *)
(* what they are called, under which S3 key they are stored, what the      *)
(* stage messages and the stage metadata say of them, and which of them    *)
(* the download links reach.  Scheduling and failures are Pipeline's;      *)
(* here every step succeeds unless the data makes it impossible.           *)
(*                                                                         *)
(* A path component is a name [stem, ext]; a stem is the sequence of its   *)
(* parts, of which only the first comes from the user.  A key is the       *)
(* sequence of components behind the prefix <user>/<job>.                  *)
(***************************************************************************)
EXTENDS Stages, SequencesExt

CONSTANTS NameLengths,  \* lengths of the user's file names, ".wav" included
          NameMax,      \* longest file name the worker's file system stores
          Contents      \* what uploads may contain, see content

ASSUME ArtifactsAssumption ==
    /\ NameLengths \subseteq 5 .. 255
    /\ NameMax \in Nat
    /\ Contents \subseteq {"words", "silence", "no_audio"}

VARIABLES selected,  \* jobs.selected_options
          length,    \* length of the uploaded file's name
          content,   \* what is in it: audio in which the transcription finds
                     \* words, audio in which it finds none, or neither
          bucket,    \* keys of the job's objects
          message,   \* the stage message being worked on, or NoMessage
          result,    \* the result event on its way back, or NoResult
          stages,    \* jobs.stages: metadata of the stages done
          completed  \* jobs.completed

vars == <<selected, length, content, bucket, message, result, stages, completed>>

-----------------------------------------------------------------------------
(* Names and keys.                                                         *)

Directory(d) == [stem |-> <<d>>, ext |-> ""]
NoName == [stem |-> <<>>, ext |-> ""]
Uploaded == [stem |-> <<"file">>, ext |-> ".wav"]

(* Characters each part of a stem adds.                                    *)
PartLength(part) ==
    CASE part = "file"         -> length - 4
      [] part = "_cleaned"     -> 8
      [] part \in {"_speaker_1", "_speaker_2"} -> 10
      [] part = "_full_script" -> 12
      [] part = "_summary"     -> 8

NameLength(n) == 4 + FoldSeq(LAMBDA part, sum : PartLength(part) + sum, 0, n.stem)

Extended(n, part, ext) == [stem |-> Append(n.stem, part), ext |-> ext]

(* Fault: the file name is always appended.                                *)
ObjectKeyAppends(key, filename) == Append(key, filename)

(* Both services append the file name unless the key ends with it already. *)
ObjectKey(key, filename) ==
    IF Last(key) = filename THEN key ELSE Append(key, filename)

(* The names of run_denoise, run_separation and run_transcription.         *)
Cleaned(input) == Extended(input, "_cleaned", ".wav")
Speaker1(input) == Extended(input, "_speaker_1", ".wav")
Speaker2(input) == Extended(input, "_speaker_2", ".wav")
FullScript(input, separated) ==
    Extended(IF separated THEN [input EXCEPT !.stem = Front(@)] ELSE input,
             "_full_script", ".txt")

(* What a stage writes, from the name of its first input.                  *)
OutputNames(s, input, separated) ==
    CASE s = "denoise"    -> <<Cleaned(input)>>
      [] s = "separate"   -> <<Speaker1(input), Speaker2(input)>>
      [] s = "transcribe" -> <<FullScript(input, separated)>>
      [] OTHER            -> <<Extended(input, "_summary", ".txt")>>

-----------------------------------------------------------------------------
(* Messages.                                                               *)

NoMessage == [requested_stage |-> "none"]

Message(s, key, initial, separated, names) ==
    [requested_stage |-> s, s3_key |-> key, is_initial |-> initial,
     is_seperated |-> separated,
     input_filename  |-> IF separated THEN NoName ELSE names[1],
     input_filename1 |-> IF separated THEN names[1] ELSE NoName,
     input_filename2 |-> IF separated THEN names[2] ELSE NoName]

(* The first selected stage reads the original upload.                     *)
FirstMessage == Message(FirstStage(selected), <<Directory("original")>>, TRUE, FALSE,
                        <<Uploaded>>)

(* Fault: every message for transcribe is taken to be a separated one.     *)
NextStageMessageSeparated(s, next, data) ==
    Message(next, data.s3_key, FALSE, next = "transcribe",
            IF s = "separate"
            THEN <<data.first_filename, data.second_filename>>
            ELSE <<data.filename, NoName>>)

(* _build_next_stage_job, from the metadata of the stage that is done.     *)
NextStageMessage(s, next, data) ==
    Message(next, data.s3_key, FALSE, next = "transcribe" /\ s = "separate",
            IF s = "separate" /\ next = "transcribe"
            THEN <<data.first_filename, data.second_filename>>
            ELSE <<IF s = "separate" THEN NoName ELSE data.filename>>)

(* The message models of the backend and of the worker accept it.          *)
ValidMessage(m) ==
    IF m.is_seperated
    THEN /\ m.requested_stage = "transcribe"
         /\ m.input_filename1 # NoName /\ m.input_filename2 # NoName
         /\ m.input_filename = NoName
    ELSE /\ m.input_filename # NoName
         /\ m.input_filename1 = NoName /\ m.input_filename2 = NoName

InputNames(m) == IF m.is_seperated THEN <<m.input_filename1, m.input_filename2>>
                                   ELSE <<m.input_filename>>

InputKeys(m) == {ObjectKey(m.s3_key, InputNames(m)[i]) : i \in DOMAIN InputNames(m)}

Outputs(m) == OutputNames(m.requested_stage, InputNames(m)[1], m.is_seperated)

OutputKeys(m) == [i \in DOMAIN Outputs(m) |-> <<Directory(m.requested_stage), Outputs(m)[i]>>]

(* Every file the worker creates while it handles the message.             *)
LocalNames(m) == ToSet(InputNames(m)) \cup ToSet(Outputs(m))

NamesFit(m) == \A n \in LocalNames(m) : NameLength(n) <= NameMax

(* _stage_metadata: the key of the object, or for separate of its folder.  *)
StageMetadata(m) ==
    IF m.requested_stage = "separate"
    THEN [s3_key |-> Front(OutputKeys(m)[1]),
          first_filename |-> Outputs(m)[1], second_filename |-> Outputs(m)[2]]
    ELSE [s3_key |-> OutputKeys(m)[1], filename |-> Outputs(m)[1]]

-----------------------------------------------------------------------------
(* The job's way through the two services.                                 *)

(* A file that does not decode is refused by each stage that reads audio,  *)
(* a transcript without words by run_summarization: the message is retried *)
(* for ever.                                                               *)
HasInput(s) == CASE content = "words"    -> TRUE
                 [] content = "silence"  -> s # "summarize"
                 [] content = "no_audio" -> FALSE

NoResult == [completed_stage |-> "none"]

Init ==
    /\ selected \in Selections
    /\ length \in NameLengths
    /\ content \in Contents
    /\ bucket = {<<Directory("original"), Uploaded>>}
    /\ message = FirstMessage
    /\ result = NoResult
    /\ stages = <<>>
    /\ completed = FALSE

ProcessMessage ==
    /\ message # NoMessage
    /\ ValidMessage(message)
    /\ InputKeys(message) \subseteq bucket
    /\ NamesFit(message)
    /\ HasInput(message.requested_stage)
    /\ bucket' = bucket \cup ToSet(OutputKeys(message))
    /\ result' = [completed_stage |-> message.requested_stage,
                  stage_data |-> StageMetadata(message)]
    /\ message' = NoMessage
    /\ UNCHANGED <<selected, length, content, stages, completed>>

ProcessResult ==
    LET s == result.completed_stage
        last == Later(selected, s) = {}
    IN  /\ result # NoResult
        /\ stages' = Append(stages, <<s, result.stage_data>>)
        /\ completed' = last
        /\ message' = IF last THEN NoMessage
                      ELSE NextStageMessage(s, NextStage(selected, s), result.stage_data)
        /\ result' = NoResult
        /\ UNCHANGED <<selected, length, content, bucket>>

Next == ProcessMessage \/ ProcessResult

Spec == Init /\ [][Next]_vars
FairSpec == Spec /\ WF_vars(Next)

-----------------------------------------------------------------------------
(* get_download_links: the original and every file the metadata names.     *)
StageLinks(entry) ==
    LET data == entry[2]
        names == IF entry[1] = "separate" THEN {data.first_filename, data.second_filename}
                                          ELSE {data.filename}
    IN  {ObjectKey(data.s3_key, n) : n \in names}

DownloadLinks == {ObjectKey(<<Directory("original")>>, Uploaded)}
                 \cup UNION {StageLinks(stages[i]) : i \in DOMAIN stages}

-----------------------------------------------------------------------------
(* Properties.                                                             *)

(* Every message the backend builds, from whatever metadata the worker of  *)
(* the stage before returned, passes the checks of both services, and the  *)
(* keys it resolves to are objects that worker stored.                     *)
MessageIsUsable ==
    message # NoMessage => ValidMessage(message) /\ InputKeys(message) \subseteq bucket

(* Every upload the request schema accepts can be processed to the end:    *)
(* "filename: str = Field(min_length=1, max_length=255)" (schemas.py:12).  *)
AcceptedUploadsComplete == <>completed

(* A recording comes through every selection: names, keys and messages     *)
(* stop none.  What is not audio never does, nor does the summary of a     *)
(* transcript without words (summarize/inference.py:63).                   *)
RecordingsComplete ==
    <>(\/ completed
       \/ content = "no_audio"
       \/ content = "silence" /\ "summarize" \in selected)
=============================================================================
