------------------------------ MODULE Downloads ------------------------------
(***************************************************************************)
(* The download links of one job (JobService.get_download_links) while the *)
(* job makes its way through Artifacts: the Redis cache, the row, the      *)
(* signatures and their common lifetime.  A request is a process with one  *)
(* action per await; it may be sent again when it has been answered.       *)
(*                                                                         *)
(* Time is counted in ticks.  A signature carries the whole second it was  *)
(* made in, Redis counts a key's lifetime from the moment it is set.       *)
(***************************************************************************)
EXTENDS Artifacts

CONSTANTS Requests,        \* concurrent download-links requests
          DownloadTtl,     \* settings.app.download_url_ttl_seconds, in ticks
          TicksPerSecond,
          SigningTime,     \* the longest a request takes from the row it
                           \* read to the cache entry
          MaxTime          \* bound on the clock

ASSUME DownloadsAssumption ==
    /\ DownloadTtl \in Nat \ {0}
    /\ TicksPerSecond \in Nat \ {0}
    /\ SigningTime \in Nat
    /\ MaxTime \in Nat

VARIABLES
    now,
    cache,    \* the job's Redis entry [links, until], or NoEntry
    pc,       \* where each request is
    unsigned, \* the keys of the row it read that it still has to sign
    links,    \* the links [key, expires] it has signed or found
    began     \* when it had read the row

jobVars == vars
requestVars == <<pc, unsigned, links, began>>
downloadVars == <<jobVars, now, cache, requestVars>>

NoEntry == [links |-> {}, until |-> 0]
Answered == {"served", "refused", "failed"}      \* 200, 409 and 500

DownloadsTypeOK ==
    /\ now \in 0 .. MaxTime
    /\ pc \in [Requests -> {"idle", "row", "sign", "store"} \cup Answered]
    /\ \A r \in Requests : /\ unsigned[r] \subseteq bucket
                           /\ \A l \in links[r] : l.key \in bucket
    /\ \A l \in cache.links : l.key \in bucket
    /\ began \in [Requests -> 0 .. MaxTime]

DownloadsInit ==
    /\ Init
    /\ now = 0
    /\ cache = NoEntry
    /\ pc = [r \in Requests |-> "idle"]
    /\ unsigned = [r \in Requests |-> {}]
    /\ links = [r \in Requests |-> {}]
    /\ began = [r \in Requests |-> 0]

-----------------------------------------------------------------------------
Goto(r, label) == pc' = [pc EXCEPT ![r] = label]

(* A request between its row and its cache entry takes SigningTime         *)
(* at most: the clock does not run past it.                                *)
Tick ==
    /\ now < MaxTime
    /\ \A r \in Requests : pc[r] \in {"sign", "store"} => now - began[r] < SigningTime
    /\ now' = now + 1
    /\ UNCHANGED <<jobVars, cache, requestVars>>

JobStep ==
    /\ ProcessMessage \/ ProcessResult
    /\ UNCHANGED <<now, cache, requestVars>>

Cached == now < cache.until

(* Fault: a hit gives the entry another full lifetime.                     *)
ReadCacheRenews(r) ==
    /\ pc[r] \in {"idle"} \cup Answered
    /\ Cached
    /\ links' = [links EXCEPT ![r] = cache.links]
    /\ cache' = [cache EXCEPT !.until = now + DownloadTtl]
    /\ Goto(r, "served")
    /\ UNCHANGED <<jobVars, now, unsigned, began>>

(* A hit is the answer.                                                    *)
ReadCache(r) ==
    /\ pc[r] \in {"idle"} \cup Answered
    /\ Cached
    /\ links' = [links EXCEPT ![r] = cache.links]
    /\ Goto(r, "served")
    /\ UNCHANGED <<jobVars, now, cache, unsigned, began>>

(* No entry, or Redis raises, or the entry does not pass the response's    *)
(* model: the request goes on as if there were none.                       *)
MissCache(r) ==
    /\ pc[r] \in {"idle"} \cup Answered
    /\ Goto(r, "row")
    /\ links' = [links EXCEPT ![r] = {}]
    /\ began' = [began EXCEPT ![r] = 0]
    /\ UNCHANGED <<jobVars, now, cache, unsigned>>

(* Fault: links are offered of a job that is still being processed.        *)
ReadRowAnyJob(r) ==
    /\ pc[r] = "row"
    /\ Goto(r, "sign")
    /\ unsigned' = [unsigned EXCEPT ![r] = DownloadLinks]
    /\ began' = [began EXCEPT ![r] = now]
    /\ UNCHANGED <<jobVars, now, cache, links>>

(* JobNotCompletedError, or the files the row names.                       *)
ReadRow(r) ==
    /\ pc[r] = "row"
    /\ Goto(r, IF completed THEN "sign" ELSE "refused")
    /\ unsigned' = [unsigned EXCEPT ![r] = IF completed THEN DownloadLinks ELSE {}]
    /\ began' = [began EXCEPT ![r] = IF completed THEN now ELSE 0]
    /\ UNCHANGED <<jobVars, now, cache, links>>

Whole(t) == (t \div TicksPerSecond) * TicksPerSecond

(* The files are signed one after the other; their order is of no account. *)
SignLink(r) ==
    /\ pc[r] = "sign"
    /\ LET key == CHOOSE k \in unsigned[r] : TRUE
       IN  /\ links' = [links EXCEPT ![r] =
                           @ \cup {[key |-> key, expires |-> Whole(now) + DownloadTtl]}]
           /\ unsigned' = [unsigned EXCEPT ![r] = @ \ {key}]
           /\ Goto(r, IF unsigned[r] = {key} THEN "store" ELSE "sign")
    /\ UNCHANGED <<jobVars, now, cache, began>>

(* setex with the links' full lifetime.                                    *)
StoreCache(r) ==
    /\ pc[r] = "store"
    /\ cache' = [links |-> links[r], until |-> now + DownloadTtl]
    /\ Goto(r, "served")
    /\ UNCHANGED <<jobVars, now, unsigned, links, began>>

(* Redis raises: the answer is given all the same.                         *)
SkipStore(r) ==
    /\ pc[r] = "store"
    /\ Goto(r, "served")
    /\ UNCHANGED <<jobVars, now, cache, unsigned, links, began>>

(* PostgreSQL or the signing client raises.                                *)
FailRequest(r) ==
    /\ pc[r] \in {"row", "sign"}
    /\ Goto(r, "failed")
    /\ unsigned' = [unsigned EXCEPT ![r] = {}]
    /\ links' = [links EXCEPT ![r] = {}]
    /\ UNCHANGED <<jobVars, now, cache, began>>

RequestStep(r) ==
    \/ ReadCache(r) \/ MissCache(r) \/ ReadRow(r) \/ SignLink(r)
    \/ StoreCache(r) \/ SkipStore(r) \/ FailRequest(r)

DownloadsNext == JobStep \/ Tick \/ \E r \in Requests : RequestStep(r)

(* The workers and the result consumer go on; nobody has to ask for links. *)
DownloadsSpec ==
    /\ DownloadsInit
    /\ [][DownloadsNext]_downloadVars
    /\ WF_downloadVars(JobStep)

-----------------------------------------------------------------------------
(* Properties.                                                             *)

(* Whoever filled the cache, and when: an answer is about a completed job  *)
(* and its links lead to exactly the objects the job has.  No listing of a *)
(* job under way is ever kept for later (services.py:80-136).              *)
AnswersAreWhole ==
    \A r \in Requests : pc[r] = "served" =>
        completed /\ {l.key : l \in links[r]} = bucket

(* "Cache the signed links until their S3 signatures expire"               *)
(* (repository.py:100) holds up to the time a request takes: an answer has *)
(* no link that expired longer ago than signing them all took, and what    *)
(* the signature's date loses to whole seconds.  Hits and refills in any     *)
(* order do not add up.                                                    *)
LinksExpireWithTheCache ==
    [][\A r \in Requests : pc'[r] = "served" /\ pc[r] # "served" =>
          \A l \in links'[r] : now < l.expires + SigningTime + TicksPerSecond - 1]_downloadVars
=============================================================================
