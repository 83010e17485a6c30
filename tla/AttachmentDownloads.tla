-------------------------- MODULE AttachmentDownloads --------------------------
(***************************************************************************)
(* Calls of the tool infoflow_download_attachment (tools.py) on the files  *)
(* of one message, with download_inbound_file (inbound_files.py) and the   *)
(* access token they share (TokenCache).                                   *)
(*                                                                         *)
(* A download asks for a URL and fetches it with the same token; a refused *)
(* token is refreshed and the whole sequence repeated.  The tool read the  *)
(* record of the message before the download and writes its files back     *)
(* after it.                                                               *)
(***************************************************************************)
EXTENDS TokenCache

CONSTANTS
  Files,   \* the files of the message
  FileOf   \* the file a call asks for

ASSUME DownloadAssumption == FileOf \in [Callers -> Files]

Downloads == Callers  \* the calls of the tool: other callers would only join in
Statuses == {"not_downloaded", "downloaded", "failed"}

VARIABLES
  record,    \* _hermes_infoflow_files of the stored message: file -> status
  disk,      \* files stored on disk, complete
  pc,        \* where each call of the tool waits
  stage,     \* which 401 it has had
  token,     \* the token it holds
  url,       \* the token its download URL was issued to
  snapshot,  \* the statuses in the record it read
  outcome    \* the status it will write back, and the error

downloadVars == <<record, disk, pc, stage, token, url, snapshot, outcome>>
vars == <<tokenVars, downloadVars>>

Points == {"idle", "token", "url", "get", "write", "done", "aborted"}

TypeOK ==
  /\ TokenTypeOK
  /\ record \in [Files -> Statuses]
  /\ disk \subseteq Files
  /\ pc \in [Downloads -> Points]
  /\ stage \in [Downloads -> {"first", "url401", "get401"}]
  /\ token \in [Downloads -> Tokens \cup {None}]
  /\ url \in [Downloads -> Tokens \cup {None}]
  /\ snapshot \in [Downloads -> [Files -> Statuses]]
  /\ outcome \in [Downloads -> [status : Statuses, error : {"", "401", "other"}]]

Init ==
  /\ TokenInit
  /\ record = [f \in Files |-> "not_downloaded"]
  /\ disk = {}
  /\ pc = [d \in Downloads |-> "idle"]
  /\ stage = [d \in Downloads |-> "first"]
  /\ token = [d \in Downloads |-> None]
  /\ url = [d \in Downloads |-> None]
  /\ snapshot = [d \in Downloads |-> record]
  /\ outcome = [d \in Downloads |-> [status |-> "not_downloaded", error |-> ""]]

GoTo(d, point) == pc' = [pc EXCEPT ![d] = point]

\* download_inbound_file returns, and its locals are gone.
ToWrite(d, status, error) ==
  /\ GoTo(d, "write")
  /\ stage' = [stage EXCEPT ![d] = "first"]
  /\ token' = [token EXCEPT ![d] = None]
  /\ url' = [url EXCEPT ![d] = None]
  /\ outcome' = [outcome EXCEPT ![d] = [status |-> status, error |-> error]]

-----------------------------------------------------------------------------
\* The handler reads the record.  Unless it is told to, it does not repeat a
\* download; a file that is on disk is not fetched again.
Begin(d) ==
  /\ pc[d] = "idle"
  /\ snapshot' = [snapshot EXCEPT ![d] = record]
  /\ \/ /\ record[FileOf[d]] = "downloaded" /\ FileOf[d] \in disk
        /\ GoTo(d, "done")
        /\ outcome' = [outcome EXCEPT ![d].status = "downloaded"]
        /\ UNCHANGED <<tokenVars, stage, token, url>>
     \/ /\ FileOf[d] \in disk
        /\ ToWrite(d, "downloaded", "")
        /\ UNCHANGED tokenVars
     \/ /\ FileOf[d] \notin disk
        /\ GoTo(d, "token")
        /\ Enter(d, FALSE)
        /\ UNCHANGED <<stage, token, url, outcome>>
  /\ UNCHANGED <<record, disk>>

\* get_access_token returns or raises; a cancellation is no Exception and
\* leaves the handler without writing anything back.
TokenArrives(d) ==
  /\ pc[d] = "token"
  /\ Return(d)
  /\ \/ /\ call[d].st = "ok"
        /\ token' = [token EXCEPT ![d] = call[d].token]
        /\ GoTo(d, "url")
        /\ UNCHANGED <<stage, url, outcome>>
     \/ call[d].st = "failed" /\ ToWrite(d, "failed", "other")
     \/ /\ call[d].st = "cancelled"
        /\ GoTo(d, "aborted")
        /\ UNCHANGED <<stage, token, url, outcome>>
  /\ UNCHANGED <<record, disk, snapshot>>

\* Refused for the first time at this point: refresh, and start over.
Retry(d, refused) ==
  /\ stage' = [stage EXCEPT ![d] = refused]
  /\ GoTo(d, "token")
  /\ Enter(d, TRUE)
  /\ UNCHANGED <<token, url, outcome>>

GiveUp(d, error) == ToWrite(d, "failed", error) /\ UNCHANGED tokenVars

\* get_inbound_file_download_url
RequestUrl(d) ==
  /\ pc[d] = "url"
  /\ \/ /\ token[d] \in live
        /\ url' = [url EXCEPT ![d] = token[d]]
        /\ GoTo(d, "get")
        /\ UNCHANGED <<tokenVars, stage, token, outcome>>
     \/ token[d] \notin live /\ stage[d] = "first" /\ Retry(d, "url401")
     \/ token[d] \notin live /\ stage[d] # "first" /\ GiveUp(d, "401")
  /\ UNCHANGED <<record, disk, snapshot>>

\* Either answer may be any other error instead, and the bytes may be wrong.
OtherError(d) ==
  /\ pc[d] \in {"url", "get"}
  /\ GiveUp(d, "other")
  /\ UNCHANGED <<record, disk, snapshot>>

\* _download_bytes, the checks of size and digest, and the file.
Accepted(d) == url[d] = token[d] /\ token[d] \in live

Get(d) ==
  /\ pc[d] = "get"
  /\ \/ /\ Accepted(d)
        /\ disk' = disk \cup {FileOf[d]}
        /\ ToWrite(d, "downloaded", "")
        /\ UNCHANGED tokenVars
     \/ ~Accepted(d) /\ stage[d] # "get401" /\ Retry(d, "get401") /\ UNCHANGED disk
     \/ ~Accepted(d) /\ stage[d] = "get401" /\ GiveUp(d, "401") /\ UNCHANGED disk
  /\ UNCHANGED <<record, snapshot>>

\* _persist_record_raw_json with the files of the record read at the beginning.
Written_Assumed(d) == [snapshot[d] EXCEPT ![FileOf[d]] = "downloaded"]
Written(d) == [snapshot[d] EXCEPT ![FileOf[d]] = outcome[d].status]

WriteBack(d) ==
  /\ pc[d] = "write"
  /\ record' = Written(d)
  /\ GoTo(d, "done")
  /\ UNCHANGED <<tokenVars, disk, stage, token, url, snapshot, outcome>>

DownloadStep(d) ==
  Begin(d) \/ TokenArrives(d) \/ RequestUrl(d) \/ OtherError(d) \/ Get(d) \/ WriteBack(d)

Next ==
  \/ \E d \in Downloads :
       \/ DownloadStep(d)
       \/ (TokenStep(d) \/ TokenFault(d)) /\ UNCHANGED downloadVars
  \/ (Outside \/ Tick) /\ UNCHANGED downloadVars

Spec == Init /\ [][Next]_vars

\* Requests have timeouts, so the steps of a call follow each other.
Fairness ==
  \A d \in Downloads : /\ WF_vars(pc[d] # "idle" /\ DownloadStep(d))
                       /\ WF_vars(TokenStep(d) /\ UNCHANGED downloadVars)

FairSpec == Spec /\ Fairness

-----------------------------------------------------------------------------
(* Properties *)

\* A download that was refused goes on with a token issued after the refused
\* one, even when it joins a refresh someone else began.
RetriesNewerToken ==
  [][\A d \in Downloads :
       pc[d] = "token" /\ pc'[d] = "url" => token'[d] > token[d]]_vars

\* The bytes are fetched with the token their URL was issued to
\* (docs/infoflow-inbound-files.md:248-249, 261).
NeverMixesTokens == \A d \in Downloads : pc[d] = "get" => url[d] = token[d]

\* What the record calls downloaded is there.
DownloadedIsOnDisk == \A f \in Files : record[f] = "downloaded" => f \in disk

\* Downloads and the token cache stay in step: one refresh that nobody waits
\* for in vain, a URL only with its token, a record only with its file
\* (api.py:323-400, inbound_files.py:278-360, tools.py:2263).
DownloadsInStep ==
  TypeOK /\ OneRefresh /\ NoWaiterStranded /\ NeverMixesTokens /\ DownloadedIsOnDisk

\* Tokens are only replaced by newer ones, in the cache and by a download that
\* was refused (api.py:341-385, inbound_files.py:297).
TokensRenew == CacheNeverGoesBack /\ RetriesNewerToken

\* Every call of the tool ends, whoever owns the refresh it waits for and
\* whatever becomes of that caller.
EveryCallEnds ==
  \A d \in Downloads : pc[d] # "idle" ~> pc[d] \in {"done", "aborted"}

\* docs/infoflow-inbound-files.md:1099: the shared refresh and the token snapshot
\* avoid that concurrent refreshes make a download fail.
ConcurrentRefreshIsHarmless == \A d \in Downloads : outcome[d].error # "401"
=============================================================================
