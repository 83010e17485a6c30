---------------------------- MODULE HostedFiles ----------------------------
(* Local files as URLs of the platform's object store (file_to_url.py): a    *)
(* file outside the shared directory is copied into it, a file inside is     *)
(* uploaded under a key made of its path, and the URL is kept in a table,    *)
(* with the digest of what was uploaded, for the next time.  Tools publish   *)
(* from their own threads and cron sends from another process, so the steps  *)
(* of two publishes may alternate anywhere.                                  *)
(*                                                                           *)
(* A digest is the content.  Each outside file has the same name, and one    *)
(* day's directory is modelled; the other accounts have rows and keys of     *)
(* their own.  The size limit and the http sources, which are passed through,*)
(* touch no state.                                                           *)
EXTENDS Integers, FiniteSets

CONSTANTS
  Publishes,   \* the calls of publish_file, in the order in which they begin
  OutsideFiles, OwnFiles,  \* numbers of the files outside and inside the directory
  SlotCount,   \* names tried for an import: "a.png", "a_1.png", ...
  Contents,    \* what a file may hold: positive numbers
  TempUrl, PermanentUrl,   \* hours a URL is good for
  Skew,        \* URL_REFRESH_SKEW_SECONDS
  MaxActive, MaxHour, MaxEdits, MaxHostedFaults   \* bounds

ASSUME HostedAssumption ==
  /\ Publishes \subseteq Nat /\ Contents \subseteq Nat \ {0} /\ SlotCount \in Nat \ {0}
  /\ OutsideFiles \cup OwnFiles \subseteq Contents   \* what they hold at first
  /\ {Skew, TempUrl, PermanentUrl} \subseteq Nat
  /\ TempUrl > Skew /\ PermanentUrl >= TempUrl
  /\ MaxHour \in Nat /\ MaxEdits \in Nat /\ MaxHostedFaults \in Nat

VARIABLES
  files,    \* content and modification time of each file, content 0 if there is none
  bos,     \* content of the object under each path's key, 0 if there is none
  hosted,  \* shared_files: the row of each path, or NoHosted
  job,     \* the locals of each publish
  hour,    \* time.time()
  loose,   \* history: paths with an upload no row was stored for, or whose row
           \* was stored by a publish that had met another
  edits, hostedFaults

hostedVars == <<files, bos, hosted, job, hour, loose, edits, hostedFaults>>

Slots == {<<"slot", n>> : n \in 1..SlotCount}
OutsidePaths == {<<"outside", n>> : n \in OutsideFiles}
OwnPaths == {<<"own", n>> : n \in OwnFiles}

(* stage_image_bytes_to_file: the digest of the image is in its name. *)
StagedPath(v) == <<"image", v>>

Inside == Slots \cup OwnPaths \cup {StagedPath(v) : v \in Contents}
Paths == OutsidePaths \cup Inside

NoFile == [content |-> 0, mtime |-> 0]
NoHosted == [md5 |-> 0, out |-> <<"none", 0>>, until |-> 0, expires |-> 0, updated |-> 0]

\* seen: what the source has held meanwhile.  clean: nobody else has written
\* the path or its object meanwhile.  On return, serves: the URL's object is
\* the content that was published; genuine: the source has held it; known: the
\* path was not loose.
NewJob == [at |-> "new", source |-> <<"none", 0>>, path |-> <<"none", 0>>, body |-> 0,
           ts |-> 0, until |-> 0, uploaded |-> FALSE,
           seen |-> {}, clean |-> TRUE, serves |-> TRUE, genuine |-> TRUE, known |-> TRUE]

Ended == {"returned", "failed"}
JobPoints == {"new", "copy", "look", "upload", "url", "verify", "store"} \cup Ended

HostedTypeOK ==
  /\ \A f \in Paths : files[f].content \in Contents \cup {0} /\ files[f].mtime \in 0..MaxHour
  /\ bos \in [Inside -> Contents \cup {0}]
  /\ \A f \in Inside : hosted[f] # NoHosted =>
       hosted[f].md5 \in Contents /\ hosted[f].out \in OutsidePaths \cup {<<"none", 0>>}
  /\ \A p \in Publishes :
       /\ job[p].at \in JobPoints
       /\ job[p].at \notin {"new", "failed"} => job[p].path \in Inside
       /\ job[p].at \in {"upload", "url", "verify", "store"} => job[p].body \in Contents
  /\ loose \subseteq Inside /\ hour \in 0..MaxHour

HostedInit ==
  /\ files = [f \in Paths |->
               IF f \in OutsidePaths \cup OwnPaths THEN [content |-> f[2], mtime |-> 0] ELSE NoFile]
  /\ bos = [f \in Inside |-> 0]
  /\ hosted = [f \in Inside |-> NoHosted]
  /\ job = [p \in Publishes |-> NewJob]
  /\ hour = 0 /\ loose = {} /\ edits = 0 /\ hostedFaults = 0

Active(p) == job[p].at \notin {"new"} \cup Ended

MayBegin(p) ==
  /\ job[p].at = "new"
  /\ \A q \in Publishes : q < p => job[q].at # "new"
  /\ Cardinality({q \in Publishes : Active(q)}) < MaxActive

\* What another publish of the path sees change under it.
Disturbed(p, path) ==
  [q \in Publishes |->
     IF q # p /\ Active(q) /\ job[q].path = path THEN [job[q] EXCEPT !.clean = FALSE] ELSE job[q]]

HostedFault == hostedFaults < MaxHostedFaults /\ hostedFaults' = hostedFaults + 1

-----------------------------------------------------------------------------

(* allocate_shared_path: the first name that is free; if none is, the file   *)
(* with the oldest modification time goes.  A copy has that of its source.   *)
Allocated ==
  LET free == {s \in Slots : files[s] = NoFile}
      from == IF free # {} THEN free ELSE Slots
  IN CHOOSE s \in from :
       \A t \in from : IF free # {} THEN s[2] <= t[2]
                       ELSE \/ files[s].mtime < files[t].mtime
                            \/ files[s].mtime = files[t].mtime /\ s[2] <= t[2]

\* _db_fetch_import_by_out_path
Imports(f) ==
  LET those == {s \in Inside : hosted[s].out = f /\ hosted[s].md5 = files[f].content}
  IN {s \in those : \A t \in those : hosted[s].updated >= hosted[t].updated}

(* Mutant: a copy that is still there is taken for the source. *)
Reusable_IfThere(f) == {s \in Imports(f) : files[s] # NoFile}

(* _resolve_shared_path_for_source: the copy must hold what the source holds. *)
Reusable(f) == {s \in Imports(f) : files[s].content = files[f].content}

Started(p, f, path, at) ==
  [Disturbed(p, IF at = "copy" THEN path ELSE f) EXCEPT ![p] =
     [NewJob EXCEPT !.at = at, !.source = f, !.path = path, !.ts = hour,
                    !.seen = {files[f].content}]]

\* publish_file of an outside file, up to the copy.
BeginOutside(p, f) ==
  /\ MayBegin(p) /\ f \in OutsidePaths
  /\ \/ /\ \E s \in Reusable(f) : job' = Started(p, f, s, "look")
        /\ UNCHANGED files
     \/ /\ Imports(f) = {} \/ Reusable(f) # Imports(f)
        /\ job' = Started(p, f, Allocated, "copy")
        /\ files' = [files EXCEPT ![Allocated] = NoFile]
  /\ UNCHANGED <<bos, hosted, hour, loose, edits, hostedFaults>>

BeginOwn(p, f) ==
  /\ MayBegin(p) /\ f \in OwnPaths
  /\ job' = Started(p, f, f, "look")
  /\ UNCHANGED <<files, bos, hosted, hour, loose, edits, hostedFaults>>

\* publish_image_segment_to_url with bytes: staged unless it is there already.
BeginImage(p, v) ==
  LET f == StagedPath(v) IN
  /\ MayBegin(p)
  /\ files' = IF files[f].content = v THEN files
             ELSE [files EXCEPT ![f] = [content |-> v, mtime |-> hour]]
  /\ job' = [job EXCEPT ![p] =
               [NewJob EXCEPT !.at = "look", !.source = f, !.path = f, !.ts = hour, !.seen = {v}]]
  /\ UNCHANGED <<bos, hosted, hour, loose, edits, hostedFaults>>

\* import_to_shared_files: shutil.copy2
Copy(p) ==
  LET j == job[p] IN
  /\ j.at = "copy"
  /\ files' = [files EXCEPT ![j.path] = files[j.source]]
  /\ job' = [Disturbed(p, j.path) EXCEPT ![p].at = "look"]
  /\ UNCHANGED <<bos, hosted, hour, loose, edits, hostedFaults>>

\* publish_file returns.
Returned(j, body, until) ==
  [NewJob EXCEPT !.at = "returned", !.source = j.source, !.path = j.path, !.ts = j.ts,
                 !.until = until, !.clean = j.clean,
                 !.serves = bos[j.path] = body, !.genuine = body \in j.seen,
                 !.known = j.path \notin loose']

HasValidUrl(row, md5, now) ==
  row.md5 = md5 /\ row.expires > now + Skew

NeedsUpload(row, md5) == row = NoHosted \/ row.md5 # md5

\* The digest of the file, and the row of its path: none too if the table
\* cannot be read.
Look(p) ==
  LET j == job[p]
      md5 == files[j.path].content
  IN /\ j.at = "look"
     /\ UNCHANGED <<files, bos, hosted, hour, loose, edits>>
     /\ \E row \in {hosted[j.path], NoHosted} :
          /\ IF row = hosted[j.path] THEN UNCHANGED hostedFaults ELSE HostedFault
          /\ job' = [job EXCEPT ![p] =
               IF md5 = 0 THEN [NewJob EXCEPT !.at = "failed"]
               ELSE IF HasValidUrl(row, md5, j.ts)
                 THEN Returned(j, md5, row.until)
               ELSE [j EXCEPT !.at = IF NeedsUpload(row, md5) THEN "upload" ELSE "url",
                              !.body = md5]]

\* serverapi.bos_upload: it may be done although its answer is lost.
Upload(p) ==
  LET j == job[p] IN
  /\ j.at = "upload"
  /\ bos' = [bos EXCEPT ![j.path] = j.body]
  /\ \E at \in {"url", "failed"} :
       /\ job' = [Disturbed(p, j.path) EXCEPT ![p] =
                    IF at = "url" THEN [j EXCEPT !.at = "url", !.uploaded = TRUE]
                                  ELSE [NewJob EXCEPT !.at = "failed"]]
       /\ IF at = "url" THEN UNCHANGED hostedFaults ELSE HostedFault
  /\ loose' = loose \cup {j.path}
  /\ UNCHANGED <<files, hosted, hour, edits>>

LifetimeOf(path) == IF path \in OwnPaths THEN PermanentUrl ELSE TempUrl

\* _get_url_with_retry
GetUrl(p) ==
  LET j == job[p] IN
  /\ j.at = "url"
  /\ job' = [job EXCEPT ![p].at = "verify", ![p].until = hour + LifetimeOf(j.path)]
  /\ UNCHANGED <<files, bos, hosted, hour, loose, edits, hostedFaults>>

\* _verify_published_url: the store gives out URLs of objects it has not.
Verify(p) ==
  LET j == job[p] IN
  /\ j.at = "verify"
  /\ job' = [job EXCEPT ![p] = IF bos[j.path] = 0 THEN [NewJob EXCEPT !.at = "failed"]
                                          ELSE [j EXCEPT !.at = "store"]]
  /\ UNCHANGED <<files, bos, hosted, hour, loose, edits, hostedFaults>>

\* A request fails for good: nothing is stored, and publish_file raises.
RequestFails(p) ==
  LET j == job[p] IN
  /\ j.at \in {"upload", "url", "verify"} /\ HostedFault
  /\ job' = [job EXCEPT ![p] = [NewJob EXCEPT !.at = "failed"]]
  /\ UNCHANGED <<files, bos, hosted, hour, loose, edits>>

Expires(j) == j.ts + LifetimeOf(j.path)

RowFor(j) ==
  [md5 |-> j.body, out |-> IF j.source = j.path THEN <<"none", 0>> ELSE j.source,
   until |-> j.until, expires |-> Expires(j), updated |-> j.ts]

\* _db_upsert, whose error is only logged.
StoreRow(p) ==
  LET j == job[p] IN
  /\ j.at = "store"
  /\ \/ /\ hosted' = [hosted EXCEPT ![j.path] = RowFor(j)]
        /\ loose' = IF ~j.clean THEN loose \cup {j.path}
                    ELSE IF j.uploaded THEN loose \ {j.path} ELSE loose
        /\ UNCHANGED hostedFaults
     \/ /\ HostedFault
        /\ UNCHANGED <<hosted, loose>>
  /\ job' = [job EXCEPT ![p] = Returned(j, j.body, j.until)]
  /\ UNCHANGED <<files, bos, hour, edits>>

\* The owner of a file writes it.
Edit(f, v) ==
  /\ edits < MaxEdits /\ edits' = edits + 1
  /\ f \in OutsidePaths \cup OwnPaths /\ files[f].content # v
  /\ files' = [files EXCEPT ![f] = [content |-> v, mtime |-> hour]]
  /\ job' = [p \in Publishes |->
               IF ~Active(p) \/ job[p].source # f THEN job[p]
               ELSE [job[p] EXCEPT !.seen = @ \cup {v}, !.clean = @ /\ job[p].path # f]]
  /\ UNCHANGED <<bos, hosted, hour, loose, hostedFaults>>

HourPasses ==
  /\ hour < MaxHour /\ hour' = hour + 1
  /\ UNCHANGED <<files, bos, hosted, job, loose, edits, hostedFaults>>

HostedNext ==
  \/ \E p \in Publishes :
       \/ \E f \in OutsidePaths : BeginOutside(p, f)
       \/ \E f \in OwnPaths : BeginOwn(p, f)
       \/ \E v \in Contents : BeginImage(p, v)
       \/ Copy(p) \/ Look(p) \/ Upload(p) \/ GetUrl(p) \/ Verify(p) \/ RequestFails(p) \/ StoreRow(p)
  \/ \E f \in OutsidePaths \cup OwnPaths, v \in Contents : Edit(f, v)
  \/ HourPasses

HostedSpec == HostedInit /\ [][HostedNext]_hostedVars

-----------------------------------------------------------------------------
(* The row of a path names what is under its key, unless the last upload to  *)
(* it was not recorded or met another publish of the path: a file that has   *)
(* changed is uploaded before its new digest is stored.                      *)
RowsServe ==
  \A f \in Inside :
    /\ hosted[f] # NoHosted
    /\ f \notin loose
    => bos[f] = hosted[f].md5

(* A publish of an outside file serves what that file held while it ran, and *)
(* not what an earlier copy of it, or another file that was given the same   *)
(* name, holds; only another publish or an edit of the copy in the meantime  *)
(* may change that, or an upload to its path that no row tells of.           *)
PublishesTheSource ==
  \A p \in Publishes :
    job[p].at = "returned" /\ job[p].clean =>
      /\ job[p].genuine
      /\ job[p].known => job[p].serves

(* An image that was given as bytes has a key of its own: whatever fails or  *)
(* overlaps, its URL shows this image.                                       *)
ImagesKeepTheirUrl ==
  \A p \in Publishes :
    job[p].at = "returned" /\ job[p].source[1] = "image" => job[p].serves /\ job[p].genuine

(* The URL of a publish is good for at least the refresh skew after it began, *)
(* one from the table too, however slow the publish was that had stored it.   *)
UrlOutlivesSkew ==
  \A p \in Publishes : job[p].at = "returned" => job[p].until > job[p].ts + Skew

(* A URL that a publish returns leads to what was given, and does so for the  *)
(* refresh skew at least (file_to_url.py:259-381).                            *)
PublishedIsServed ==
  HostedTypeOK /\ RowsServe /\ PublishesTheSource /\ ImagesKeepTheirUrl /\ UrlOutlivesSkew
=============================================================================
