------------------------ MODULE MCAttachmentDownloads ------------------------
(* Files that come in and files that go out; in a behaviour one of these     *)
(* moves: calls of the download tool for the files of one message, publishes *)
(* of local files, or publishes of images given as bytes.                    *)
EXTENDS AttachmentDownloads, HostedFiles, TLC

CONSTANTS d1, d2, f1, f2

SameFile == (d1 :> f1) @@ (d2 :> f1)
DistinctFiles == (d1 :> f1) @@ (d2 :> f2)

VARIABLE moves

allVars == <<vars, hostedVars, moves>>

MCInit == moves \in {"downloads", "files", "images"} /\ Init /\ HostedInit

\* A file is edited only while the clock stands.
FilesMove ==
  /\ HostedNext
  /\ edits' = 0 \/ hour' = 0
  /\ \A p \in Publishes :
       job'[p] # job[p] =>
         (moves = "images" <=> "image" \in {job[p].source[1], job'[p].source[1]})

MCNext ==
  /\ UNCHANGED moves
  /\ \/ moves = "downloads" /\ Next /\ UNCHANGED hostedVars
     \/ moves \in {"files", "images"} /\ FilesMove /\ UNCHANGED vars

(* Where the downloads start nothing that fairness speaks about is enabled. *)
MCSpec == MCInit /\ [][MCNext]_allVars /\ Fairness
=============================================================================
