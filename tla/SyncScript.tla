------------------------------ MODULE SyncScript ------------------------------
(***************************************************************************)
(* scripts/wikikiki-sync.sh, which mirrors a directory of Markdown files    *)
(* into pages: an initial pass over the files that are there, then a watch *)
(* on the directory, each change followed by one PUT that is never tried   *)
(* again.  Beside it work the editors of the files, and the supervisor     *)
(* that starts the script again (scripts/wikikiki-sync.service).           *)
(***************************************************************************)
EXTENDS Integers, Sequences

CONSTANTS
    Files,        \* the names *.md in the workspace
    Pages,        \* page paths
    Texts,        \* what an editor may leave in a file
    PageOf,       \* the page of the URL made of slug_for, where lower case makes one
                  \* page of several files, or None: curl rejects a URL with a blank
    ReadAs,       \* the file an event line names up to its first blank, None if no *.md
    Body,         \* a text as the shell passes it on, without trailing newlines
    Named,        \* the file that a text beginning with @ names, None if there is none
    MaxChanges,   \* bound on the steps of editors and kills of the script
    None,         \* no file, no page
    Partial       \* a file that is being written

ASSUME PagesOfFiles == PageOf \in [Files -> Pages \cup {None}]
ASSUME EventLines == ReadAs \in [Files -> Files \cup {None}]
ASSUME BodiesOfTexts == DOMAIN Body = Texts
ASSUME FilesInTexts == DOMAIN Named \subseteq Texts /\ \A t \in DOMAIN Named : Named[t] \in Files \cup {None}
ASSUME ChangesAreBounded == MaxChanges \in Nat
ASSUME NoneIsNoFile ==
    /\ None \notin Files \cup Pages
    /\ {None, Partial} \cap (Texts \cup {Body[t] : t \in Texts}) = {}

VARIABLES
    disk,      \* [Files -> text]
    script,    \* off, in its initial pass, watching, or watching with a dead loop
    todo,      \* files of the initial pass that are still to be looked at
    queue,     \* events of the watch that are still to be read
    current,   \* the file in sync_file, and what was read from it
    wiki,      \* [Pages -> text]
    source,    \* history: [Pages -> the file the page was last written from]
    missed,    \* history: files whose last change was lost on its way (MirroredOrMissed)
    changes    \* steps of the environment so far

vars == <<disk, script, todo, queue, current, wiki, source, missed, changes>>
scriptVars == <<script, todo, queue, current>>
wikiVars == <<wiki, source>>

Nothing == [file |-> None, at |-> "none", text |-> None]

Init ==
    /\ disk \in [Files -> Texts \cup {None}]
    /\ script = "off" /\ todo = {} /\ queue = <<>> /\ current = Nothing
    /\ wiki = [p \in Pages |-> None] /\ source = [p \in Pages |-> None]
    /\ missed = {} /\ changes = 0

-----------------------------------------------------------------------------
(* Editors.  inotifywait reports create, close_write and moved_to.          *)

\* inotifywait writes an event to the pipe; if the loop that reads it is dead,
\* the write kills inotifywait, and pipefail the script.
Event(f) ==
    /\ queue' = IF script = "watch" THEN Append(queue, f) ELSE queue
    /\ script' = IF script = "orphaned" THEN "off" ELSE script
    /\ UNCHANGED <<todo, current>>

\* The initial pass is over for this file, and nobody watches yet.
Unwatched(f) ==
    script = "scan" /\ f \notin todo /\ ~(current.file = f /\ current.at = "checked")

Change(f, text) ==
    /\ changes < MaxChanges
    /\ changes' = changes + 1
    /\ disk' = [disk EXCEPT ![f] = text]
    /\ missed' = IF Unwatched(f) THEN missed \cup {f} ELSE missed
    /\ UNCHANGED wikiVars

\* A new file appears, with nothing or a part of its text in it.
CreateFile(f) == disk[f] = None /\ Change(f, Partial) /\ Event(f)

\* An editor truncates a file it is going to write: no event.
OpenFile(f) == disk[f] \in Texts /\ Change(f, Partial) /\ UNCHANGED scriptVars

CloseFile(f, text) == disk[f] = Partial /\ Change(f, text) /\ Event(f)

\* Mutant of ReplaceFile: moved_to is not among the events asked for.
ReplaceFileUnseen(f, text) ==
    disk[f] # Partial /\ Change(f, text) /\ UNCHANGED scriptVars

\* An editor writes a file of another name and moves it into place.
ReplaceFile(f, text) == disk[f] # Partial /\ Change(f, text) /\ Event(f)

\* A file goes away: no event.
DeleteFile(f) == disk[f] \in Texts /\ Change(f, None) /\ UNCHANGED scriptVars

-----------------------------------------------------------------------------
(* The script.                                                             *)

\* systemd starts the script; the shell expands *.md once, for the whole pass.
StartScript ==
    /\ script = "off"
    /\ script' = "scan"
    /\ todo' = {f \in Files : disk[f] # None}
    /\ UNCHANGED <<disk, queue, current, wikiVars, missed, changes>>

\* sync_file returns at once if the file is not there any more, and is not called
\* for a name that is not *.md.
Check(f) == current' = IF f = None \/ disk[f] = None THEN Nothing
                       ELSE [file |-> f, at |-> "checked", text |-> None]

NextOfPass(f) ==
    /\ script = "scan" /\ current = Nothing
    /\ f \in todo
    /\ todo' = todo \ {f}
    /\ Check(f)
    /\ UNCHANGED <<disk, script, queue, wikiVars, missed, changes>>

StartWatch ==
    /\ script = "scan" /\ current = Nothing /\ todo = {}
    /\ script' = "watch"
    /\ UNCHANGED <<disk, todo, queue, current, wikiVars, missed, changes>>

\* `read -r path event` splits the line '%w%f %e' at its first blank, which may
\* stand in the file's name, or in the workspace's.
NextEvent ==
    LET f == Head(queue)
    IN /\ script = "watch" /\ current = Nothing /\ queue # <<>>
       /\ queue' = Tail(queue)
       /\ Check(ReadAs[f])
       /\ missed' = IF ReadAs[f] = f THEN missed ELSE missed \cup {f}
       /\ UNCHANGED <<disk, script, todo, wikiVars, changes>>

\* body="$(cat "$file")"
ReadFile ==
    /\ current.at = "checked" /\ disk[current.file] # None
    /\ current' = [current EXCEPT !.at = "read", !.text = disk[current.file]]
    /\ missed' = missed \ {current.file}
    /\ UNCHANGED <<disk, script, todo, queue, wikiVars, changes>>

\* cat fails, and `set -e` ends the shell it runs in: the script in its initial
\* pass, and only the loop behind the pipe afterwards.
ReadFails ==
    /\ current.at = "checked" /\ disk[current.file] = None
    /\ script' = IF script = "scan" THEN "off" ELSE "orphaned"
    /\ todo' = {} /\ queue' = <<>> /\ current' = Nothing
    /\ UNCHANGED <<disk, wikiVars, missed, changes>>

\* What `--data-binary "$body"` sends: a body that begins with @ is the name of a
\* file, whose bytes curl sends as they are; None if there is no such file.
Sent(text) ==
    CASE text = Partial -> Partial
      [] text \in DOMAIN Named -> IF Named[text] = None THEN None ELSE disk[Named[text]]
      [] OTHER -> Body[text]

\* The server carries the PUT out, whether or not its answer arrives.
Put ==
    LET page == PageOf[current.file]
    IN /\ current.at = "read" /\ page # None /\ Sent(current.text) # None
       /\ wiki' = [wiki EXCEPT ![page] = Sent(current.text)]
       /\ source' = [source EXCEPT ![page] = current.file]
       /\ missed' = IF current.text \in DOMAIN Named THEN missed \cup {current.file} ELSE missed
       /\ current' = Nothing
       /\ UNCHANGED <<disk, script, todo, queue, changes>>

\* Mutant of PutFails: the script tries again.
PutFailsAndRetries ==
    /\ current.at = "read"
    /\ current' = [current EXCEPT !.at = "checked", !.text = None]
    /\ UNCHANGED <<disk, script, todo, queue, wikiVars, missed, changes>>

\* The server is down or answers with an error, or curl does not take the URL or
\* the text; the failure is logged.
PutFails ==
    /\ current.at = "read"
    /\ missed' = missed \cup {current.file}
    /\ current' = Nothing
    /\ UNCHANGED <<disk, script, todo, queue, wikiVars, changes>>

KillScript ==
    /\ script # "off" /\ changes < MaxChanges
    /\ changes' = changes + 1
    /\ script' = "off" /\ todo' = {} /\ queue' = <<>> /\ current' = Nothing
    /\ UNCHANGED <<disk, wikiVars, missed>>

Script ==
    \/ StartScript \/ StartWatch \/ NextEvent \/ ReadFile \/ ReadFails \/ Put \/ PutFails
    \/ \E f \in Files : NextOfPass(f)

Environment ==
    \/ KillScript
    \/ \E f \in Files :
        \/ CreateFile(f) \/ OpenFile(f) \/ DeleteFile(f)
        \/ \E t \in Texts : CloseFile(f, t) \/ ReplaceFile(f, t)

Next == Script \/ Environment

\* The supervisor restarts the script, and each of its commands comes to an end.
Spec == Init /\ [][Next]_vars /\ WF_vars(Script)

-----------------------------------------------------------------------------
(* Properties.                                                             *)

Pending ==
    todo \cup {queue[i] : i \in DOMAIN queue} \cup (IF current = Nothing THEN {} ELSE {current.file})

\* While the script watches, the page of every whole file says what the file
\* says, or was written from another file since, unless the file's change is
\* still on its way, or was lost in one of the four known ways: between the
\* initial pass and the watch, by an event line cut at a blank, by a PUT that
\* failed, or by a text that begins with @, for which curl sends another.  Files
\* half written, replaced, deleted and created again, and restarts of the script
\* in the middle of its work, cost no other change.
MirroredOrMissed ==
    script = "watch" =>
        \A f \in Files \ (missed \cup Pending) :
            disk[f] \in Texts =>
                /\ PageOf[f] # None
                /\ \/ wiki[PageOf[f]] = Body[disk[f]]
                   \/ source[PageOf[f]] \notin {f, None}

\* Once the files are left alone the script comes to rest with no change in its
\* hands: failed PUTs, vanished files and restarts do not keep it from the next.
ComesToRest == <>[](script \in {"watch", "orphaned"} /\ Pending = {})
=============================================================================
