--------------------------- MODULE SyncScriptProofs ---------------------------
(***************************************************************************)
(* The mirror script loses no change but in the four known ways, for any   *)
(* files and names, pages, texts and any number of changes and restarts.   *)
(***************************************************************************)
EXTENDS SyncScript, SequenceTheorems, TLAPS

-----------------------------------------------------------------------------
(* The inductive invariant.                                                *)

FileTexts == Texts \cup {None, Partial}

Bodies == Texts \cup {Body[t] : t \in Texts} \cup {None, Partial}

TypeOK ==
    /\ disk \in [Files -> FileTexts]
    /\ script \in {"off", "scan", "watch", "orphaned"}
    /\ todo \subseteq Files
    /\ queue \in Seq(Files)
    /\ \/ current = Nothing
       \/ current \in [file : Files, at : {"checked", "read"}, text : FileTexts]
    /\ wiki \in [Pages -> Bodies]
    /\ source \in [Pages -> Files \cup {None}]
    /\ missed \subseteq Files
    /\ changes \in Nat

\* What the script has in hand fits the phase it is in.
PhaseInv ==
    /\ script # "scan" => todo = {}
    /\ script # "watch" => queue = <<>>
    /\ script \in {"off", "orphaned"} => current = Nothing

\* The files of the events that are still to be read.
Queued == {queue[i] : i \in DOMAIN queue}

\* The page of a whole file says what the file says, or was written from
\* another file since.
Mirrored(f) ==
    disk[f] \in Texts =>
        /\ PageOf[f] # None
        /\ \/ wiki[PageOf[f]] = Body[disk[f]]
           \/ source[PageOf[f]] \notin {f, None}

\* MirroredOrMissed already during the initial pass, for the files behind it.
SettledInv ==
    script \in {"scan", "watch"} =>
        \A f \in Files \ (missed \cup Pending) : Mirrored(f)

\* The text in hand is the file's, unless the file has changed since, which is
\* on its way or noted as missed.
InHandInv ==
    current # Nothing /\ current.at = "read" =>
        LET f == current.file
        IN /\ current.text # None
           /\ disk[f] \in Texts => disk[f] = current.text \/ f \in missed \cup Queued \cup todo

SyncInv == TypeOK /\ PhaseInv /\ SettledInv /\ InHandInv

-----------------------------------------------------------------------------
(* Facts about the data.                                                   *)

\* None and a half-written file are no texts, and None is no file and no page.
LEMMA TextsApart ==
    None \notin Texts /\ Partial \notin Texts /\ None \notin Files /\ None \notin Pages
  BY NoneIsNoFile

\* What a PUT sends is what a page may say, and a text that names no file is sent
\* as it is.
LEMMA SentKinds ==
    ASSUME TypeOK, NEW text \in FileTexts, text # None
    PROVE  /\ Sent(text) \in Bodies
           /\ text \in Texts \ DOMAIN Named => Sent(text) = Body[text]
  <1>1. CASE text = Partial
    BY <1>1, TextsApart, FilesInTexts DEF Sent, Bodies
  <1>2. CASE text # Partial /\ text \in DOMAIN Named
    <2>1. PICK f : f = Named[text]
      OBVIOUS
    <2>2. f \in Files \cup {None} /\ Sent(text) = IF f = None THEN None ELSE disk[f]
      BY <1>2, <2>1, FilesInTexts DEF Sent
    <2> QED
      BY <1>2, <2>2 DEF TypeOK, FileTexts, Bodies
  <1>3. CASE text # Partial /\ text \notin DOMAIN Named
    <2>1. text \in Texts /\ Sent(text) = Body[text]
      BY <1>3 DEF Sent, FileTexts
    <2> QED
      BY <2>1 DEF Bodies
  <1> QED
    BY <1>1, <1>2, <1>3

\* A file in hand is a file, and no file in hand is none.
LEMMA HandKinds ==
    ASSUME TypeOK
    PROVE  /\ Nothing.at = "none"
           /\ current # Nothing =>
                /\ current \in [file : Files, at : {"checked", "read"}, text : FileTexts]
                /\ current.file \in Files
           /\ current.at \in {"checked", "read"} => current # Nothing
  BY DEF TypeOK, Nothing

\* An event is queued behind the others.
LEMMA AppendQueued ==
    ASSUME queue \in Seq(Files), NEW f \in Files, queue' = Append(queue, f)
    PROVE  queue' \in Seq(Files) /\ Queued' = Queued \cup {f}
  <1>1. PICK n : n = Len(queue)
    OBVIOUS
  <1>2. n \in Nat /\ DOMAIN queue = 1..n /\ DOMAIN queue' = 1..(n + 1)
    BY <1>1, AppendProperties, LenProperties
  <1>3. (\A i \in 1..n : queue'[i] = queue[i]) /\ queue'[n + 1] = f
    BY <1>1, <1>2, AppendProperties
  <1>4. 1..(n + 1) = (1..n) \cup {n + 1}
    BY <1>2
  <1>5. Queued' = Queued \cup {f}
    BY <1>2, <1>3, <1>4 DEF Queued
  <1> QED
    BY <1>5, AppendProperties

\* Taking the first event leaves the files of the others.
LEMMA TailQueued ==
    ASSUME queue \in Seq(Files), queue # <<>>, queue' = Tail(queue)
    PROVE  /\ queue' \in Seq(Files) /\ Head(queue) \in Files
           /\ Queued = Queued' \cup {Head(queue)}
  <1>1. PICK n : n = Len(queue)
    OBVIOUS
  <1>2. n \in Nat \ {0} /\ DOMAIN queue = 1..n
    BY <1>1, EmptySeq, LenProperties
  <1>3. /\ queue' \in Seq(Files) /\ Head(queue) \in Files /\ Head(queue) = queue[1]
        /\ Len(queue') = n - 1 /\ \A i \in 1..(n - 1) : queue'[i] = queue[i + 1]
    BY <1>1, <1>2, HeadTailProperties
  <1>4. DOMAIN queue' = 1..(n - 1)
    BY <1>3, LenProperties
  <1>5. ASSUME NEW i \in 1..n
        PROVE  queue[i] \in Queued' \cup {Head(queue)}
    <2>1. CASE i = 1
      BY <1>3, <2>1
    <2>2. CASE i # 1
      <3>1. i - 1 \in 1..(n - 1) /\ (i - 1) + 1 = i
        BY <1>2, <2>2
      <3>2. queue'[i - 1] = queue[i]
        BY <1>3, <3>1
      <3> QED
        BY <1>4, <3>1, <3>2 DEF Queued
    <2> QED
      BY <2>1, <2>2
  <1>6. Queued \subseteq Queued' \cup {Head(queue)}
    BY <1>2, <1>5 DEF Queued
  <1>7. Queued' \cup {Head(queue)} \subseteq Queued
    BY <1>2, <1>3, <1>4 DEF Queued
  <1> QED
    BY <1>3, <1>6, <1>7

\* What is pending is in the initial pass, in the pipe, or in hand.
LEMMA PendingParts ==
    Pending = todo \cup Queued \cup (IF current = Nothing THEN {} ELSE {current.file})
  BY DEF Pending, Queued

\* The script starts with no change behind it.
LEMMA InitSync == Init => SyncInv
  <1> SUFFICES ASSUME Init PROVE SyncInv
    OBVIOUS
  <1>1. TypeOK
    BY DEF Init, TypeOK, FileTexts, Bodies
  <1> QED
    BY <1>1 DEF Init, SyncInv, PhaseInv, SettledInv, InHandInv

-----------------------------------------------------------------------------
(* Editors.                                                                *)

\* An event reaches a script that watches, and ends one whose loop is dead.
LEMMA EventReaches ==
    ASSUME TypeOK, NEW f \in Files, Event(f)
    PROVE  /\ script' \in {"off", "scan", "watch", "orphaned"} /\ queue' \in Seq(Files)
           /\ todo' = todo /\ current' = current
           /\ script' = script \/ (script = "orphaned" /\ script' = "off")
           /\ script = "watch" => Queued' = Queued \cup {f}
           /\ script # "watch" => queue' = queue
  BY AppendQueued DEF Event, TypeOK

\* A change of a file is on its way, or is noted as missed, or leaves a file that
\* is not whole.
LEMMA ChangeSync ==
    ASSUME SyncInv, NEW f \in Files, NEW text \in FileTexts, Change(f, text),
           Event(f) \/ (text \notin Texts /\ UNCHANGED scriptVars)
    PROVE  SyncInv'
  <1>1. TypeOK /\ PhaseInv /\ SettledInv /\ InHandInv
    BY DEF SyncInv
  <1>2. /\ todo' = todo /\ current' = current
        /\ script' = script \/ (script = "orphaned" /\ script' = "off")
        /\ script # "watch" => queue' = queue
        /\ Queued \subseteq Queued'
        /\ text \in Texts /\ script = "watch" => f \in Queued'
        /\ script' \in {"off", "scan", "watch", "orphaned"} /\ queue' \in Seq(Files)
    <2>1. CASE Event(f)
      BY <1>1, <2>1, EventReaches DEF Queued
    <2>2. CASE text \notin Texts /\ UNCHANGED scriptVars
      BY <1>1, <2>2 DEF scriptVars, Queued, TypeOK
    <2> QED
      BY <2>1, <2>2
  <1>3. /\ disk' = [disk EXCEPT ![f] = text] /\ disk' \in [Files -> FileTexts]
        /\ disk'[f] = text /\ \A g \in Files \ {f} : disk'[g] = disk[g]
        /\ wiki' = wiki /\ source' = source
        /\ missed \subseteq missed' /\ missed' \subseteq Files
        /\ changes' \in Nat
        /\ Unwatched(f) => f \in missed'
    BY <1>1 DEF Change, TypeOK, wikiVars
  <1>4. TypeOK'
    BY <1>1, <1>2, <1>3 DEF TypeOK
  <1>5. PhaseInv'
    BY <1>1, <1>2 DEF PhaseInv
  <1>6. SettledInv'
    <2> SUFFICES ASSUME script' \in {"scan", "watch"},
                        NEW g \in Files \ (missed' \cup Pending'), disk'[g] \in Texts
                 PROVE  /\ PageOf[g] # None
                        /\ \/ wiki'[PageOf[g]] = Body[disk'[g]]
                           \/ source'[PageOf[g]] \notin {g, None}
      BY DEF SettledInv, Mirrored
    <2>1. script' = script
      BY <1>2
    <2>2. /\ g \notin todo /\ g \notin Queued' /\ g \notin Queued
          /\ current # Nothing => g # current.file
      BY <1>2 DEF Pending, Queued
    <2>3. g \notin Pending
      BY <2>2, PendingParts
    <2>4. CASE g # f
      BY <1>1, <1>3, <2>1, <2>3, <2>4 DEF SettledInv, Mirrored
    <2>5. CASE g = f
      <3>1. script = "scan"
        BY <1>2, <1>3, <2>1, <2>2, <2>5
      <3>2. f \notin todo /\ ~(current.file = f /\ current.at = "checked")
        BY <1>1, <2>2, <2>5, HandKinds
      <3> QED
        BY <1>3, <2>5, <3>1, <3>2 DEF Unwatched
    <2> QED
      BY <2>4, <2>5
  <1>7. InHandInv'
    <2> SUFFICES ASSUME current # Nothing, current.at = "read", disk'[current.file] \in Texts
                 PROVE  \/ disk'[current.file] = current.text
                        \/ current.file \in missed' \cup Queued' \cup todo'
      BY <1>1, <1>2 DEF InHandInv
    <2>1. current.file \in Files
      BY <1>1, HandKinds
    <2>2. CASE current.file # f
      BY <1>1, <1>2, <1>3, <2>1, <2>2 DEF InHandInv
    <2>3. CASE current.file = f
      <3>1. script \in {"scan", "watch"}
        BY <1>1 DEF PhaseInv, TypeOK
      <3>2. script = "scan" /\ f \notin todo => Unwatched(f)
        BY DEF Unwatched
      <3> QED
        BY <1>2, <1>3, <2>3, <3>1, <3>2
    <2> QED
      BY <2>2, <2>3
  <1> QED
    BY <1>4, <1>5, <1>6, <1>7 DEF SyncInv

\* Whatever an editor does to a file.
LEMMA EditorSync ==
    ASSUME SyncInv, NEW f \in Files,
           \/ CreateFile(f) \/ OpenFile(f) \/ DeleteFile(f)
           \/ \E t \in Texts : CloseFile(f, t) \/ ReplaceFile(f, t)
    PROVE  SyncInv'
  <1>1. None \in FileTexts /\ Partial \in FileTexts /\ Texts \subseteq FileTexts
    BY DEF FileTexts
  <1>2. CASE CreateFile(f) \/ OpenFile(f) \/ DeleteFile(f)
    BY <1>1, <1>2, TextsApart, ChangeSync DEF CreateFile, OpenFile, DeleteFile
  <1>3. ASSUME NEW t \in Texts, CloseFile(f, t) \/ ReplaceFile(f, t)
        PROVE  SyncInv'
    BY <1>1, <1>3, ChangeSync DEF CloseFile, ReplaceFile
  <1> QED
    BY <1>2, <1>3

-----------------------------------------------------------------------------
(* The script.                                                             *)

\* The pass takes up every file that is there.
LEMMA StartSync == SyncInv /\ StartScript => SyncInv'
  <1> SUFFICES ASSUME SyncInv, StartScript PROVE SyncInv'
    OBVIOUS
  <1>1. TypeOK /\ PhaseInv
    BY DEF SyncInv
  <1>2. /\ script' = "scan" /\ todo' = {f \in Files : disk[f] # None}
        /\ disk' = disk /\ queue' = queue /\ current' = current
        /\ wiki' = wiki /\ source' = source /\ missed' = missed /\ changes' = changes
        /\ queue = <<>> /\ current = Nothing
    BY <1>1 DEF StartScript, wikiVars, PhaseInv
  <1>3. TypeOK' /\ PhaseInv' /\ InHandInv'
    BY <1>1, <1>2 DEF TypeOK, PhaseInv, InHandInv
  <1>4. SettledInv'
    BY <1>2, TextsApart DEF SettledInv, Mirrored, Pending
  <1> QED
    BY <1>3, <1>4 DEF SyncInv

\* The watch begins when the pass is through.
LEMMA WatchSync == SyncInv /\ StartWatch => SyncInv'
  <1> SUFFICES ASSUME SyncInv, StartWatch PROVE SyncInv'
    OBVIOUS
  <1>1. /\ script = "scan" /\ script' = "watch" /\ todo = {} /\ current = Nothing
        /\ UNCHANGED <<disk, todo, queue, current, wiki, source, missed, changes>>
    BY DEF StartWatch, wikiVars
  <1> QED
    BY <1>1 DEF SyncInv, TypeOK, PhaseInv, SettledInv, InHandInv, Mirrored, Pending, Queued

\* Taking a file in hand, or finding that it is gone, settles no other; nor does
\* taking another file than the event's, which is noted.
LEMMA TakeSync ==
    ASSUME SyncInv, NEW f \in Files, NEW g \in Files \cup {None}, current = Nothing, Check(g),
           missed' = IF g = f THEN missed ELSE missed \cup {f},
           UNCHANGED <<disk, script, wikiVars, changes>>,
           script \in {"scan", "watch"},
           todo' \subseteq todo, queue' \in Seq(Files),
           todo \cup Queued \subseteq todo' \cup Queued' \cup {f},
           script # "watch" => queue' = queue
    PROVE  SyncInv'
  <1>1. TypeOK /\ PhaseInv /\ SettledInv
    BY DEF SyncInv
  <1>2. /\ disk' = disk /\ script' = script /\ wiki' = wiki /\ source' = source
        /\ changes' = changes /\ missed \subseteq missed' /\ missed' \subseteq Files
        /\ g # f => f \in missed'
    BY <1>1 DEF wikiVars, TypeOK
  <1>3. /\ g = None \/ disk[g] = None => current' = Nothing
        /\ g # None /\ disk[g] # None =>
             current' = [file |-> g, at |-> "checked", text |-> None]
    BY DEF Check
  <1>4. [file |-> g, at |-> "checked", text |-> None] # Nothing
    BY DEF Nothing
  <1>5. TypeOK'
    BY <1>1, <1>2, <1>3 DEF TypeOK, FileTexts
  <1>6. PhaseInv'
    BY <1>1, <1>2 DEF PhaseInv
  <1>7. InHandInv'
    BY <1>3 DEF InHandInv
  <1>8. SettledInv'
    <2> SUFFICES ASSUME NEW h \in Files \ (missed' \cup Pending'), disk[h] \in Texts
                 PROVE  Mirrored(h)
      BY <1>2 DEF SettledInv, Mirrored
    <2>1. h \notin todo' \cup Queued' /\ (current' # Nothing => h # current'.file)
      BY DEF Pending, Queued
    <2>2. h # f
      BY <1>2, <1>3, <1>4, <2>1, TextsApart
    <2>3. h \notin Pending /\ h \notin missed
      BY <1>2, <2>1, <2>2, PendingParts
    <2> QED
      BY <1>1, <2>3 DEF SettledInv
  <1> QED
    BY <1>5, <1>6, <1>7, <1>8 DEF SyncInv

\* The next file of the pass, and the next event of the watch, are taken in hand.
LEMMA NextFileSync ==
    ASSUME SyncInv, NextEvent \/ \E f \in Files : NextOfPass(f)
    PROVE  SyncInv'
  <1>1. TypeOK /\ PhaseInv
    BY DEF SyncInv
  <1>2. CASE NextEvent
    <2>1. /\ queue' \in Seq(Files) /\ Head(queue) \in Files
          /\ Queued = Queued' \cup {Head(queue)}
      BY <1>1, <1>2, TailQueued DEF NextEvent, TypeOK
    <2>2. PICK f \in Files, g \in Files \cup {None} : f = Head(queue) /\ g = ReadAs[f]
      BY <2>1, EventLines
    <2>3. /\ Check(g) /\ todo' = todo /\ current = Nothing /\ script = "watch"
          /\ missed' = IF g = f THEN missed ELSE missed \cup {f}
      BY <1>2, <2>2 DEF NextEvent
    <2>4. UNCHANGED <<disk, script, wikiVars, changes>>
      BY <1>2 DEF NextEvent, wikiVars
    <2>5. todo \cup Queued \subseteq todo' \cup Queued' \cup {f}
      BY <2>1, <2>2, <2>3
    <2> QED
      BY <2>1, <2>3, <2>4, <2>5, TakeSync
  <1>3. ASSUME NEW f \in Files, NextOfPass(f)
        PROVE  SyncInv'
    <2>1. /\ Check(f) /\ todo' = todo \ {f} /\ current = Nothing /\ script = "scan"
          /\ queue' = queue
      BY <1>3 DEF NextOfPass
    <2>2. UNCHANGED <<disk, script, wikiVars, changes>> /\ missed' = missed
      BY <1>3 DEF NextOfPass, wikiVars
    <2>3. Queued' = Queued /\ queue' \in Seq(Files)
      BY <1>1, <2>1 DEF Queued, TypeOK
    <2> QED
      BY <2>1, <2>2, <2>3, TakeSync
  <1> QED
    BY <1>2, <1>3

\* What `cat` reads is what the file says.
LEMMA ReadSync == SyncInv /\ ReadFile => SyncInv'
  <1> SUFFICES ASSUME SyncInv, ReadFile PROVE SyncInv'
    OBVIOUS
  <1>1. TypeOK /\ PhaseInv /\ SettledInv
    BY DEF SyncInv
  <1>2. PICK f, text : f = current.file /\ text = disk[f]
    OBVIOUS
  <1>3. /\ current # Nothing /\ f \in Files /\ text \in FileTexts /\ text # None
        /\ current \in [file : Files, at : {"checked", "read"}, text : FileTexts]
    BY <1>1, <1>2, HandKinds DEF ReadFile, TypeOK
  <1>4. /\ current' = [current EXCEPT !.at = "read", !.text = text]
        /\ missed' = missed \ {f}
        /\ disk' = disk /\ script' = script /\ todo' = todo /\ queue' = queue
        /\ wiki' = wiki /\ source' = source /\ changes' = changes
    BY <1>2 DEF ReadFile, wikiVars
  <1>5. /\ current' \in [file : Files, at : {"checked", "read"}, text : FileTexts]
        /\ current'.file = f /\ current'.text = text
    BY <1>2, <1>3, <1>4
  <1>6. current' # Nothing
    BY <1>5 DEF Nothing
  <1>7. TypeOK'
    BY <1>1, <1>4, <1>5 DEF TypeOK
  <1>8. PhaseInv'
    BY <1>1, <1>3, <1>4 DEF PhaseInv
  <1>9. InHandInv'
    <2>1. current'.text # None /\ disk'[current'.file] = current'.text
      BY <1>2, <1>3, <1>4, <1>5
    <2> QED
      BY <2>1 DEF InHandInv
  <1>10. SettledInv'
    <2> SUFFICES ASSUME script \in {"scan", "watch"}, NEW g \in Files \ (missed' \cup Pending')
                 PROVE  Mirrored(g)
      BY <1>4 DEF SettledInv, Mirrored
    <2>1. g \notin todo \cup Queued /\ g # f
      BY <1>4, <1>5, <1>6 DEF Pending, Queued
    <2>2. g \notin Pending /\ g \notin missed
      BY <1>2, <1>4, <2>1, PendingParts
    <2> QED
      BY <1>1, <2>2 DEF SettledInv
  <1> QED
    BY <1>7, <1>8, <1>9, <1>10 DEF SyncInv

\* A script that ends, or whose loop ends, settles nothing.
LEMMA EndSync ==
    ASSUME SyncInv, script' \in {"off", "orphaned"}, todo' = {}, queue' = <<>>,
           current' = Nothing, UNCHANGED <<disk, wikiVars, missed>>, changes' \in Nat
    PROVE  SyncInv'
  <1>1. TypeOK'
    BY DEF SyncInv, TypeOK, wikiVars
  <1> QED
    BY <1>1 DEF SyncInv, PhaseInv, SettledInv, InHandInv

\* A PUT mirrors its file, or notes it as missed, and leaves its page to no other
\* file but its own.
LEMMA PutSync == SyncInv /\ Put => SyncInv'
  <1> SUFFICES ASSUME SyncInv, Put PROVE SyncInv'
    OBVIOUS
  <1>1. TypeOK /\ PhaseInv /\ SettledInv /\ InHandInv
    BY DEF SyncInv
  <1>2. PICK f, text, page, body :
          f = current.file /\ text = current.text /\ page = PageOf[f] /\ body = Sent(text)
    OBVIOUS
  <1>3. /\ current # Nothing /\ f \in Files /\ text \in FileTexts /\ page \in Pages
        /\ current.at = "read"
    BY <1>1, <1>2, HandKinds, PagesOfFiles DEF Put
  <1>4. /\ wiki' = [wiki EXCEPT ![page] = body] /\ source' = [source EXCEPT ![page] = f]
        /\ current' = Nothing /\ disk' = disk /\ script' = script
        /\ todo' = todo /\ queue' = queue /\ changes' = changes
        /\ missed' = IF text \in DOMAIN Named THEN missed \cup {f} ELSE missed
    BY <1>2 DEF Put
  <1>5. text # None
    BY <1>1, <1>2, <1>3 DEF InHandInv
  <1>6. body \in Bodies /\ (text \in Texts \ DOMAIN Named => body = Body[text])
    BY <1>1, <1>2, <1>3, <1>5, SentKinds
  <1>7. missed \subseteq missed' /\ missed' \subseteq Files
    BY <1>1, <1>3, <1>4 DEF TypeOK
  <1>8. TypeOK'
    BY <1>1, <1>3, <1>4, <1>6, <1>7 DEF TypeOK
  <1>9. PhaseInv' /\ InHandInv'
    BY <1>1, <1>4 DEF PhaseInv, InHandInv
  <1>10. SettledInv'
    <2> SUFFICES ASSUME script \in {"scan", "watch"},
                        NEW g \in Files \ (missed' \cup Pending'), disk[g] \in Texts
                 PROVE  /\ PageOf[g] # None
                        /\ \/ wiki'[PageOf[g]] = Body[disk[g]]
                           \/ source'[PageOf[g]] \notin {g, None}
      BY <1>4 DEF SettledInv, Mirrored
    <2>1. g \notin todo \cup Queued /\ g \notin missed
      BY <1>4, <1>7 DEF Pending, Queued
    <2>2. CASE g = f
      <3>1. disk[f] = text /\ text \notin DOMAIN Named
        BY <1>1, <1>2, <1>3, <1>4, <2>1, <2>2 DEF InHandInv
      <3>2. body = Body[disk[g]]
        BY <1>6, <2>2, <3>1
      <3> QED
        BY <1>1, <1>2, <1>3, <1>4, <2>2, <3>2, TextsApart DEF TypeOK
    <2>3. CASE g # f /\ PageOf[g] = page
      <3>1. source'[PageOf[g]] = f
        BY <1>1, <1>3, <1>4, <2>3 DEF TypeOK
      <3> QED
        BY <1>3, <2>3, <3>1, TextsApart
    <2>4. CASE g # f /\ PageOf[g] # page
      <3>1. g \notin Pending
        BY <1>2, <2>1, <2>4, PendingParts
      <3>2. PageOf[g] # None /\ Mirrored(g)
        BY <1>1, <2>1, <3>1 DEF SettledInv, Mirrored
      <3>3. PageOf[g] \in Pages
        BY <3>2, PagesOfFiles
      <3>4. wiki'[PageOf[g]] = wiki[PageOf[g]] /\ source'[PageOf[g]] = source[PageOf[g]]
        BY <1>1, <1>4, <2>4, <3>3 DEF TypeOK
      <3> QED
        BY <3>2, <3>4 DEF Mirrored
    <2> QED
      BY <2>2, <2>3, <2>4
  <1> QED
    BY <1>8, <1>9, <1>10 DEF SyncInv

\* A PUT that fails is noted as missed.
LEMMA PutFailsSync == SyncInv /\ PutFails => SyncInv'
  <1> SUFFICES ASSUME SyncInv, PutFails PROVE SyncInv'
    OBVIOUS
  <1>1. TypeOK /\ PhaseInv /\ SettledInv
    BY DEF SyncInv
  <1>2. PICK f : f = current.file
    OBVIOUS
  <1>3. current # Nothing /\ f \in Files
    BY <1>1, <1>2, HandKinds DEF PutFails
  <1>4. /\ missed' = missed \cup {f} /\ current' = Nothing
        /\ disk' = disk /\ script' = script /\ todo' = todo /\ queue' = queue
        /\ wiki' = wiki /\ source' = source /\ changes' = changes
    BY <1>2 DEF PutFails, wikiVars
  <1>5. TypeOK'
    BY <1>1, <1>3, <1>4 DEF TypeOK
  <1>6. PhaseInv' /\ InHandInv'
    BY <1>1, <1>4 DEF PhaseInv, InHandInv
  <1>7. SettledInv'
    <2> SUFFICES ASSUME script \in {"scan", "watch"}, NEW g \in Files \ (missed' \cup Pending')
                 PROVE  Mirrored(g)
      BY <1>4 DEF SettledInv, Mirrored
    <2>1. g \notin todo \cup Queued /\ g # f /\ g \notin missed
      BY <1>4 DEF Pending, Queued
    <2>2. g \notin Pending
      BY <1>2, <2>1, PendingParts
    <2> QED
      BY <1>1, <2>1, <2>2 DEF SettledInv
  <1> QED
    BY <1>5, <1>6, <1>7 DEF SyncInv

-----------------------------------------------------------------------------
(* The theorem.                                                            *)

\* Every step of editors, script and supervisor keeps the invariant.
LEMMA NextSync == SyncInv /\ [Next]_vars => SyncInv'
  <1> SUFFICES ASSUME SyncInv, [Next]_vars PROVE SyncInv'
    OBVIOUS
  <1>1. CASE UNCHANGED vars
    BY <1>1 DEF vars, SyncInv, TypeOK, PhaseInv, SettledInv, InHandInv, Mirrored, Pending, Queued
  <1>2. CASE ReadFails
    <2>1. script' \in {"off", "orphaned"} /\ changes' \in Nat
      BY <1>2 DEF ReadFails, SyncInv, TypeOK
    <2> QED
      BY <1>2, <2>1, EndSync DEF ReadFails, wikiVars
  <1>3. CASE KillScript
    <2>1. changes' \in Nat
      BY <1>3 DEF KillScript, SyncInv, TypeOK
    <2> QED
      BY <1>3, <2>1, EndSync DEF KillScript, wikiVars
  <1>4. CASE StartScript \/ StartWatch \/ NextEvent \/ \E f \in Files : NextOfPass(f)
    BY <1>4, StartSync, WatchSync, NextFileSync
  <1>5. CASE ReadFile \/ Put \/ PutFails
    BY <1>5, ReadSync, PutSync, PutFailsSync
  <1>6. ASSUME NEW f \in Files,
               \/ CreateFile(f) \/ OpenFile(f) \/ DeleteFile(f)
               \/ \E t \in Texts : CloseFile(f, t) \/ ReplaceFile(f, t)
        PROVE  SyncInv'
    BY <1>6, EditorSync
  <1> QED
    BY <1>1, <1>2, <1>3, <1>4, <1>5, <1>6 DEF Next, Script, Environment

\* While the script watches, a change of a whole file is in its page, or in the
\* script's hands, or was lost in one of the four known ways, whatever else is
\* written, replaced, deleted or killed.
THEOREM ChangesAreMirroredOrMissed == Spec => []MirroredOrMissed
  <1>1. SyncInv => MirroredOrMissed
    BY DEF SyncInv, SettledInv, Mirrored, MirroredOrMissed
  <1> QED
    BY <1>1, InitSync, NextSync, PTL DEF Spec
=============================================================================
