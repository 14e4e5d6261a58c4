------------------------------ MODULE Rendering ------------------------------
(***************************************************************************)
(* Conversions on the way to a reader: the author of a commit, which       *)
(* becomes a badge in the history, a search snippet, the body of a page    *)
(* below its title, and the age of an edit (src/git/mod.rs,                *)
(* src/web/templates.rs).  "less" and "greater" are the angle brackets.    *)
(***************************************************************************)
EXTENDS Conversions

CONSTANTS
    Soon, Minute, Hour, Day, Month,   \* the thresholds of rel_time, in seconds
    Skew                              \* how far in the future still counts as now

ASSUME AgesAscend ==
    /\ {Soon, Minute, Hour, Day, Month, Skew} \subseteq Nat \ {0}
    /\ Soon < Minute /\ Minute < Hour /\ Hour < Day /\ Day < Month
    /\ Minute % 2 = 0 /\ Hour % Minute = 0 /\ Day % Hour = 0
    /\ Minute \div 2 =< Skew

\* A type is a code of actor_types, a word without colons, brackets and blanks; a
\* handle is any text at all.  The matches of a search do not overlap.
ASSUME RenderedInputs ==
    \A i \in Inputs :
        CASE i.of = "author" ->
               /\ i.type \in Seq(STRING \ {"colon", "less", "greater", "blank"}) \ {<<>>}
               /\ i.handle \in Seq(STRING)
          [] i.of = "snippet" ->
               /\ i.text \in Seq(STRING)
               /\ i.matches \subseteq [first : DOMAIN i.text, last : DOMAIN i.text]
               /\ \A m \in i.matches :
                    /\ m.first =< m.last
                    /\ \A n \in i.matches \ {m} : m.last < n.first \/ n.last < m.first
          [] i.of = "body" -> {i.lines, i.titled} \subseteq
               Seq([kind : {"empty", "blanks", "text", "heading"}, title : STRING \cup {None}])
          [] i.of = "ages" -> i.older \in Int /\ i.newer \in Int
          [] OTHER -> TRUE

\* str::find: the place of the first of a character, or 0.
Find(text, c) ==
    IF Contains(text, c)
      THEN CHOOSE i \in DOMAIN text : text[i] = c /\ \A j \in 1..(i - 1) : text[j] # c
      ELSE 0

\* Member number n of a set of places, and what a text has at them, in their order.
Nth(places, n) == CHOOSE i \in places : Cardinality({j \in places : j =< i}) = n
At(text, places) == [n \in 1..Cardinality(places) |-> text[Nth(places, n)]]

-----------------------------------------------------------------------------
(* Authors.                                                                *)

\* render_author with the default template; the mail domain is one character.
RenderAuthor(type, handle) ==
    type \o <<"colon">> \o handle \o <<"blank", "less">> \o handle \o <<"at", "greater">>

\* parse_sig: None stands for the panic of a range that ends before it begins.
ParseSig(rendered) ==
    LET open == Find(rendered, "less")
        close == Find(rendered, "greater")
    IN IF open = 0 \/ close = 0 THEN [name |-> rendered, email |-> <<"anonymous">>]
       ELSE IF close < open THEN None
       ELSE [name |-> Trim(SubSeq(rendered, 1, open - 1)),
             email |-> SubSeq(rendered, open + 1, close - 1)]

\* The author of a commit.  Git has no name or mail with an angle bracket in it.
CommitAuthor(sig) ==
    IF sig = None \/ {"less", "greater"} \cap (ToSet(sig.name) \cup ToSet(sig.email)) # {}
      THEN None ELSE sig.name

\* Mutant of CommitAuthorChip: the split is at the last colon.
CommitAuthorChipLast(name) ==
    LET at == SelectLastInSeq(name, LAMBDA c : c = "colon")
    IN IF at \in 2..(Len(name) - 1)
         THEN [type |-> SubSeq(name, 1, at - 1), handle |-> SubSeq(name, at + 1, Len(name))]
         ELSE [type |-> None, handle |-> name]

\* commit_author_chip splits at the first colon, if there is text on both sides.
CommitAuthorChip(name) ==
    LET at == Find(name, "colon")
    IN IF at \in 2..(Len(name) - 1)
         THEN [type |-> SubSeq(name, 1, at - 1), handle |-> SubSeq(name, at + 1, Len(name))]
         ELSE [type |-> None, handle |-> name]

\* A handle without the blanks at its end, which parse_sig trims.
Kept(handle) == SubSeq(handle, 1, SelectLastInSeq(handle, LAMBDA c : c # "blank"))

\* A `<` in a handle and a `>` behind it, which parse_sig takes for name and mail.
HoldsMail(handle) ==
    Contains(handle, "less") /\ ~(Find(handle, "greater") < Find(handle, "less"))

\* A write is shown in the history under the type and the handle of its actor, or it
\* fails, whatever colons, blanks and single angle brackets the handle has.  Three
\* sorts of handle are shown otherwise, and nothing keeps them out (issue-token and
\* bootstrap store any text): one that ends in blanks loses them, and may be another
\* actor's then; one of nothing but blanks leaves its type with the colon; and what
\* becomes of one that holds a mail is not said here.
AuthorIsNamed ==
    Is("author") /\ ~HoldsMail(input.handle) =>
        LET name == CommitAuthor(ParseSig(RenderAuthor(input.type, input.handle)))
            kept == Kept(input.handle)
        IN name # None =>
             CommitAuthorChip(name) =
               IF kept = <<>> THEN [type |-> None, handle |-> input.type \o <<"colon">>]
               ELSE [type |-> input.type, handle |-> kept]

-----------------------------------------------------------------------------
(* Search snippets: SQLite puts "open" and "close" around each match, and   *)
(* the indexed text may hold such characters of its own.                   *)

Sentinels == {"open", "close"}

\* Character i is part of a match, from its first to its last, and behind no
\* "close" of the text in that match.
Hit(text, matches, i) ==
    \E m \in matches :
        m.first =< i /\ i =< m.last /\ \A j \in m.first..(i - 1) : text[j] # "close"

\* Character i has place 3i + 1, between those of an "open" and a "close" of its own.
Splice(text, matches) ==
    At([p \in 3..(3 * Len(text) + 2) |->
          CASE p % 3 = 0 -> "open" [] p % 3 = 1 -> text[p \div 3] [] OTHER -> "close"],
       {3 * i + 1 : i \in DOMAIN text}
          \cup {3 * m.first : m \in matches} \cup {3 * m.last + 2 : m \in matches})

LastOpen(raw, i) ==
    LET opens == {j \in 1..(i - 1) : raw[j] = "open"}
    IN IF opens = {} THEN 0 ELSE CHOOSE j \in opens : \A k \in opens : k =< j

\* Character i is behind an "open" that no "close" has ended.
Marked(raw, i) ==
    LastOpen(raw, i) > 0 /\ \A j \in LastOpen(raw, i)..(i - 1) : raw[j] # "close"

Cells(raw) == [i \in DOMAIN raw |-> [char |-> raw[i], mark |-> Marked(raw, i)]]

\* Mutant of RenderSnippet: what an "open" begins and nothing ends is dropped.
RenderSnippetClosed(raw) ==
    LET kept == {i \in DOMAIN raw :
                    /\ raw[i] # "open" /\ ~(raw[i] = "close" /\ Marked(raw, i))
                    /\ Marked(raw, i) => \E j \in (i + 1)..Len(raw) : raw[j] = "close"}
    IN At(Cells(raw), kept)

\* render_snippet splits at every "open", and each part at its first "close".
RenderSnippet(raw) ==
    At(Cells(raw),
       {i \in DOMAIN raw : raw[i] # "open" /\ ~(raw[i] = "close" /\ Marked(raw, i))})

\* The characters of a text that are no sentinels, with their marks.
Plain(shown) == At(shown, {i \in DOMAIN shown : shown[i].char \notin Sentinels})

\* What should be shown: each character, marked if it is hit.
Intended(text, matches) ==
    [i \in DOMAIN text |-> [char |-> text[i], mark |-> Hit(text, matches, i)]]

\* A snippet shows all the text it was given, in its order, and every match is
\* marked; "a stray sentinel in page content can at worst produce a spurious
\* highlight" (src/web/templates.rs, render_snippet).  That is so for sentinels
\* outside of matches.  Those within one, which takes a phrase, part it: the rest of
\* the match is marked up to a stray "close" only.
SnippetKeepsText ==
    Is("snippet") =>
        LET shown == Plain(RenderSnippet(Splice(input.text, input.matches)))
            intended == Plain(Intended(input.text, input.matches))
        IN /\ Len(shown) = Len(intended)
           /\ \A i \in DOMAIN intended :
                shown[i].char = intended[i].char /\ (intended[i].mark => shown[i].mark)
           /\ ToSet(input.text) \cap Sentinels = {} => shown = intended

-----------------------------------------------------------------------------
(* The body of a page.  A line is empty, of blanks, of text, or a heading    *)
(* `# title`, whose title may be empty.                                     *)

IsBlank(line) == line.kind \in {"empty", "blanks"}

Words(lines) == At(lines, {i \in DOMAIN lines : ~IsBlank(lines[i])})

\* derive_title: the first heading, wherever it stands.
DeriveTitle(lines, fallback) ==
    LET at == SelectInSeq(lines, LAMBDA l : l.kind = "heading")
    IN IF at = 0 THEN fallback ELSE lines[at].title

\* Mutant of BodyAfterTitle: a heading at the top goes, whatever it says.
BodyAfterAnyTitle(lines, title) ==
    LET top == SelectInSeq(lines, LAMBDA l : ~IsBlank(l))
        tail == SubSeq(lines, top + 1, Len(lines))
        text == SelectInSeq(tail, LAMBDA l : l.kind # "empty")
    IN IF top # 0 /\ lines[top].kind = "heading" /\ lines[top].title # None
         THEN IF text = 0 THEN <<>> ELSE SubSeq(tail, text, Len(tail))
         ELSE lines

\* body_after_title removes the first line that is not blank if it is a heading
\* with the page's title, and the empty lines below it.  A heading without a
\* title is a mere `#` once it is trimmed, and stays.
BodyAfterTitle(lines, title) ==
    LET top == SelectInSeq(lines, LAMBDA l : ~IsBlank(l))
        tail == SubSeq(lines, top + 1, Len(lines))
        text == SelectInSeq(tail, LAMBDA l : l.kind # "empty")
    IN IF top # 0 /\ lines[top].kind = "heading" /\ lines[top].title # None
          /\ lines[top].title = title
         THEN IF text = 0 THEN <<>> ELSE SubSeq(tail, text, Len(tail))
         ELSE lines

\* Title and body together say what the file says: only a heading that repeats
\* the title is left out, although the title is of the row and the row may be
\* of another save than the file (pages::read); and a title that heads its own
\* text is not shown twice.
BodyKeepsText ==
    Is("body") =>
        LET title == DeriveTitle(input.titled, "page")
            body == BodyAfterTitle(input.lines, title)
            words == Words(input.lines)
        IN /\ \/ Words(body) = words
              \/ /\ words # <<>> /\ Words(body) = Tail(words)
                 /\ Head(words) = [kind |-> "heading", title |-> title]
           /\ input.titled = input.lines /\ words # <<>>
              /\ Head(words).kind = "heading" /\ Head(words).title # None
              => Words(body) = Tail(words)

-----------------------------------------------------------------------------
(* Ages, as rel_time shows them: the instant itself, or an amount of units. *)

Stamp == [unit |-> 0, amount |-> 0]
Ago(unit, amount) == [unit |-> unit, amount |-> amount]

\* Mutant of RelTime: the arm for "just now" comes before that for the future.
RelTimeNowFirst(delta) ==
    CASE delta < Soon -> Ago(Soon, 0)
      [] delta >= Soon /\ delta < Hour -> Ago(Minute, (delta + Minute \div 2) \div Minute)
      [] delta >= Hour /\ delta < Day -> Ago(Hour, delta \div Hour)
      [] delta >= Day /\ delta < Month -> Ago(Day, delta \div Day)
      [] OTHER -> Stamp

RelTime(delta) ==
    CASE delta < -Skew -> Stamp
      [] delta >= -Skew /\ delta < Soon -> Ago(Soon, 0)
      [] delta >= Soon /\ delta < Hour -> Ago(Minute, (delta + Minute \div 2) \div Minute)
      [] delta >= Hour /\ delta < Day -> Ago(Hour, delta \div Hour)
      [] delta >= Day /\ delta < Month -> Ago(Day, delta \div Day)
      [] OTHER -> Stamp

\* An age is off by less than its unit, or by the clock skew that passes for
\* now, and no edit is shown as younger than one that came after it: not where
\* minutes, which are rounded, meet hours, which are cut off.
AgeIsClose ==
    Is("ages") =>
        LET older == RelTime(input.older)
            newer == RelTime(input.newer)
            Secs(age) == age.unit * age.amount
        IN /\ older # Stamp => input.older - Secs(older) \in -Skew..(older.unit - 1)
           /\ input.newer =< input.older /\ older # Stamp /\ newer # Stamp
                => Secs(newer) =< Secs(older)
=============================================================================
