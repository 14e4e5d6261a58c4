----------------------------- MODULE EditSession -----------------------------
(***************************************************************************)
(* Editors of pages: an agent that GETs a page and PUTs it back under      *)
(* If-Match (src/web/mod.rs, api_get_page and api_put_page), and a person  *)
(* with the edit form, which comes back when a save is refused (view_page, *)
(* save_page).  Reading takes the row first and the file after it, without *)
(* the writer lock (pages::read), while other calls go through PageWrite.  *)
(***************************************************************************)
EXTENDS PageWrite

CONSTANTS
    Agents,      \* editors that use the API
    Browsers,    \* editors that use the form
    Background,  \* requests of callers that are not editors, as the sync script
    Rewrites     \* whether a call may write a text that was written before

Editors == Agents \cup Browsers

ASSUME EditorsAreDistinct == Agents \cap Browsers = {} /\ None \notin Editors
ASSUME BackgroundRequests == Background \subseteq Requests
ASSUME RewritesIsBoolean == Rewrites \in BOOLEAN

VARIABLE session   \* [Editors -> what the editor has open, one page each]

sessionVars == <<vars, session>>

Session == [at : {"start", "meta", "open", "saving", "ended"},
            page : Pages \cup {None},
            row : Row,                            \* read from the database
            text : Contents \cup {None, Torn},    \* read from the file
            call : Writers \cup {None},           \* its last save
            warned : BOOLEAN,                     \* its form reports a conflict
            blind : BOOLEAN,                      \* the form's row could not be read
            edits : Nat]                          \* history: edits when it was shown

Fresh == [at |-> "start", page |-> None, row |-> NoRow, text |-> None,
          call |-> None, warned |-> FALSE, blind |-> FALSE, edits |-> 0]

SessionInit == Init /\ session = [e \in Editors |-> Fresh]

-----------------------------------------------------------------------------
\* read_meta: a page without a row is a 404, which the form shows as a new page.
\* A query that fails is a 500, and no session has begun.
ReadMeta(e, p) ==
    /\ server # "crashed" /\ server # "stopped"
    /\ session[e].at = "start"
    /\ session' = [session EXCEPT ![e] =
         [Fresh EXCEPT !.at = IF pages[p].present THEN "meta" ELSE "open",
                       !.page = p, !.row = pages[p], !.edits = Len(page_edits)]]
    /\ UNCHANGED vars

\* read_to_string: the file as it is now, which ends the session with a 500 if
\* there is none.
ReadFile(e) ==
    LET text == disk[session[e].page]
    IN /\ session[e].at = "meta"
       /\ session' = [session EXCEPT ![e].text = text,
                                     ![e].at = IF text = None THEN "ended" ELSE "open"]
       /\ UNCHANGED vars

\* What an agent sends back: the ETag, which a row without a hash does not
\* have, or If-None-Match for a page it did not find.
AgentCondition(row) ==
    CASE row.content_hash # None -> [kind |-> "Revision", rev |-> row.content_hash]
      [] row.present /\ row.content_hash = None -> [kind |-> "Exists", rev |-> None]
      [] OTHER -> [kind |-> "Absent", rev |-> None]

\* Mutants of FormCondition: the field is always empty; an empty field is taken
\* for no field at all.
FormConditionAlwaysEmpty(row) == [kind |-> "Absent", rev |-> None]

FormConditionEmptyIsNone(row) ==
    IF row.content_hash # None
      THEN [kind |-> "Revision", rev |-> row.content_hash]
      ELSE [kind |-> "None", rev |-> None]

\* What the form sends: its hidden field holds the revision, or nothing when
\* there is none, and save_page reads an empty field as a page to be created.
FormCondition(row) ==
    IF row.content_hash # None
      THEN [kind |-> "Revision", rev |-> row.content_hash]
      ELSE [kind |-> "Absent", rev |-> None]

NewText(c) == Rewrites \/ \A v \in Writers : req[v] # None => req[v].content # c

Save(e, w, r) ==
    /\ session[e].at = "open"
    /\ r.page = session[e].page
    /\ r.pre = IF e \in Agents THEN AgentCondition(session[e].row)
                               ELSE FormCondition(session[e].row)
    /\ NewText(r.content)
    /\ Submit(w, r)
    /\ session' = [session EXCEPT ![e].at = "saving", ![e].call = w]

Answered(e) == session[e].at = "saving" /\ caller[session[e].call] = "answered"

\* Mutant of Refused: the form comes back with the revision it was sent with.
RefusedKeepsRow(e) ==
    LET s == session[e]
    IN /\ Answered(e)
       /\ result[s.call] = "conflict"
       /\ session' = [session EXCEPT ![e] =
            IF e \in Agents THEN Fresh
            ELSE [s EXCEPT !.at = "open", !.warned = TRUE, !.text = req[s.call].content,
                           !.edits = Len(page_edits)]]
       /\ UNCHANGED vars

\* 412 to an agent: it reads the page again.  412 to a browser: save_page reads
\* the row again, after the lock is gone, and renders the submitted text over it.
\* A read_meta that fails, as it may whether or not a call does, is taken for a page
\* without a row (`.ok().flatten()`): the form comes back with an empty revision.
Refused(e) ==
    LET s == session[e]
        form(blind) ==
            [s EXCEPT !.at = "open", !.warned = TRUE, !.blind = blind,
                      !.row = IF blind THEN NoRow ELSE pages[s.page],
                      !.text = req[s.call].content, !.edits = Len(page_edits)]
    IN /\ Answered(e)
       /\ result[s.call] = "conflict"
       /\ \E blind \in BOOLEAN :
            session' = [session EXCEPT ![e] = IF e \in Agents THEN Fresh ELSE form(blind)]
       /\ UNCHANGED vars

\* Any other answer ends the session.
EndSession(e) ==
    /\ session[e].at = "saving"
    /\ caller[session[e].call] \in {"answered", "gone"}
    /\ result[session[e].call] # "conflict" \/ caller[session[e].call] = "gone"
    /\ session' = [session EXCEPT ![e].at = "ended"]
    /\ UNCHANGED vars

\* A call of somebody who does not edit what is there, but replaces it.
Overwrite(w, r) ==
    /\ NewText(r.content)
    /\ Submit(w, r)
    /\ UNCHANGED session

SessionNext ==
    \/ System /\ UNCHANGED session
    \/ \E w \in Writers, r \in Background : Overwrite(w, r)
    \/ \E e \in Editors :
        \/ \E p \in Pages : ReadMeta(e, p)
        \/ ReadFile(e) \/ Refused(e) \/ EndSession(e)
        \/ \E w \in Writers, r \in Requests : Save(e, w, r)

SessionSpec == SessionInit /\ [][SessionNext]_sessionVars

-----------------------------------------------------------------------------
(* Properties.                                                             *)

\* A save that goes through replaces the text its editor had before it, and no
\* other: reading the row before the file makes a read that raced with a write
\* fail its condition (README.md, "an actor cannot erase a change it never saw").
SavesOverWhatItRead ==
    \A e \in Editors :
        session[e].call # None /\ ~session[e].warned =>
            \A i \in CommitsOf(session[e].call) :
                commits[i - 1].tree[session[e].page] = session[e].text

\* A form without the revision of a page that has a row asks for a page that is
\* absent, and is refused whatever happens: the form of a row another tool wrote,
\* which has no revision, and one whose row save_page could not read.
FormIsVoid(e) ==
    /\ e \in Browsers
    /\ \/ session[e].row.present /\ session[e].row.content_hash = None
       \/ session[e].blind

\* A conditional save is refused only if the page's row has changed since the
\* editor read it: no editor but that of a void form is refused for its own
\* condition.
RefusedOnlyIfChanged ==
    [][ \A e \in Editors :
          LET s == session[e]
          IN /\ s.at = "saving" /\ pc[s.call] = "precondition"
             /\ result'[s.call] = "conflict" /\ ~FormIsVoid(e)
             => pages[s.page] # s.row ]_sessionVars

\* Saving the form that came back with a conflict is refused only if yet another
\* write of the page was recorded after the form was made: the revision it
\* carries is that of the row save_page read after the refusal, not the one that
\* was refused (src/web/templates.rs, edit_page: "Saving again then overwrites
\* knowingly").  A form that could not be given a revision is excepted.
SavingAgainOverwrites ==
    [][ \A e \in Browsers :
          LET s == session[e]
          IN /\ s.warned /\ s.at = "saving" /\ pc[s.call] = "precondition"
             /\ result'[s.call] = "conflict" /\ ~FormIsVoid(e)
             => \E i \in DOMAIN page_edits : i > s.edits /\ page_edits[i].page = s.page
      ]_sessionVars
=============================================================================
