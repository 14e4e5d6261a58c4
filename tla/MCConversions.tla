---------------------------- MODULE MCConversions ----------------------------
(***************************************************************************)
(* Inputs of the conversions for TLC: integers of 8 bits and units that    *)
(* divide each other as the real ones do; short texts of all the           *)
(* characters a conversion looks for; and ages about every threshold.      *)
(***************************************************************************)
EXTENDS Rendering

MCUnitSecs ==
    [u \in {"", "s", "m", "h", "d", "w", "y"} |->
        CASE u \in {"", "s"} -> 1 [] u = "m" -> 3 [] u = "h" -> 6
          [] u = "d" -> 12 [] u = "w" -> 24 [] u = "y" -> 60]

Values == 0..(2^Width - 1)

DurationInputs == [of : {"secs"}, secs : Values]

Numbers == 0..25 \cup {127, 128, 129, 255, 256, None}

LifetimeInputs ==
    [of : {"lifetime"}, now : {0, 5, 100},
     text : [number : Numbers, unit : DOMAIN MCUnitSecs \cup {"q"}, padded : BOOLEAN]]

Line(text) == [visible |-> TRUE, text |-> text]
Hidden(line) == [line EXCEPT !.visible = FALSE]
Quoted(rev) == <<"quote", rev, "quote">>

OneLine == { <<Line(t)>> : t \in BoundedSeq({"quote", "comma", "star", "blank", "r"}, 4) }
SomeLines == {Line(Quoted("r")), Line(Quoted("s")), Line(<<"star">>)}
FewLines == BoundedSeq(SomeLines \cup {Hidden(l) : l \in SomeLines}, 2)

Rows ==
    { Data!NoRow, Data!UnrecordedRow }
        \cup { [Data!UnrecordedRow EXCEPT !.content_hash = <<r>>] : r \in {"r", "s"} }

HeaderInputs ==
    [of : {"headers"}, row : Rows,
     headers : [if_match : OneLine \cup FewLines, if_none_match : {<<>>}]
          \cup [if_match : {<<>>}, if_none_match : OneLine]
          \cup [if_match : FewLines, if_none_match : FewLines]]

AuthorInputs ==
    [of : {"author"}, type : BoundedSeq({"t"}, 2) \ {<<>>},
     handle : BoundedSeq({"x", "y", "colon", "less", "greater", "blank"}, 3)]

Ranges(n) == { m \in [first : 1..n, last : 1..n] : m.first =< m.last }

Apart(matches) == \A m \in matches, n \in matches : m # n => m.last < n.first \/ n.last < m.first

SnippetInputs ==
    UNION { [of : {"snippet"}, text : {t},
             matches : { ms \in SUBSET Ranges(Len(t)) : Apart(ms) }] :
            t \in BoundedSeq({"x", "y", "open", "close"}, 4) }

Lines ==
    [kind : {"empty", "blanks", "text"}, title : {None}]
        \cup [kind : {"heading"}, title : {"A", "page", None}]

BodyInputs ==
    [of : {"body"}, lines : BoundedSeq(Lines, 3), titled : BoundedSeq(Lines, 2)]
        \cup { [of |-> "body", lines |-> l, titled |-> l] : l \in BoundedSeq(Lines, 4) }

About(n) == (n - 2)..(n + 2)

Deltas ==
    UNION { About(n) : n \in {-90000, -Skew, 0, Soon, Minute, Minute + 30, 2 * Minute,
                              Hour - 30, Hour, 2 * Hour, Day, 2 * Day, Month, 2 * Month} }

AgeInputs == [of : {"ages"}, older : Deltas, newer : Deltas]

MCInputs ==
    DurationInputs \cup LifetimeInputs \cup HeaderInputs \cup AuthorInputs
        \cup SnippetInputs \cup BodyInputs \cup AgeInputs
=============================================================================
