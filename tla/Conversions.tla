----------------------------- MODULE Conversions -----------------------------
(***************************************************************************)
(* What the program does to values on their way in and out: durations of   *)
(* the configuration and the command line, entity tags, the author line of *)
(* a commit, and the parts of a page that templates take to pieces.  Every *)
(* conversion is an operator.  The variable holds one input at a time, so  *)
(* that TLC checks the operators input by input.                           *)
(*                                                                         *)
(* Text is a sequence of characters, of which only those are told apart    *)
(* that a conversion looks for.                                            *)
(***************************************************************************)
EXTENDS Integers, Sequences, SequencesExt

CONSTANTS
    Inputs,      \* the inputs, as records whose field `of` names the conversion
    Width,       \* bits of an integer, 64 in the program
    UnitSecs,    \* seconds of each unit: "", s, m, h, d, w, y
    None         \* an error, a missing header, no title, no expiry

Modulus == 2^Width

\* The first value that a signed integer does not have.
Half == 2^(Width - 1)

\* The second part is arithmetic, which TLC computes for the width it is given.
ASSUME WidthIsPositive ==
    /\ Width \in Nat \ {0}
    /\ Half \in Nat \ {0} /\ Modulus = 2 * Half

\* What format_duration relies on: each unit is a multiple of the one below it.
ASSUME UnitsDivide ==
    /\ DOMAIN UnitSecs = {"", "s", "m", "h", "d", "w", "y"}
    /\ \A u \in DOMAIN UnitSecs : UnitSecs[u] \in Nat \ {0}
    /\ UnitSecs[""] = 1 /\ UnitSecs["s"] = 1
    /\ UnitSecs["h"] % UnitSecs["m"] = 0
    /\ UnitSecs["d"] % UnitSecs["h"] = 0
    /\ UnitSecs["w"] % UnitSecs["d"] = 0 /\ UnitSecs["y"] % UnitSecs["d"] = 0

\* Seconds are an integer's, the time of day is no negative one, and a number has
\* no sign.  A revision is a hash, which has no comma.
ASSUME InputsAreInputs ==
    /\ None \notin Nat \cup Seq(STRING)
    /\ None \notin [kind : {"Revision"}, rev : Seq(STRING)]
    /\ \A i \in Inputs :
        CASE i.of = "secs" -> i.secs \in 0..(Modulus - 1)
          [] i.of = "lifetime" -> i.now \in Nat /\ i.text.number \in Nat \cup {None}
          [] i.of = "headers" ->
               /\ i.headers.if_match \in Seq([visible : BOOLEAN, text : Seq(STRING)])
               /\ i.headers.if_none_match \in Seq([visible : BOOLEAN, text : Seq(STRING)])
               /\ i.row.present \in BOOLEAN
               /\ i.row.content_hash \in Seq(STRING \ {"comma"}) \cup {None}
               /\ i.row.content_hash # None => i.row.present
          [] OTHER -> TRUE

VARIABLE input

Init == input \in Inputs
Next == UNCHANGED input
Spec == Init /\ [][Next]_input

Is(conversion) == input.of = conversion

-----------------------------------------------------------------------------
(* Durations: a number, a unit, and whether blanks surround them.          *)

Wrap(n) == n % Modulus
Signed(n) == IF Wrap(n) >= Half THEN Wrap(n) - Modulus ELSE Wrap(n)

\* parse_duration of the configuration multiplies u64 values: a release build
\* wraps, a build with overflow checks panics.
ParseDuration(text, checks) ==
    IF \/ text.unit \notin DOMAIN UnitSecs
       \/ text.number = None \/ text.number >= Modulus
       \/ checks /\ text.number * UnitSecs[text.unit] >= Modulus
      THEN None
      ELSE Wrap(text.number * UnitSecs[text.unit])

\* Mutant of FormatDuration: the largest unit that fits, divisible or not.
FormatDurationRounded(secs) ==
    LET unit == CASE secs >= UnitSecs["y"] -> "y"
                  [] secs < UnitSecs["y"] /\ secs >= UnitSecs["d"] -> "d"
                  [] secs < UnitSecs["d"] /\ secs >= UnitSecs["h"] -> "h"
                  [] secs < UnitSecs["h"] /\ secs >= UnitSecs["m"] -> "m"
                  [] OTHER -> "s"
    IN [number |-> secs \div UnitSecs[unit], unit |-> unit, padded |-> FALSE]

\* format_duration takes the largest unit that divides; weeks are not used.
FormatDuration(secs) ==
    LET fits == {u \in {"y", "d", "h", "m", "s"} : secs % UnitSecs[u] = 0}
        unit == CHOOSE u \in fits : \A v \in fits : UnitSecs[v] =< UnitSecs[u]
    IN [number |-> secs \div UnitSecs[unit], unit |-> unit, padded |-> FALSE]

\* now_ts() + as_secs(), where a configured lifetime begins: u64 becomes i64.
ExpiryOf(now, secs) == Signed(now + Signed(secs))

Empty(text) == text.number = None /\ text.unit = "" /\ ~text.padded

\* Mutant of ParseLifetime: a number without a unit is taken for days.
ParseLifetimeInDays(now, text, default) ==
    IF text.padded \/ text.number = None \/ text.number >= Half
          \/ text.unit \notin DOMAIN UnitSecs
      THEN None
      ELSE ExpiryOf(now, text.number * UnitSecs[IF text.unit = "" THEN "d" ELSE text.unit])

\* parse_lifetime of the command line has a grammar of its own: the number is
\* signed, blanks are refused, and sum and product wrap in a release build.  An
\* empty text means token_default_lifetime.
ParseLifetime(now, text, default) ==
    IF Empty(text) THEN IF default = None THEN None ELSE ExpiryOf(now, default)
    ELSE IF text.padded \/ text.number = None \/ text.number >= Half
          \/ text.unit \notin DOMAIN UnitSecs
      THEN None
      ELSE ExpiryOf(now, text.number * UnitSecs[text.unit])

\* A duration that is written out is read back as itself, whatever the build
\* does about overflows (src/config/mod.rs, the Serialize and Deserialize of
\* HumanDuration).
DurationsRoundTrip ==
    Is("secs") => \A checks \in BOOLEAN :
        ParseDuration(FormatDuration(input.secs), checks) = input.secs

\* A lifetime given to issue-token expires in the very second in which the same
\* text in the configuration would make a token expire ("Reuses the config
\* grammar", src/main.rs), and one that overflows never outlives what was written.
LifetimesAgree ==
    Is("lifetime") /\ ~Empty(input.text) =>
        LET text == input.text
            expiry == ParseLifetime(input.now, text, 0)
        IN expiry # None =>
            /\ expiry = ExpiryOf(input.now, ParseDuration(text, FALSE))
            /\ expiry =< input.now + text.number * UnitSecs[text.unit]

-----------------------------------------------------------------------------
(* Conditions of an API write, from its header fields (src/web/mod.rs).    *)
(* A field is the sequence of the lines it was sent in, a line its text    *)
(* and whether that is visible ASCII.                                      *)

Trim(text) ==
    LET kept == {i \in DOMAIN text : text[i] # "blank"}
    IN IF kept = {} THEN <<>>
       ELSE SubSeq(text, CHOOSE i \in kept : \A j \in kept : i =< j,
                         CHOOSE i \in kept : \A j \in kept : j =< i)

EtagFor(revision) == <<"quote">> \o revision \o <<"quote">>

\* Mutant of ParseEtag: a tag without its quotes will do.
ParseEtagBare(text) ==
    LET raw == Trim(text)
    IN IF Len(raw) >= 2 /\ raw[1] = "quote" THEN SubSeq(raw, 2, Len(raw) - 1) ELSE raw

ParseEtag(text) ==
    LET raw == Trim(text)
    IN IF Len(raw) >= 2 /\ raw[1] = "quote" /\ raw[Len(raw)] = "quote"
         THEN SubSeq(raw, 2, Len(raw) - 1) ELSE None

\* HeaderMap::get returns the first line of a field, and to_str().ok() has no
\* text for a line that is not visible ASCII.
HeaderText(lines) == IF lines = <<>> \/ ~Head(lines).visible THEN None ELSE Head(lines).text

Condition(kind, rev) == [kind |-> kind, rev |-> rev]

\* None stands for a 400.
PreconditionFromHeaders(headers) ==
    LET m == HeaderText(headers.if_match)
        n == HeaderText(headers.if_none_match)
        tag == ParseEtag(m)
    IN CASE m = None /\ n = None -> Condition("None", None)
         [] m = None /\ n # None ->
              IF Trim(n) = <<"star">> THEN Condition("Absent", None) ELSE None
         [] m # None /\ n = None /\ Trim(m) = <<"star">> -> Condition("Exists", None)
         [] m # None /\ n = None /\ Trim(m) # <<"star">> ->
              IF Contains(m, "comma") \/ tag = None THEN None ELSE Condition("Revision", tag)
         [] OTHER -> None

\* Precondition::check and the rows it is evaluated on.
Data == INSTANCE WikiData WITH
            Writers <- {}, Pages <- {}, Contents <- {}, Revisions <- {}, ContentHash <- <<>>,
            Actors <- {}, Layers <- {}, Requests <- {}

\* What HTTP says of If-Match: some tag of it is the page's, or a star and there is
\* a page; and of If-None-Match, the star: there is none.
MatchMeets(lines, row) ==
    /\ row.present
    /\ \E i \in DOMAIN lines :
        LET text == Trim(lines[i].text)
        IN text = <<"star">> \/ (row.content_hash # None /\ text = EtagFor(row.content_hash))

\* A field that was sent and whose first line has no text, which the code takes for a
\* field that was not sent.
Skipped(lines) == lines # <<>> /\ ~Head(lines).visible

\* A conditional write goes through only on a page as each of its fields asks for, and
\* one that sends back the ETag it was given goes through (src/web/mod.rs, "A list of
\* candidate tags is rejected rather than half-supported").  A field is left out of
\* account in one case only, when its first line is not visible ASCII; no other line
\* of it counts then, and the write is unconditional if it has no second field.
ConditionIsHonoured ==
    Is("headers") =>
        LET pre == PreconditionFromHeaders(input.headers)
            match == input.headers.if_match
            none_match == input.headers.if_none_match
        IN /\ pre # None /\ Data!Allows(pre, input.row) =>
                /\ match = <<>> \/ Skipped(match) \/ MatchMeets(match, input.row)
                /\ none_match = <<>> \/ Skipped(none_match) \/ ~input.row.present
           /\ /\ input.row.content_hash # None
              /\ match # <<>> /\ Head(match) = [visible |-> TRUE,
                                                text |-> EtagFor(input.row.content_hash)]
              /\ none_match = <<>> \/ Skipped(none_match)
              => pre # None /\ Data!Allows(pre, input.row)
=============================================================================
