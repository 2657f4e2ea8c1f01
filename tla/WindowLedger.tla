---------------------------- MODULE WindowLedger ----------------------------
(***************************************************************************)
(* What a window's manifest promises, whatever happens while it is being   *)
(* written: a ledger of the sources read into the window, each entered     *)
(* once and for ever, with every one of its lines counted in exactly one   *)
(* place, and a redaction flag that only ever goes down.                   *)
(* The promise is the module docstring of src/loghog/window/manifest.py,   *)
(* the two checks of Manifest.__post_init__, and Manifest.merge.           *)
(***************************************************************************)
EXTENDS Integers

CONSTANTS
    Sources,    \* (path, sha256) pairs: what a source entry is keyed on
    Lines       \* Lines[s]: the number of lines of source s, a natural number

VARIABLES
    sources,    \* the sources entered so far
    counts,     \* the totals over all of them
    redacted    \* no run with redaction off has been entered

vars == <<sources, counts, redacted>>

CountNames ==
    {"lines", "blanks", "rows", "unparsed", "invalid", "written", "dropped"}

Counts == [CountNames -> Nat]

NoCounts == [n \in CountNames |-> 0]

Plus(c, d) == [n \in CountNames |-> c[n] + d[n]]

\* Every line of a source is a row, a blank or unreadable, and every row is a
\* record, a duplicate or invalid: between the two sums each line has one home.
Closes(c) ==
    /\ c["lines"] = c["rows"] + c["blanks"] + c["unparsed"]
    /\ c["rows"] = c["written"] + c["dropped"] + c["invalid"]

Init ==
    /\ sources = {}
    /\ counts = NoCounts
    /\ redacted = TRUE

\* What one run added to the totals.
Added == [n \in CountNames |-> counts'[n] - counts[n]]

Commit(s) ==
    /\ s \notin sources
    /\ sources' = sources \cup {s}
    /\ Added \in Counts
    /\ Closes(Added)
    /\ Added["lines"] = Lines[s]
    /\ Added["written"] > 0
    /\ redacted' \in {redacted, FALSE}

Next == \E s \in Sources : Commit(s)

Spec == Init /\ [][Next]_vars
=============================================================================
