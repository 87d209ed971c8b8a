---------------------------- MODULE MCCrapReport ----------------------------
(* A small instance of CrapReport for TLC: two paths; sources with callables   *)
(* three deep, with a complexity of eight, with init twice, and with literals   *)
(* that nothing in their identity tells apart, side by side or in two others;   *)
(* profiles of any three of the lines below.                                     *)
EXTENDS CrapReport, FiniteSetsExt

CONSTANTS MaxLines     \* bound: lines of a profile

\* A callable as go/ast shows it: where it stands, and what stands around it.
Body(start, end, name, signature, role, text, slot) ==
    [start |-> start, end |-> end, name |-> name, signature |-> signature,
     role |-> role, text |-> text, slot |-> slot]
Declared(start, end, name, text)       == Body(start, end, name, "func()", "declared", text, -1)
Argument(start, end, sig, callee, nth) == Body(start, end, "anonymous", sig, "argument", callee, nth)
Deferred(start, end, text)             == Body(start, end, "anonymous", "func()", "deferCallable", text, -1)

Nested  == [bodies    |-> {Declared(1, 12, "f", "text"), Argument(3, 9, "func()", "run", 0),
                           Argument(5, 7, "func()", "run", 0)},
            decisions |-> {2, 10, 11}]
Heavy   == [bodies |-> {Declared(1, 9, "f", "text")}, decisions |-> 2..8]
Twins   == [bodies |-> {Declared(1, 4, "init", "one"), Declared(6, 9, "init", "other")}, decisions |-> {}]
Defers  == [bodies    |-> {Declared(1, 12, "f", "text"), Deferred(6, 7, "one"), Deferred(8, 11, "other")},
            decisions |-> {}]
Relayed == [bodies    |-> {Declared(1, 12, "f", "text"),
                           Argument(2, 5, "func(int)", "walk", 0), Argument(3, 4, "func()", "run", 0),
                           Argument(6, 9, "func(int, int)", "sort", 1), Argument(7, 8, "func()", "run", 0)},
            decisions |-> {}]
AnySource == {Nested, Heavy, Twins, Defers, Relayed}

Line(path, start, end, statements, hits) ==
    [path |-> path, start |-> start, end |-> end, statements |-> statements, hits |-> hits]

Lines ==
    {Line(1, 1, 3, 1, 1),                        \* the outer callable's own
     Line(1, 3, 5, 1, 1), Line(1, 4, 8, 1, 2),   \* the middle one's; beside and around the inner
     Line(1, 5, 7, 2, 1), Line(1, 5, 5, 0, 0),   \* the inner one's; a marker
     Line(1, 8, 11, 1, 0), Line(1, 7, 6, 1, 1),  \* across an end; backwards
     Line(2, 2, 5, 2, 1), Line(2, 2, 5, 2, 0),   \* one place twice
     Line(2, 8, 9, SafeInteger + 1, 1),          \* too heavy
     Line(Outside, 1, 2, 1, 1)}

AnyProfile ==
    [mode : {"set", "count"}, lines : UNION {kSubset(k, Lines) : k \in 0..MaxLines}]
=============================================================================
