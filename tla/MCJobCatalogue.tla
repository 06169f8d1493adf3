--------------------------- MODULE MCJobCatalogue ---------------------------
(* Small instances of JobCatalogue for TLC. *)
EXTENDS JobCatalogue

CONSTANTS go, rust

\* One kind of job, two to a page; all jobs, one to a page.
MCFilters == {[kind |-> go, page |-> 1, limit |-> 2],
              [kind |-> AnyKind, page |-> 1, limit |-> 1]}

\* All jobs, by two page sizes.
MCPages == {[kind |-> AnyKind, page |-> 1, limit |-> 1],
            [kind |-> AnyKind, page |-> 1, limit |-> 2],
            [kind |-> AnyKind, page |-> 2, limit |-> 2]}

=============================================================================
