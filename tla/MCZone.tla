------------------------------- MODULE MCZone -------------------------------
(***************************************************************************)
(* Zones of no page to three pages, on both sides of the sizes at which    *)
(* one more page fits.  Real page size and shifts.                         *)
(***************************************************************************)
EXTENDS Zone

\* There are 184 + 9 * 56 = 688 bytes of tables.
Zones == {4808, 4900, 8191, 8192, 8800, 8880, 8928, 12200, 12288, 13000,
          16383, 16384, 16500}
AnyRequests == {8, 1024}

BothBuilds == {"anon", "devzero"}

=============================================================================
