----------------------------- MODULE MCFirstFit -----------------------------
(* Instances of FirstFit for TLC, with the sizes of the code (ALIGN 16,     *)
(* headers of 12 bytes) in heaps of about a hundred bytes.                  *)
EXTENDS FirstFit

MCStartMem == {16}
MCMallocSizes == {4, 21}

\* A first chunk of 52 bytes: up to four blocks of 4 bytes with their headers,
\* so splits, merges on both sides, growth, relocation and failure all happen.
MCHeapSizes == {96}

\* Multiples of ALIGN, a size above INT_MAX, and 0 and WordSize - 1, which are
\* rounded to 0.
MCReallocSizes == {0, 16, 32, 600, 1023}

\* Sizes that are no multiple of ALIGN, in a heap with room to relocate.
MCOddHeapSizes == {128}
MCOddReallocSizes == {17, 32}

\* The smallest sizes firstfit_new accepts: 45 bytes and a little more.
MCTinyHeapSizes == 44 .. 49
=============================================================================
