---------------------------- MODULE MCUserMemory ----------------------------
(* UserMemory on an 8-bit machine with 8-byte pages: SZ_2G = 128, sixteen *)
(* pages, the stack reserve is pages 6..15 (StackLimit = 48) and the heap *)
(* starts at page 2, so it has four pages below the reserve, the last of  *)
(* which is the page a fault at StackLimit - 1 maps as stack page 10.     *)
EXTENDS UserMemory

CONSTANTS p1, p2

MCProcs == {p1, p2}

(* 25 takes the cursor from the heap base into the page under the      *)
(* reserve and, once more, past the guard; 127 = INT_MAX overflows       *)
(* heap_cursor + size; -128 = INT_MIN makes 0 - size overflow.           *)
MCSbrkSizes == {0, 25, 127, -25, -128}

(* A heap address, the two bytes around exceeds_capacity (47), stack page *)
(* 9 and stack page 1, and SZ_2G itself.                                   *)
MCFaultAddrs == {16, 46, 47, 48, 119, 128}
==============================================================================
