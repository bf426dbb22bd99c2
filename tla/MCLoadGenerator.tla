--------------------------- MODULE MCLoadGenerator ---------------------------
(***************************************************************************)
(* Values of the constants of LoadGenerator for TLC.                       *)
(***************************************************************************)
EXTENDS LoadGenerator

(* Two cores with a channel each, or one core with several: more requests  *)
(* than one per channel, fewer requests than channels, requests that the   *)
(* channels do not share out evenly; too little memory for an envelope,    *)
(* too little for several channels, and just enough.                       *)
ArgsOf(cores, channels, reqs, memory) ==
  [cores |-> cores, concurrency |-> channels, num_of_req |-> reqs, memory |-> memory]
SomeArgs ==
  {ArgsOf(2, 1, 2, 3), ArgsOf(2, 1, 1, 2), ArgsOf(1, 2, 1, 6), ArgsOf(1, 2, 5, 6),
   ArgsOf(1, 2, 2, 5), ArgsOf(1, 2, 2, 3), ArgsOf(1, 3, 4, 9)}

(* One value in the first bucket, one beyond the last, one not recorded.   *)
SomeLatencies == {1, 9, 50}

=============================================================================
