---------------------------- MODULE MCErrorLogger ----------------------------
(* Two threads make two calls meet; the followed hooks store nothing, one  *)
(* field, or all of them before and after the original call.               *)
EXTENDS ErrorLogger

CONSTANTS t1, t2

MCThreads == {t1, t2}
MCWatched == {"proc_83F24534", "scePafGraphics_b228a257"}
MCDirect  == {"proc_gc_param_sfo_83F6B554"}
=============================================================================
