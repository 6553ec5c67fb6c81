--------------------------- MODULE MCSpecExecutor ---------------------------
(* Small instances of SpecExecutor for TLC. *)
EXTENDS SpecExecutor

\* Everything a normal and a speculative path can meet in a safe configuration.
MCNormalInsts == InstClasses \ {"fence", "again"}
MCSpecInsts == InstClasses \ {"fork", "invoke", "again"}
MCOptions == {"enable-speculative", "enable-cachemodel", "max-time",
              "dump-states-on-halt"}
MCNoCache == {"enable-speculative"}

\* No speculation, and the limits that end a state early.
MCPlain == {"max-time", "max-instruction-time", "dump-states-on-halt"}

\* One option, or one class of instructions, more than a safe configuration has.
MCForkInsts == MCSpecInsts \cup {"fork"}
MCInstTime == MCOptions \cup {"max-instruction-time"}
MCMemoryCap == MCOptions \cup {"max-memory"}
MCMarkedSecret == MCOptions \cup {"only-detect-marked-secret"}
=============================================================================
