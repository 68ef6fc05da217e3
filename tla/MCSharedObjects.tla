--------------------------- MODULE MCSharedObjects ---------------------------
(* Constants of SharedObjects that a configuration file cannot write.      *)
EXTENDS SharedObjects, TLC

CONSTANTS Opener, Reader

(* One task opens, configures and closes, the other waits and reads. *)
OpenerAndReader ==
  (Opener :> {"open", "ioctl", "close", "fcntl"}) @@ (Reader :> {"read", "select"})

(* Two handlers of each interface, those of one interface first. *)
TwoHandlersEach ==
  <<<<"start", "sta">>, <<"connected", "sta">>, <<"start", "ap">>, <<"stop", "ap">>>>

(* Receive buffers are interchangeable. *)
FrameSymmetry == Permutations(Frames)

(* ListIsProtected says nothing of what follows once two calls met at an   *)
(* empty list, and raced is never reset: no need to go on from there.      *)
BeforeRace == part = "list" => ~raced
=============================================================================
