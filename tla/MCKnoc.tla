------------------------------- MODULE MCKnoc -------------------------------
(* Small instances of Knoc: the pods, their containers and their images,    *)
(* the faults and the user requests that each configuration chooses from.   *)
EXTENDS Knoc, TLC

CONSTANTS
  podA, podB,                                  \* pods
  keyA,                                        \* a key
  initA, initB, mainA, mainB,                  \* containers
  instInitA, instInitB, instMainA, instMainB   \* their instance names

OnePod == {podA}
TwoPods == {podA, podB}
OneKey == {keyA}
OneName == podA :> keyA
SameName == (podA :> keyA) @@ (podB :> keyA)

(* A pod with an init container and a main one. *)
InitMain == {initA, mainA}
InitMainInst == {instInitA, instMainA}
InitMainInstOf == (initA :> instInitA) @@ (mainA :> instMainA)
OneInit == podA :> <<initA>>
OneMain == podA :> <<mainA>>

(* A pod with an init container and two main ones, which have one image, as *)
(* the pods of test/e2e/basic.go have.                                     *)
InitMains == {initA, mainA, mainB}
InitMainsInst == {instInitA, instMainA}
InitMainsInstOf == (initA :> instInitA) @@ (mainA :> instMainA) @@ (mainB :> instMainA)
TwoMains == podA :> <<mainA, mainB>>

(* A pod with two init containers and a main one. *)
Inits == {initA, initB, mainA}
InitsInst == {instInitA, instInitB, instMainA}
InitsInstOf == (initA :> instInitA) @@ (initB :> instInitB) @@ (mainA :> instMainA)
TwoInits == podA :> <<initA, initB>>

(* Two pods with a main container each. *)
Pair == {mainA, mainB}
PairInst == {instMainA, instMainB}
PairInstOf == (mainA :> instMainA) @@ (mainB :> instMainB)
NoInits == (podA :> <<>>) @@ (podB :> <<>>)
PairMain == (podA :> <<mainA>>) @@ (podB :> <<mainB>>)

ExitCodes == {0, 1}

NoFaults == {}
RemoteFaults == {"ssh", "reply", "door", "job"}
SshFaults == {"ssh"}
RestartFaults == {"ssh", "crash"}

LossFaults == {"ssh", "door", "job"}

NoRequests == {}
Edits == {"edit"}
Deletes == {"delete", "force"}
ForceDeletes == {"force"}

=============================================================================
