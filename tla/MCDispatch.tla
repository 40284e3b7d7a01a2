---------------------------- MODULE MCDispatch ----------------------------
(***************************************************************************)
(* Dispatch on a sample of machines: each feature present alone, each      *)
(* reason for the probe to refuse it, builds with kernels switched off.    *)
(***************************************************************************)
EXTENDS Dispatch

X86(leaves, osxsave, xcr0, leaf7) ==
  [arch |-> "x86", switches |-> {}, leaves |-> leaves,
   osxsave |-> osxsave, xcr0 |-> xcr0, leaf7 |-> leaf7]

Arm64 == [X86(0, FALSE, {}, {}) EXCEPT !.arch = "arm64"]
Best  == X86(7, TRUE, Xcr0Bits, Leaf7Bits)

MCMachines ==
  {X86(4, TRUE, Xcr0Bits, Leaf7Bits), X86(7, FALSE, Xcr0Bits, Leaf7Bits)}
    \cup {X86(7, TRUE, xcr0, Leaf7Bits) : xcr0 \in {{}, YmmState} \cup {Xcr0Bits \ {b} : b \in Xcr0Bits}}
    \cup {X86(7, TRUE, Xcr0Bits, Leaf7Bits \ {b}) : b \in Leaf7Bits}
    \cup {[Best EXCEPT !.switches = s] : s \in {{}, {"no_avx512"}, {"no_avx512", "no_avx2"}, {"force_scalar"}}}
    \cup {Arm64, [Arm64 EXCEPT !.switches = {"no_neon"}], [Arm64 EXCEPT !.arch = "other"]}
=============================================================================
