----------------------------- MODULE MCStartup ------------------------------
(* Instances of the process start for TLC: up to two arguments and two     *)
(* environment strings, argument counts that do not match, and auxiliary   *)
(* vectors that lack, repeat or reorder their entries.                     *)
EXTENDS Startup

Phdrs == << <<AT_PHDR, 64>>, <<AT_PHENT, 56>>, <<AT_PHNUM, 9>> >>

Vectors ==
  {<<>>, Phdrs, SubSeq(Phdrs, 1, 2), Phdrs \o << <<AT_HWCAP2, 2>> >>,
   Phdrs \o << <<AT_HWCAP2, 1>> >>,
   << <<AT_HWCAP2, 0>> >> \o Phdrs,
   << <<AT_HWCAP2, 3>>, <<AT_HWCAP2, 0>>, Phdrs[3], Phdrs[1], Phdrs[2], <<AT_PHDR, 72>> >>}

Processes ==
  {p \in [argc : {0, 1, 2, IntMax + 1}, args : 0 .. 2, envs : 0 .. 2, auxv : Vectors,
          headers_ok : BOOLEAN, arch : {"x86_64", "aarch64"}] :
     p.argc <= p.args \/ p.argc > IntMax}
=============================================================================
