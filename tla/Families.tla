-------------------------------- MODULE Families --------------------------------
(***************************************************************************)
(* How each adapter family goes about its transform                        *)
(* (src/python/adapters/*_python.py): what the order of its calls and the  *)
(* kind of its answer come down to for Adapter.                            *)
(*                                                                         *)
(* artifact: answers with an object, not text; eager: imports its          *)
(* framework before it asks for weights; input: fetches an input object    *)
(* once it has them; arena: has an engine to release, whatever happens.    *)
(***************************************************************************)

\* Text out of an engine process that owns a device arena.
Vllm == [artifact |-> FALSE, eager |-> TRUE, input |-> FALSE, arena |-> TRUE]

\* Text out of the adapter process itself.
Transformers == [artifact |-> FALSE, eager |-> TRUE, input |-> FALSE, arena |-> FALSE]

\* Weights first: a missing model is told before the framework is imported.
Diffusers == [artifact |-> TRUE, eager |-> FALSE, input |-> FALSE, arena |-> FALSE]
Bark == [artifact |-> TRUE, eager |-> FALSE, input |-> FALSE, arena |-> FALSE]

\* Audio in, an archive of stems or a MIDI file out.
Demucs == [artifact |-> TRUE, eager |-> TRUE, input |-> TRUE, arena |-> FALSE]
OpenUnmix == [artifact |-> TRUE, eager |-> TRUE, input |-> TRUE, arena |-> FALSE]
Mt3 == [artifact |-> TRUE, eager |-> TRUE, input |-> TRUE, arena |-> FALSE]
Piano == [artifact |-> TRUE, eager |-> TRUE, input |-> TRUE, arena |-> FALSE]
=============================================================================
