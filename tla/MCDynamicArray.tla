--------------------------- MODULE MCDynamicArray ---------------------------
(***************************************************************************)
(* DynamicArray in a buffer with room for a few elements, with every       *)
(* content, every call, and inputs that are longer than the buffer.        *)
(* max_size() is beyond the buffer, so that calls fail for want of room,   *)
(* and less than Modulus by the null value of the length, as in code.      *)
(***************************************************************************)
EXTENDS DynamicArray

Bits == {0, 1}

ShortInputs ==
    {<<>>, <<0>>, <<1>>, <<0, 1>>, <<1, 0>>, <<1, 1>>, <<1, 0, 1, 1, 0>>}
=============================================================================
