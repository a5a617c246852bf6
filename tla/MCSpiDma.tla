------------------------------ MODULE MCSpiDma ------------------------------
(* Small instances of SpiDma. *)
EXTENDS SpiDma

Request(t, r) == [tx |-> t, rx |-> r]

\* Nothing at all, full duplex, a command and its answer, two buffers against
\* one, one direction only.
SmallRequests ==
  { Request(<<>>, <<>>), Request(<<2>>, <<2>>), Request(<<1>>, <<3>>),
    Request(<<1, 2>>, <<3>>), Request(<<>>, <<2>>), Request(<<2>>, <<>>) }

FullDuplex == { Request(<<2>>, <<2>>), Request(<<3>>, <<3>>) }
=============================================================================
