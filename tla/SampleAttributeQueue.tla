------------------------ MODULE SampleAttributeQueue ------------------------
(***************************************************************************)
(* SampleAttributeQueue<T> (h264_winrt/Utils/SampleAttributeQueue.h): a    *)
(* FIFO of (id, attribute) pairs, meant to be pushed with increasing ids,  *)
(* from which pop(id) fetches the attribute of a frame.  The queue is a    *)
(* sequence of records [id, val]; uint64_t ids never wrap for the small    *)
(* ids used here.                                                          *)
(***************************************************************************)
EXTENDS Integers, Sequences

\* push(id, t): _attributes.push(std::make_pair(id, t)).
Push(q, id, t) == Append(q, [id |-> id, val |-> t])

(***************************************************************************)
(* pop(id, outT): entries with a smaller id are dropped from the front; an *)
(* entry with this id is returned and popped; an entry with a greater id  *)
(* is returned and left in place; an empty queue returns false and leaves *)
(* outT as it was.  The result is the returned flag, outT and the queue.   *)
(***************************************************************************)
RECURSIVE PopKeepsEqual(_, _, _)
\* Seeded fault: the entry with the requested id is returned but not popped.
PopKeepsEqual(q, id, outT) ==
  IF q = <<>> THEN [found |-> FALSE, out |-> outT, q |-> q]
  ELSE CASE Head(q).id >= id -> [found |-> TRUE, out |-> Head(q).val, q |-> q]
         [] OTHER            -> PopKeepsEqual(Tail(q), id, outT)

RECURSIVE Pop(_, _, _)
Pop(q, id, outT) ==
  IF q = <<>> THEN [found |-> FALSE, out |-> outT, q |-> q]
  ELSE CASE Head(q).id > id -> [found |-> TRUE, out |-> Head(q).val, q |-> q]
         [] Head(q).id = id -> [found |-> TRUE, out |-> Head(q).val, q |-> Tail(q)]
         [] OTHER           -> Pop(Tail(q), id, outT)

\* clear(): pop until empty.
Clear(q) == <<>>
============================================================================
