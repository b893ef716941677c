------------------------- MODULE MC_PureAlgorithms -------------------------
(* The pure operators of the project checked over bounded inputs, each     *)
(* against a reference definition.  mode "select": every list of at most   *)
(* three stream properties over two subtypes, two widths, two heights and  *)
(* four frame rates, against two requested capabilities (CaptureFormat).   *)
(* mode "queue": every sequence of push (increasing ids), pop and clear    *)
(* calls on one SampleAttributeQueue, with ids up to 4 and pops of 0..5.   *)
EXTENDS CaptureFormat, SampleAttributeQueue, FiniteSets

VARIABLES mode, props, cap, q, lastId
vars == <<mode, props, cap, q, lastId>>

Props == [subtype : {"Yv12", "Nv12"}, width : {1, 4}, height : {1, 2},
          num : {1, 3}, den : {1, 2}]
Caps == [width : {2}, height : {1}, maxFPS : {1, 2}]
Ids == 1 .. 4
PopIds == 0 .. 5
Attrs == {"a", "b"}
NoAttr == "none"

Init ==
  \/ /\ mode = "select"
     /\ props \in UNION {[1..n -> Props] : n \in 0..3}
     /\ cap \in Caps
     /\ q = <<>> /\ lastId = 0
  \/ /\ mode = "queue"
     /\ props = <<>> /\ cap = [width |-> 2, height |-> 1, maxFPS |-> 1]
     /\ q = <<>> /\ lastId = 0

\* A caller's call on the queue: push with a greater id than any before
\* (the class comment's contract), pop of any id, or clear.
QueueCall ==
  \/ \E id \in Ids, t \in Attrs :
       /\ id > lastId
       /\ q' = Push(q, id, t) /\ lastId' = id
  \/ \E id \in PopIds : q' = Pop(q, id, NoAttr).q /\ UNCHANGED lastId
  \/ q' = Clear(q) /\ UNCHANGED lastId

Next ==
  \/ mode = "select" /\ UNCHANGED vars
  \/ mode = "queue" /\ QueueCall /\ UNCHANGED <<mode, props, cap>>

Spec == Init /\ [][Next]_vars
\* Reference: the differences of property i as a key compared
\* lexicographically, width first, then height, then frame rate.
Key(i) == <<Dist(props[i].width, cap.width), Dist(props[i].height, cap.height),
            Dist(PropFps(props[i]), cap.maxFPS)>>
LexLess(a, b) ==
  \/ a[1] < b[1]
  \/ a[1] = b[1] /\ a[2] < b[2]
  \/ a[1] = b[1] /\ a[2] = b[2] /\ a[3] < b[3]
Matching == {i \in DOMAIN props : props[i].subtype = "Yv12"}
Closest ==
  IF Matching = {} THEN 0
  ELSE CHOOSE i \in Matching :
         \A j \in Matching \ {i} :
           IF j < i THEN LexLess(Key(i), Key(j)) ELSE ~LexLess(Key(j), Key(i))

(* StartCapture's search loop picks the first stream property of the       *)
(* requested subtype whose (width, height, fps) distance is                *)
(* lexicographically least, and none when no property has the subtype: the *)
(* nested if/else-if updates of the three running minima never lose the   *)
(* best candidate.                                                         *)
SelectionIsClosest ==
  mode = "select" => SelectStreamProperty(props, "Yv12", cap) = Closest

\* Reference for pop on a queue whose ids increase: the first entry whose
\* id is at least id, popped when its id is id; every smaller entry goes.
PopRef(qq, id, outT) ==
  LET later == SelectSeq(qq, LAMBDA e : e.id >= id)
  IN  IF later = <<>> THEN [found |-> FALSE, out |-> outT, q |-> <<>>]
      ELSE [found |-> TRUE, out |-> Head(later).val,
            q |-> IF Head(later).id = id THEN Tail(later) ELSE later]

(* On any queue the callers can build by pushing increasing ids, popping  *)
(* and clearing, SampleAttributeQueue::pop(id) returns the attribute of    *)
(* the first frame not older than id, pops it only when it is frame id,    *)
(* and discards every older frame: the loop's three branches and its      *)
(* empty-queue exit agree with that reading for every id asked for.        *)
PopMatchesReference ==
  mode = "queue" => \A id \in PopIds : Pop(q, id, NoAttr) = PopRef(q, id, NoAttr)
============================================================================
