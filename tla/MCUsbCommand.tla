---- MODULE MCUsbCommand ----
(* Two threads on one handle; on the bus a device of another product, one  *)
(* of ours without a container id, and two with one.                       *)
EXTENDS UsbCommand

Cap(type, id) == [type |-> type, id |-> id]
Device(ours, caps) == [ours |-> ours, caps |-> caps]
SmallBuses ==
  {<<>>,
   <<Device(FALSE, <<Cap(CONTAINER_ID, "b")>>),
     Device(TRUE, <<Cap("other", "b")>>),
     Device(TRUE, <<Cap("other", "b"), Cap(CONTAINER_ID, "a")>>),
     Device(TRUE, <<Cap(CONTAINER_ID, "b")>>)>>}
====
