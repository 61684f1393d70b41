------------------------ MODULE MCDeviceCommandQueue ------------------------
(* Four calls of the four kinds that compete in practice: a battery write, *)
(* two live readings and a discovery, on a queue of two.                    *)
EXTENDS DeviceCommandQueue

CONSTANTS write, live1, live2, discover

MCReqs == {write, live1, live2, discover}
MCPriority == [r \in MCReqs |-> IF r = write THEN 0 ELSE IF r = discover THEN 30 ELSE 5]

=============================================================================
