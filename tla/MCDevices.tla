----------------------------- MODULE MCDevices -----------------------------
(***************************************************************************)
(* The devices, for one TLC run.  They share no state, so one behaviour    *)
(* exercises one of them and leaves the others at their start.             *)
(***************************************************************************)
EXTENDS DmaTables, BlockIo, DirectBinding, RemapUnit, Xhci

VARIABLE subject  \* the device this behaviour is about

deviceRunVars == <<subject, dmaVars, blkVars, bindVars, remapVars, usbVars>>

\* A step of one device.
Tables(A)  == subject = "tables" /\ A /\ UNCHANGED <<subject, blkVars, bindVars, remapVars, usbVars>>
Bridged(A) == subject = "bridged" /\ A /\ UNCHANGED <<subject, dmaVars, bindVars, remapVars, usbVars>>
Bound(A)   == subject = "bound" /\ A /\ UNCHANGED <<subject, dmaVars, blkVars, remapVars, usbVars>>
Unit(A)    == subject = "unit" /\ A /\ UNCHANGED <<subject, dmaVars, blkVars, bindVars, usbVars>>
Usb(A)     == subject = "usb" /\ A /\ UNCHANGED <<subject, dmaVars, blkVars, bindVars, remapVars>>

DevicesInit ==
  /\ subject \in {"tables", "bridged", "bound", "unit", "usb"}
  /\ DmaInit /\ (subject # "tables" => fmt = "Vtd")
  /\ RemapInit /\ (subject # "unit" => backend = "Vtd")
  /\ BlkInit /\ BindInit /\ UsbInit

DevicesNext == Tables(DmaNext) \/ Bridged(BlkNext) \/ Bound(BindNext) \/ Unit(RemapNext)
               \/ Usb(UsbNext)

\* BindFairness and UsbFairness, each for the behaviours about its device.
DevicesSpec ==
  /\ DevicesInit /\ [][DevicesNext]_deviceRunVars
  /\ WF_deviceRunVars(Bound(BoundDeviceStep))
  /\ WF_deviceRunVars(Bound(BoundIrq))
  /\ WF_deviceRunVars(Bound(BoundProgramStep))
  /\ WF_deviceRunVars(Usb(Controller))
  /\ WF_deviceRunVars(Usb(ReaderParks))
  /\ WF_deviceRunVars(Usb(Heartbeat))

============================================================================
