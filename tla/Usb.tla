-------------------------------- MODULE Usb --------------------------------
(***************************************************************************)
(* One board with either driver, UsbXhci or UsbEhci: the disk and its      *)
(* protocol are the same.                                                  *)
(***************************************************************************)
EXTENDS UsbXhci, UsbEhci

usbVars == <<shared, xhciVars, ehciOwn>>

UsbInit == /\ DiskInit /\ XhciInit /\ EhciInit
           /\ pc = IF host = "xhci" THEN "root_port" ELSE "controller"
UsbNext == (XhciNext /\ UNCHANGED ehciOwn) \/ (EhciNext /\ UNCHANGED xhciOwn)
UsbSpec == UsbInit /\ [][UsbNext]_usbVars /\ XhciFairness /\ EhciFairness

(* Data that either driver reports as read are those of this very read, though
   what ended its wait may have been left by an earlier one
   (xhci_usb.c:2686-2714, ehci_usb.c:625-668). *)
ReadIsWhole == GoodReadIsWhole /\ EhciReadIsWhole

(* A request reaches the one device it is meant for: with xHCI by the slot of
   the hub, with EHCI by an address that no other device has
   (xhci_usb.c:2146, ehci_usb.c:461). *)
RequestsArrive == HubIsAsked /\ OneReceiver

(* Either driver comes back from each of its calls or resets the board, but for
   what XhciReturns and EhciReturns name (xhci_usb.c:593, ehci_usb.c:660). *)
UsbReturns == XhciReturns /\ EhciReturns
=============================================================================
