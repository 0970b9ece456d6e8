---------------------------- MODULE DataHandlers ----------------------------
(***************************************************************************)
(* Which data a DataHandler provides, at which addresses, and which of its *)
(* elements that data is made of.                                          *)
(*                                                                         *)
(* A handler has the type of its elements, native, and dims: <<n>> for an  *)
(* ArrayWrapper, <<h, w>> for an Array2DWrapper, whose elements are        *)
(* numbered row by row.  The type of an operand has dims <<>> if it is a   *)
(* native type, else those of a C array.                                   *)
(***************************************************************************)
EXTENDS Integers, Sequences

(* The types of operands, and what data handlers are made from *)
DataType == [native : STRING, dims : Seq(Nat \ {0})]

HandlerType == {h \in DataType : Len(h.dims) \in {1, 2}}

Height(dims) == IF Len(dims) = 2 THEN dims[1] ELSE 1

Width(dims) == IF dims = <<>> THEN 1 ELSE dims[Len(dims)]

(* getLargestAddressSpace *)
NbElements(handler) == Height(handler.dims) * Width(handler.dims)

(* getAddressSpace: "Data spanning over several lines can not be provided". *)
AddressSpace(handler, type) ==
    IF \/ handler.native # type.native
       \/ Len(type.dims) > Len(handler.dims)
       \/ Height(type.dims) > Height(handler.dims)
       \/ Width(type.dims) > Width(handler.dims)
    THEN 0
    ELSE (Height(handler.dims) - Height(type.dims) + 1) * (Width(handler.dims) - Width(type.dims) + 1)

CanHandle(handler, type) == AddressSpace(handler, type) > 0

(* scaleLocation *)
ScaleLocation(handler, location, type) == location % AddressSpace(handler, type)

(* The elements of the block of this type at an address, in rows of the given width *)
Block(width, type, address) ==
    LET columns == width - Width(type.dims) + 1
        first   == (address \div columns) * width + (address % columns)
        w       == Width(type.dims)
    IN  [i \in 1 .. Height(type.dims) * w |-> first + ((i - 1) \div w) * width + ((i - 1) % w)]

(* getAddressesAccessed, and the elements that getDataAt copies *)
AddressesAccessed(handler, type, address) ==
    IF type.dims = <<>> THEN <<address>> ELSE Block(Width(handler.dims), type, address)

(* DataHandlerPrinter::printDataAt: the elements that the C code names.  getDimensionsSize
   returns <<h, w>>; "width = dataSizes.at(0)" for a one-dimensional operand. *)
PrintDataAt(handler, type, address) ==
    IF type.dims = <<>> THEN <<address>>
    ELSE IF Len(handler.dims) = 1 THEN [i \in 1 .. type.dims[1] |-> address + i - 1]
    ELSE Block(handler.dims[Len(type.dims)], type, address)
=============================================================================
