---------------------------- MODULE MCMartsColumns ----------------------------
(* Two of the four picks of GetStatusLogistik.  The table has a column in   *)
(* capitals before one it can use; a table of that name in another schema   *)
(* has a column this one lacks.                                             *)
EXTENDS MartsColumns

TwoPicks ==
  << <<"status_wms", "wms_status">>,
     <<"status_3pl", "status_toko", "toko_status">> >>

Column(name) == [name |-> name, capitals |-> FALSE]

OwnColumns ==
  {Column("wms_status"), Column("status_toko"), [name |-> "status_wms", capitals |-> TRUE]}

OtherColumns == {Column("status_3pl"), Column("status_toko")}

=============================================================================
