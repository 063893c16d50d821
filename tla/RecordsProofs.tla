---------------------------- MODULE RecordsProofs ----------------------------
(***************************************************************************)
(* The rows of the database: a proof about Records for any emails, views,  *)
(* keys and number of transactions, that no transaction the code runs is   *)
(* refused for naming a row that is not there, that what a flow writes     *)
(* together is found together, and that the pages form a forest.           *)
(*                                                                         *)
(* The invariant RecordsInd says of every row that what it refers to and   *)
(* what it is found together with is there (Sound), and is kept by each    *)
(* statement (Going); only what an organization, a workspace or a request  *)
(* for a pin is found together with is there no sooner than at the end of  *)
(* the transaction (Complete).                                             *)
(***************************************************************************)
EXTENDS Records, TLAPS, FiniteSetTheorems, WellFoundedInduction

There(R, t, id) == \E r \in R : Is(r, t, id)

\* No role, or one of the scope.
Fills(R, t, id, scope, x) == id = Null \/ \E q \in R : Is(q, t, id) /\ Col(q, scope) = x

Reaches(R, r, ref) ==
    (~ref.required /\ Col(r, ref.column) = Null) \/ \E target \in R : Names(r, ref, target)

\* A row dangles when one of its references reaches nothing.
LEMMA NotDangling ==
  ASSUME NEW R, NEW r
  PROVE  ~Dangling(R, r) <=> \A ref \in Schema[r.table].refers : Reaches(R, r, ref)
  BY DEF Dangling, Reaches

\* A reference that is required.
LEMMA RefReaches ==
  ASSUME NEW R, NEW r, NEW c, NEW t
  PROVE  Reaches(R, r, Ref(c, t)) <=> There(R, t, Col(r, c))
  BY DEF Reaches, Names, Ref, There

\* A reference whose row goes with what it names.
LEMMA CascadingReaches ==
  ASSUME NEW R, NEW r, NEW c, NEW t
  PROVE  Reaches(R, r, Cascading(c, t)) <=> There(R, t, Col(r, c))
  BY DEF Reaches, Names, Ref, There, Cascading

\* A reference that may be NULL.
LEMMA MaybeReaches ==
  ASSUME NEW R, NEW r, NEW c, NEW t
  PROVE  Reaches(R, r, Maybe(c, t)) <=> Col(r, c) = Null \/ There(R, t, Col(r, c))
  BY DEF Reaches, Names, Ref, There, Maybe

\* A reference to a role of the same scope.
LEMMA RoleReaches ==
  ASSUME NEW R, NEW r, NEW c, NEW t, NEW s, s # ""
  PROVE  Reaches(R, r, Role(c, t, s)) <=> Fills(R, t, Col(r, c), s, Col(r, s))
  BY DEF Reaches, Names, Ref, Maybe, Role, Fills

\* The tables by name.
LEMMA SchemaIs ==
  /\ Schema["users"] = UsersTable
  /\ Schema["account_verifications"] = AccountVerifications
  /\ Schema["organizations"] = Organizations
  /\ Schema["workspaces"] = Workspaces
  /\ Schema["organization_roles"] = OrganizationRoles
  /\ Schema["workspace_roles"] = WorkspaceRoles
  /\ Schema["page_roles"] = PageRoles
  /\ Schema["organization_members"] = OrganizationMembers
  /\ Schema["page_collaborators"] = PageCollaborators
  /\ Schema["workspace_members"] = WorkspaceMembers
  /\ Schema["organization_pending_requests"] = OrganizationPendingRequests
  /\ Schema["workspace_pending_requests"] = WorkspacePendingRequests
  /\ Schema["page_pending_requests"] = PagePendingRequests
  /\ Schema["access_invites"] = AccessInvitesTable
  /\ Schema["access_invite_acceptances"] = AccessInviteAcceptances
  /\ Schema["pages"] = PagesTable
  /\ Schema["page_edges"] = PageEdges
  /\ Schema["page_columns"] = PageColumns
  /\ Schema["page_columns_values"] = PageColumnsValues
  /\ Schema["page_relation_links"] = PageRelationLinks
  /\ Schema["page_view_row_order"] = PageViewRowOrder
  /\ Schema["page_blocks"] = PageBlocks
  /\ Schema["page_favorites"] = PageFavorites
  /\ Schema["page_form_publications"] = PageFormPublications
  /\ Schema["page_form_submissions"] = PageFormSubmissions
  /\ Schema["pinned_schedule_pages"] = PinnedSchedulePages
  /\ Schema["schedule_pin_requests"] = SchedulePinRequests
  /\ Schema["notifications"] = Notifications
  /\ Schema["notification_deliveries"] = NotificationDeliveries
  /\ DOMAIN Schema =
        {"users", "account_verifications", "organizations",
         "workspaces", "organization_roles", "workspace_roles",
         "page_roles", "organization_members", "page_collaborators",
         "workspace_members", "organization_pending_requests", "workspace_pending_requests",
         "page_pending_requests", "access_invites", "access_invite_acceptances",
         "pages", "page_edges", "page_columns",
         "page_columns_values", "page_relation_links", "page_view_row_order",
         "page_blocks", "page_favorites", "page_form_publications",
         "page_form_submissions", "pinned_schedule_pages", "schedule_pin_requests",
         "notifications", "notification_deliveries"}
  BY DEF Schema

\* What a row of users refers to.
LEMMA UsersRefer ==
  Schema["users"].refers = {}
  BY SchemaIs DEF UsersTable, Table, Soft

\* What a row of account_verifications refers to.
LEMMA VerificationsRefer ==
  Schema["account_verifications"].refers =
    {Maybe("invite_id", "access_invites"),
     Ref("user_id", "users")}
  BY SchemaIs DEF AccountVerifications, Table, Soft

\* What a row of organizations refers to.
LEMMA OrganizationsRefer ==
  Schema["organizations"].refers =
    {Maybe("owner_id", "users")}
  BY SchemaIs DEF Organizations, Table, Soft

\* What a row of workspaces refers to.
LEMMA WorkspacesRefer ==
  Schema["workspaces"].refers =
    {Maybe("created_by_user_id", "users"),
     Maybe("organization_id", "organizations")}
  BY SchemaIs DEF Workspaces, Table, Soft

\* What a row of organization_roles refers to.
LEMMA OrganizationRolesRefer ==
  Schema["organization_roles"].refers =
    {Ref("organization_id", "organizations")}
  BY SchemaIs DEF OrganizationRoles, RolesOf, Table, Soft

\* What a row of workspace_roles refers to.
LEMMA WorkspaceRolesRefer ==
  Schema["workspace_roles"].refers =
    {Ref("workspace_id", "workspaces")}
  BY SchemaIs DEF WorkspaceRoles, RolesOf, Table, Soft

\* What a row of page_roles refers to.
LEMMA PageRolesRefer ==
  Schema["page_roles"].refers =
    {Ref("page_id", "pages")}
  BY SchemaIs DEF PageRoles, RolesOf, Table, Soft

\* What a row of organization_members refers to.
LEMMA OrganizationMembersRefer ==
  Schema["organization_members"].refers =
    {Ref("organization_id", "organizations"),
     Ref("user_id", "users"),
     Role("organization_member_role_id", "organization_roles", "organization_id")}
  BY SchemaIs DEF OrganizationMembers, MembersOf, Table, Soft

\* What a row of page_collaborators refers to.
LEMMA CollaboratorsRefer ==
  Schema["page_collaborators"].refers =
    {Ref("page_id", "pages"),
     Ref("user_id", "users"),
     Role("page_member_role_id", "page_roles", "page_id")}
  BY SchemaIs DEF PageCollaborators, MembersOf, Table, Soft

\* What a row of workspace_members refers to.
LEMMA WorkspaceMembersRefer ==
  Schema["workspace_members"].refers =
    {Ref("workspace_id", "workspaces"),
     Ref("user_id", "users"),
     Role("workspace_member_role_id", "workspace_roles", "workspace_id"),
     Ref("page_root_id", "pages")}
  BY SchemaIs DEF WorkspaceMembers, MembersOf, Table, Soft

\* What a row of organization_pending_requests refers to.
LEMMA OrganizationRequestsRefer ==
  Schema["organization_pending_requests"].refers =
    {Ref("organization_id", "organizations"),
     Ref("requester_id", "users"),
     Maybe("decided_by", "users"),
     Maybe("accepted_by", "users"),
     Role("role_id", "organization_roles", "organization_id")}
  BY SchemaIs DEF OrganizationPendingRequests, RequestsOf, Table, Soft

\* What a row of workspace_pending_requests refers to.
LEMMA WorkspaceRequestsRefer ==
  Schema["workspace_pending_requests"].refers =
    {Ref("workspace_id", "workspaces"),
     Ref("requester_id", "users"),
     Maybe("decided_by", "users"),
     Maybe("accepted_by", "users"),
     Role("role_id", "workspace_roles", "workspace_id")}
  BY SchemaIs DEF WorkspacePendingRequests, RequestsOf, Table, Soft

\* What a row of page_pending_requests refers to.
LEMMA PageRequestsRefer ==
  Schema["page_pending_requests"].refers =
    {Ref("page_id", "pages"),
     Ref("requester_id", "users"),
     Maybe("decided_by", "users"),
     Maybe("accepted_by", "users"),
     Role("role_id", "page_roles", "page_id")}
  BY SchemaIs DEF PagePendingRequests, RequestsOf, Table, Soft

\* What a row of access_invites refers to.
LEMMA AccessInvitesRefer ==
  Schema["access_invites"].refers =
    {Ref("author_id", "users")}
  BY SchemaIs DEF AccessInvitesTable, Table, Soft

\* What a row of access_invite_acceptances refers to.
LEMMA AcceptancesRefer ==
  Schema["access_invite_acceptances"].refers =
    {Ref("user_id", "users"),
     Ref("invite_id", "access_invites")}
  BY SchemaIs DEF AccessInviteAcceptances, Table, Soft

\* What a row of pages refers to.
LEMMA PagesRefer ==
  Schema["pages"].refers =
    {Ref("owner_id", "users")}
  BY SchemaIs DEF PagesTable, Table, Soft

\* What a row of page_edges refers to.
LEMMA EdgesRefer ==
  Schema["page_edges"].refers =
    {Ref("parent_id", "pages"),
     Ref("child_id", "pages")}
  BY SchemaIs DEF PageEdges, Table, Soft

\* What a row of page_columns refers to.
LEMMA ColumnsRefer ==
  Schema["page_columns"].refers =
    {Maybe("parent_id", "pages")}
  BY SchemaIs DEF PageColumns, Table, Soft

\* What a row of page_columns_values refers to.
LEMMA CellsRefer ==
  Schema["page_columns_values"].refers =
    {Maybe("page_id", "pages"),
     Maybe("page_column_id", "page_columns")}
  BY SchemaIs DEF PageColumnsValues, Table, Soft

\* What a row of page_relation_links refers to.
LEMMA LinksRefer ==
  Schema["page_relation_links"].refers =
    {Cascading("source_cell_id", "page_columns_values"),
     Cascading("target_page_id", "pages")}
  BY SchemaIs DEF PageRelationLinks, Table, Soft

\* What a row of page_view_row_order refers to.
LEMMA RowOrderRefer ==
  Schema["page_view_row_order"].refers =
    {Cascading("edge_id", "page_edges")}
  BY SchemaIs DEF PageViewRowOrder, Table, Soft

\* What a row of page_blocks refers to.
LEMMA BlocksRefer ==
  Schema["page_blocks"].refers =
    {Ref("page_id", "pages")}
  BY SchemaIs DEF PageBlocks, Table, Soft

\* What a row of page_favorites refers to.
LEMMA FavoritesRefer ==
  Schema["page_favorites"].refers =
    {Cascading("user_id", "users"),
     Cascading("page_id", "pages")}
  BY SchemaIs DEF PageFavorites, Table, Soft

\* What a row of page_form_publications refers to.
LEMMA PublicationsRefer ==
  Schema["page_form_publications"].refers =
    {Ref("page_id", "pages"),
     Ref("created_by_user_id", "users")}
  BY SchemaIs DEF PageFormPublications, Table, Soft

\* What a row of page_form_submissions refers to.
LEMMA SubmissionsRefer ==
  Schema["page_form_submissions"].refers =
    {Ref("publication_id", "page_form_publications"),
     Ref("response_page_id", "pages")}
  BY SchemaIs DEF PageFormSubmissions, Table, Soft

\* What a row of pinned_schedule_pages refers to.
LEMMA PinsRefer ==
  Schema["pinned_schedule_pages"].refers =
    {Ref("workspace_id", "workspaces"),
     Ref("page_id", "pages"),
     Ref("pinned_by_user_id", "users"),
     Ref("date_column_id", "page_columns"),
     Maybe("color_column_id", "page_columns")}
  BY SchemaIs DEF PinnedSchedulePages, Table, Soft

\* What a row of schedule_pin_requests refers to.
LEMMA PinRequestsRefer ==
  Schema["schedule_pin_requests"].refers =
    {Ref("workspace_id", "workspaces"),
     Ref("page_id", "pages"),
     Ref("requested_by_user_id", "users"),
     Ref("recipient_user_id", "users"),
     Ref("date_column_id", "page_columns"),
     Maybe("color_column_id", "page_columns")}
  BY SchemaIs DEF SchedulePinRequests, Table, Soft

\* What a row of notifications refers to.
LEMMA NotificationsRefer ==
  Schema["notifications"].refers =
    {Ref("workspace_id", "workspaces"),
     Maybe("recipient_user_id", "users"),
     Maybe("actor_user_id", "users")}
  BY SchemaIs DEF Notifications, Table, Soft

\* What a row of notification_deliveries refers to.
LEMMA DeliveriesRefer ==
  Schema["notification_deliveries"].refers =
    {Ref("notification_id", "notifications")}
  BY SchemaIs DEF NotificationDeliveries, Table, Soft

\* A row of account_verifications dangles unless these rows are there.
LEMMA VerificationsPlaced ==
  ASSUME NEW R, NEW r, r.table = "account_verifications"
  PROVE  ~Dangling(R, r) <=>
            /\ Col(r, "invite_id") = Null \/ There(R, "access_invites", Col(r, "invite_id"))
            /\ There(R, "users", Col(r, "user_id"))
  BY VerificationsRefer, NotDangling, MaybeReaches, RefReaches

\* A row of organizations dangles unless these rows are there.
LEMMA OrganizationsPlaced ==
  ASSUME NEW R, NEW r, r.table = "organizations"
  PROVE  ~Dangling(R, r) <=>
            /\ Col(r, "owner_id") = Null \/ There(R, "users", Col(r, "owner_id"))
  BY OrganizationsRefer, NotDangling, MaybeReaches

\* A row of workspaces dangles unless these rows are there.
LEMMA WorkspacesPlaced ==
  ASSUME NEW R, NEW r, r.table = "workspaces"
  PROVE  ~Dangling(R, r) <=>
            /\ Col(r, "created_by_user_id") = Null \/ There(R, "users", Col(r, "created_by_user_id"))
            /\ Col(r, "organization_id") = Null \/ There(R, "organizations", Col(r, "organization_id"))
  BY WorkspacesRefer, NotDangling, MaybeReaches

\* A row of organization_roles dangles unless these rows are there.
LEMMA OrganizationRolesPlaced ==
  ASSUME NEW R, NEW r, r.table = "organization_roles"
  PROVE  ~Dangling(R, r) <=>
            /\ There(R, "organizations", Col(r, "organization_id"))
  BY OrganizationRolesRefer, NotDangling, RefReaches

\* A row of workspace_roles dangles unless these rows are there.
LEMMA WorkspaceRolesPlaced ==
  ASSUME NEW R, NEW r, r.table = "workspace_roles"
  PROVE  ~Dangling(R, r) <=>
            /\ There(R, "workspaces", Col(r, "workspace_id"))
  BY WorkspaceRolesRefer, NotDangling, RefReaches

\* A row of page_roles dangles unless these rows are there.
LEMMA PageRolesPlaced ==
  ASSUME NEW R, NEW r, r.table = "page_roles"
  PROVE  ~Dangling(R, r) <=>
            /\ There(R, "pages", Col(r, "page_id"))
  BY PageRolesRefer, NotDangling, RefReaches

\* A row of organization_members dangles unless these rows are there.
LEMMA OrganizationMembersPlaced ==
  ASSUME NEW R, NEW r, r.table = "organization_members"
  PROVE  ~Dangling(R, r) <=>
            /\ There(R, "organizations", Col(r, "organization_id"))
            /\ There(R, "users", Col(r, "user_id"))
            /\ Fills(R, "organization_roles", Col(r, "organization_member_role_id"), "organization_id", Col(r, "organization_id"))
  <1>1. Reaches(R, r, Role("organization_member_role_id", "organization_roles", "organization_id"))
           <=> Fills(R, "organization_roles", Col(r, "organization_member_role_id"), "organization_id", Col(r, "organization_id"))
    BY RoleReaches
  <1> QED BY <1>1, OrganizationMembersRefer, NotDangling, RefReaches

\* A row of page_collaborators dangles unless these rows are there.
LEMMA CollaboratorsPlaced ==
  ASSUME NEW R, NEW r, r.table = "page_collaborators"
  PROVE  ~Dangling(R, r) <=>
            /\ There(R, "pages", Col(r, "page_id"))
            /\ There(R, "users", Col(r, "user_id"))
            /\ Fills(R, "page_roles", Col(r, "page_member_role_id"), "page_id", Col(r, "page_id"))
  <1>1. Reaches(R, r, Role("page_member_role_id", "page_roles", "page_id"))
           <=> Fills(R, "page_roles", Col(r, "page_member_role_id"), "page_id", Col(r, "page_id"))
    BY RoleReaches
  <1> QED BY <1>1, CollaboratorsRefer, NotDangling, RefReaches

\* A row of workspace_members dangles unless these rows are there.
LEMMA WorkspaceMembersPlaced ==
  ASSUME NEW R, NEW r, r.table = "workspace_members"
  PROVE  ~Dangling(R, r) <=>
            /\ There(R, "workspaces", Col(r, "workspace_id"))
            /\ There(R, "users", Col(r, "user_id"))
            /\ Fills(R, "workspace_roles", Col(r, "workspace_member_role_id"), "workspace_id", Col(r, "workspace_id"))
            /\ There(R, "pages", Col(r, "page_root_id"))
  <1>1. Reaches(R, r, Role("workspace_member_role_id", "workspace_roles", "workspace_id"))
           <=> Fills(R, "workspace_roles", Col(r, "workspace_member_role_id"), "workspace_id", Col(r, "workspace_id"))
    BY RoleReaches
  <1> QED BY <1>1, WorkspaceMembersRefer, NotDangling, RefReaches

\* A row of organization_pending_requests dangles unless these rows are there.
LEMMA OrganizationRequestsPlaced ==
  ASSUME NEW R, NEW r, r.table = "organization_pending_requests"
  PROVE  ~Dangling(R, r) <=>
            /\ There(R, "organizations", Col(r, "organization_id"))
            /\ There(R, "users", Col(r, "requester_id"))
            /\ Col(r, "decided_by") = Null \/ There(R, "users", Col(r, "decided_by"))
            /\ Col(r, "accepted_by") = Null \/ There(R, "users", Col(r, "accepted_by"))
            /\ Fills(R, "organization_roles", Col(r, "role_id"), "organization_id", Col(r, "organization_id"))
  <1>1. Reaches(R, r, Role("role_id", "organization_roles", "organization_id"))
           <=> Fills(R, "organization_roles", Col(r, "role_id"), "organization_id", Col(r, "organization_id"))
    BY RoleReaches
  <1> QED BY <1>1, OrganizationRequestsRefer, NotDangling, MaybeReaches, RefReaches

\* A row of workspace_pending_requests dangles unless these rows are there.
LEMMA WorkspaceRequestsPlaced ==
  ASSUME NEW R, NEW r, r.table = "workspace_pending_requests"
  PROVE  ~Dangling(R, r) <=>
            /\ There(R, "workspaces", Col(r, "workspace_id"))
            /\ There(R, "users", Col(r, "requester_id"))
            /\ Col(r, "decided_by") = Null \/ There(R, "users", Col(r, "decided_by"))
            /\ Col(r, "accepted_by") = Null \/ There(R, "users", Col(r, "accepted_by"))
            /\ Fills(R, "workspace_roles", Col(r, "role_id"), "workspace_id", Col(r, "workspace_id"))
  <1>1. Reaches(R, r, Role("role_id", "workspace_roles", "workspace_id"))
           <=> Fills(R, "workspace_roles", Col(r, "role_id"), "workspace_id", Col(r, "workspace_id"))
    BY RoleReaches
  <1> QED BY <1>1, WorkspaceRequestsRefer, NotDangling, MaybeReaches, RefReaches

\* A row of page_pending_requests dangles unless these rows are there.
LEMMA PageRequestsPlaced ==
  ASSUME NEW R, NEW r, r.table = "page_pending_requests"
  PROVE  ~Dangling(R, r) <=>
            /\ There(R, "pages", Col(r, "page_id"))
            /\ There(R, "users", Col(r, "requester_id"))
            /\ Col(r, "decided_by") = Null \/ There(R, "users", Col(r, "decided_by"))
            /\ Col(r, "accepted_by") = Null \/ There(R, "users", Col(r, "accepted_by"))
            /\ Fills(R, "page_roles", Col(r, "role_id"), "page_id", Col(r, "page_id"))
  <1>1. Reaches(R, r, Role("role_id", "page_roles", "page_id"))
           <=> Fills(R, "page_roles", Col(r, "role_id"), "page_id", Col(r, "page_id"))
    BY RoleReaches
  <1> QED BY <1>1, PageRequestsRefer, NotDangling, MaybeReaches, RefReaches

\* A row of access_invites dangles unless these rows are there.
LEMMA AccessInvitesPlaced ==
  ASSUME NEW R, NEW r, r.table = "access_invites"
  PROVE  ~Dangling(R, r) <=>
            /\ There(R, "users", Col(r, "author_id"))
  BY AccessInvitesRefer, NotDangling, RefReaches

\* A row of access_invite_acceptances dangles unless these rows are there.
LEMMA AcceptancesPlaced ==
  ASSUME NEW R, NEW r, r.table = "access_invite_acceptances"
  PROVE  ~Dangling(R, r) <=>
            /\ There(R, "users", Col(r, "user_id"))
            /\ There(R, "access_invites", Col(r, "invite_id"))
  BY AcceptancesRefer, NotDangling, RefReaches

\* A row of pages dangles unless these rows are there.
LEMMA PagesPlaced ==
  ASSUME NEW R, NEW r, r.table = "pages"
  PROVE  ~Dangling(R, r) <=>
            /\ There(R, "users", Col(r, "owner_id"))
  BY PagesRefer, NotDangling, RefReaches

\* A row of page_edges dangles unless these rows are there.
LEMMA EdgesPlaced ==
  ASSUME NEW R, NEW r, r.table = "page_edges"
  PROVE  ~Dangling(R, r) <=>
            /\ There(R, "pages", Col(r, "parent_id"))
            /\ There(R, "pages", Col(r, "child_id"))
  BY EdgesRefer, NotDangling, RefReaches

\* A row of page_columns dangles unless these rows are there.
LEMMA ColumnsPlaced ==
  ASSUME NEW R, NEW r, r.table = "page_columns"
  PROVE  ~Dangling(R, r) <=>
            /\ Col(r, "parent_id") = Null \/ There(R, "pages", Col(r, "parent_id"))
  BY ColumnsRefer, NotDangling, MaybeReaches

\* A row of page_columns_values dangles unless these rows are there.
LEMMA CellsPlaced ==
  ASSUME NEW R, NEW r, r.table = "page_columns_values"
  PROVE  ~Dangling(R, r) <=>
            /\ Col(r, "page_id") = Null \/ There(R, "pages", Col(r, "page_id"))
            /\ Col(r, "page_column_id") = Null \/ There(R, "page_columns", Col(r, "page_column_id"))
  BY CellsRefer, NotDangling, MaybeReaches

\* A row of page_relation_links dangles unless these rows are there.
LEMMA LinksPlaced ==
  ASSUME NEW R, NEW r, r.table = "page_relation_links"
  PROVE  ~Dangling(R, r) <=>
            /\ There(R, "page_columns_values", Col(r, "source_cell_id"))
            /\ There(R, "pages", Col(r, "target_page_id"))
  BY LinksRefer, NotDangling, CascadingReaches

\* A row of page_view_row_order dangles unless these rows are there.
LEMMA RowOrderPlaced ==
  ASSUME NEW R, NEW r, r.table = "page_view_row_order"
  PROVE  ~Dangling(R, r) <=>
            /\ There(R, "page_edges", Col(r, "edge_id"))
  BY RowOrderRefer, NotDangling, CascadingReaches

\* A row of page_blocks dangles unless these rows are there.
LEMMA BlocksPlaced ==
  ASSUME NEW R, NEW r, r.table = "page_blocks"
  PROVE  ~Dangling(R, r) <=>
            /\ There(R, "pages", Col(r, "page_id"))
  BY BlocksRefer, NotDangling, RefReaches

\* A row of page_favorites dangles unless these rows are there.
LEMMA FavoritesPlaced ==
  ASSUME NEW R, NEW r, r.table = "page_favorites"
  PROVE  ~Dangling(R, r) <=>
            /\ There(R, "users", Col(r, "user_id"))
            /\ There(R, "pages", Col(r, "page_id"))
  BY FavoritesRefer, NotDangling, CascadingReaches

\* A row of page_form_publications dangles unless these rows are there.
LEMMA PublicationsPlaced ==
  ASSUME NEW R, NEW r, r.table = "page_form_publications"
  PROVE  ~Dangling(R, r) <=>
            /\ There(R, "pages", Col(r, "page_id"))
            /\ There(R, "users", Col(r, "created_by_user_id"))
  BY PublicationsRefer, NotDangling, RefReaches

\* A row of page_form_submissions dangles unless these rows are there.
LEMMA SubmissionsPlaced ==
  ASSUME NEW R, NEW r, r.table = "page_form_submissions"
  PROVE  ~Dangling(R, r) <=>
            /\ There(R, "page_form_publications", Col(r, "publication_id"))
            /\ There(R, "pages", Col(r, "response_page_id"))
  BY SubmissionsRefer, NotDangling, RefReaches

\* A row of pinned_schedule_pages dangles unless these rows are there.
LEMMA PinsPlaced ==
  ASSUME NEW R, NEW r, r.table = "pinned_schedule_pages"
  PROVE  ~Dangling(R, r) <=>
            /\ There(R, "workspaces", Col(r, "workspace_id"))
            /\ There(R, "pages", Col(r, "page_id"))
            /\ There(R, "users", Col(r, "pinned_by_user_id"))
            /\ There(R, "page_columns", Col(r, "date_column_id"))
            /\ Col(r, "color_column_id") = Null \/ There(R, "page_columns", Col(r, "color_column_id"))
  BY PinsRefer, NotDangling, MaybeReaches, RefReaches

\* A row of schedule_pin_requests dangles unless these rows are there.
LEMMA PinRequestsPlaced ==
  ASSUME NEW R, NEW r, r.table = "schedule_pin_requests"
  PROVE  ~Dangling(R, r) <=>
            /\ There(R, "workspaces", Col(r, "workspace_id"))
            /\ There(R, "pages", Col(r, "page_id"))
            /\ There(R, "users", Col(r, "requested_by_user_id"))
            /\ There(R, "users", Col(r, "recipient_user_id"))
            /\ There(R, "page_columns", Col(r, "date_column_id"))
            /\ Col(r, "color_column_id") = Null \/ There(R, "page_columns", Col(r, "color_column_id"))
  BY PinRequestsRefer, NotDangling, MaybeReaches, RefReaches

\* A row of notifications dangles unless these rows are there.
LEMMA NotificationsPlaced ==
  ASSUME NEW R, NEW r, r.table = "notifications"
  PROVE  ~Dangling(R, r) <=>
            /\ There(R, "workspaces", Col(r, "workspace_id"))
            /\ Col(r, "recipient_user_id") = Null \/ There(R, "users", Col(r, "recipient_user_id"))
            /\ Col(r, "actor_user_id") = Null \/ There(R, "users", Col(r, "actor_user_id"))
  BY NotificationsRefer, NotDangling, MaybeReaches, RefReaches

\* A row of notification_deliveries dangles unless these rows are there.
LEMMA DeliveriesPlaced ==
  ASSUME NEW R, NEW r, r.table = "notification_deliveries"
  PROVE  ~Dangling(R, r) <=>
            /\ There(R, "notifications", Col(r, "notification_id"))
  BY DeliveriesRefer, NotDangling, RefReaches

-----------------------------------------------------------------------------
(* The inductive invariant of the rows.  Static tables never change; rows of *)
(* the Erasable ones may go, and only a link refers to one, its cell.        *)

RoleTables == {"organization_roles", "workspace_roles", "page_roles"}
Static     == RoleTables \cup {"page_edges", "notifications", "notification_deliveries"}
Erasable   == {"page_columns_values", "page_relation_links", "page_favorites", "pinned_schedule_pages"}
Flags      == {"live", "pending", "default", "verified"}

\* The columns that always have a value.
Filled ==
    [users |-> {}, account_verifications |-> {"user_id"}, organizations |-> {}, workspaces |-> {},
     organization_roles |-> {"organization_id", "system_key"},
     workspace_roles |-> {"workspace_id", "system_key"}, page_roles |-> {"page_id", "system_key"},
     organization_members |-> {}, page_collaborators |-> {},
     workspace_members |-> {"page_root_id", "user_id"},
     organization_pending_requests |-> {"organization_id", "requester_id"},
     workspace_pending_requests |-> {"workspace_id", "requester_id"},
     page_pending_requests |-> {"page_id", "requester_id"},
     access_invites |-> {"scope", "scope_id", "role_id"}, access_invite_acceptances |-> {},
     pages |-> {"owner_id"}, page_edges |-> {"parent_id", "child_id"}, page_columns |-> {"parent_id"},
     page_columns_values |-> {"page_id", "page_column_id"},
     page_relation_links |-> {"source_cell_id"}, page_view_row_order |-> {}, page_blocks |-> {},
     page_favorites |-> {},
     page_form_publications |-> {"page_id", "created_by_user_id", "submit_token_hash", "review_token_hash"},
     page_form_submissions |-> {"publication_id", "response_page_id"}, pinned_schedule_pages |-> {},
     schedule_pin_requests |-> {}, notifications |-> {"dedupe_key"},
     notification_deliveries |-> {"notification_id"}]

Typed(r) ==
    /\ r.table \in DOMAIN Schema /\ r.flags \subseteq Flags
    /\ Filled[r.table] \subseteq DOMAIN r.val
    /\ r.table \in RoleTables => "live" \in r.flags

\* Ids, and the numbers that stand for tokens and keys, are of transactions there were.
Number(x, n) == x \in Int /\ -100 < x /\ x # 0 /\ x < n
Key(x, n)    == x \in Int /\ (x < 0 \/ x < n)

Numbered(r, n) ==
    /\ IF r.table = "page_columns_values"
       THEN /\ Number(r.val.page_id, n) /\ Number(r.val.page_column_id, n)
            /\ r.id = CellId(r.val.page_id, [id |-> r.val.page_column_id])
       ELSE Number(r.id, n)
    /\ r.table \in RoleTables => Key(r.val.system_key, n)
    /\ r.table = "page_form_publications" => Key(r.val.submit_token_hash, n) /\ Key(r.val.review_token_hash, n)
    /\ r.table = "page_edges" =>
          r.val.parent_id \in Int /\ r.val.child_id \in Int /\ r.val.parent_id < r.val.child_id

\* What a row is found together with after every statement.
Whole(R, r) ==
    /\ r.table = "page_form_submissions" =>
          \E e, f \in R : /\ e.table = "page_edges" /\ e.val.child_id = r.val.response_page_id
                          /\ Is(f, "page_form_publications", r.val.publication_id)
                          /\ e.val.parent_id = f.val.page_id
    /\ r.table = "workspace_members" =>
          \E p \in R : Is(p, "pages", r.val.page_root_id) /\ p.val.owner_id = r.val.user_id
    /\ r.table = "page_edges" =>
          \E q \in R : q.table = "page_roles" /\ q.val.page_id = r.val.child_id
    /\ r.table = "page_columns_values" =>
          \E e, c \in R : /\ e.table = "page_edges" /\ e.val.child_id = r.val.page_id
                          /\ Is(c, "page_columns", r.val.page_column_id) /\ c.val.parent_id = e.val.parent_id
    /\ r.table = "access_invites" =>
          /\ r.val.scope \in ScopeKinds
          /\ \E q \in R : Is(q, RoleTable[r.val.scope], r.val.role_id)
                          /\ q.val[ScopeColumn[r.val.scope]] = r.val.scope_id

Sound(R, r, n) == Typed(r) /\ Numbered(r, n) /\ ~Dangling(R, r) /\ Whole(R, r)

Fit(R, n) ==
    /\ IsFiniteSet(R)
    /\ \A r, q \in R : r.table = q.table /\ r.id = q.id => r = q
    /\ \A r \in R : Sound(R, r, n)

\* What a row is found together with only after its transaction.
GivesDefault(R, s, x) ==
    \E q \in R : q.table = RoleTable[s] /\ q.val[ScopeColumn[s]] = x /\ "default" \in q.flags
Noticed(R, x) ==
    \E m, d \in R : /\ m.table = "notifications" /\ m.val.dedupe_key = x
                    /\ d.table = "notification_deliveries" /\ d.val.notification_id = m.id
Complete(R) ==
    /\ \A r \in R : r.table = "organizations" => GivesDefault(R, "organization", r.id)
    /\ \A r \in R : r.table = "workspaces" => GivesDefault(R, "workspace", r.id)
    /\ \A r \in R : r.table = "schedule_pin_requests" => Noticed(R, r.id)

RecordsInd ==
    /\ batches \in 1..MaxBatches /\ broken = FALSE
    /\ Fit(stored, Room * batches) /\ Complete(stored)

-----------------------------------------------------------------------------
(* What a change of the rows leaves of the others.                          *)

Heir(r, q) ==
    /\ q.table = r.table /\ q.id = r.id
    /\ r.table \in Static => q = r
    /\ \A c \in {"page_id", "owner_id", "parent_id"} :
          c \in DOMAIN r.val => c \in DOMAIN q.val /\ q.val[c] = r.val[c]

Later(R, S) == \A r \in R : r.table \notin Erasable => \E q \in S : Heir(r, q)
Kept(R, S)  == \A r \in R : \E q \in S : Heir(r, q)

\* Heirs of heirs are heirs.
LEMMA HeirTrans ==
  ASSUME NEW r, NEW q, NEW p, Heir(r, q), Heir(q, p)
  PROVE  Heir(r, p)
  BY DEF Heir

\* What is left after two changes.
LEMMA LaterTrans ==
  ASSUME NEW R, NEW S, NEW T, Later(R, S), Later(S, T)
  PROVE  Later(R, T)
  <1> SUFFICES ASSUME NEW r \in R, r.table \notin Erasable PROVE \E p \in T : Heir(r, p)
    BY DEF Later
  <1>1. PICK q \in S : Heir(r, q)
    BY DEF Later
  <1>2. PICK p \in T : Heir(q, p)
    BY <1>1 DEF Later, Heir
  <1> QED BY <1>1, <1>2, HeirTrans

\* No change leaves every row.
LEMMA LaterSelf ==
  ASSUME NEW R
  PROVE  Later(R, R) /\ Kept(R, R)
  BY DEF Later, Kept, Heir

\* A change that keeps every row keeps those that are not erasable.
LEMMA KeptLater ==
  ASSUME NEW R, NEW S, Kept(R, S)
  PROVE  Later(R, S)
  BY DEF Later, Kept

\* A row that is not erasable stays there.
LEMMA LaterThere ==
  ASSUME NEW R, NEW S, Later(R, S), NEW t, NEW id, There(R, t, id), t \notin Erasable
  PROVE  There(S, t, id)
  BY DEF Later, There, Is, Heir

\* A row of a static table stays as it is.
LEMMA LaterStatic ==
  ASSUME NEW R, NEW S, Later(R, S), NEW r \in R, r.table \in Static
  PROVE  r \in S
  BY DEF Later, Heir, Static, RoleTables, Erasable

\* What a row may refer to is not erased, but for the cell of a link.
Plain(ref) == ref.table \notin Erasable /\ (ref.scope = "" \/ ref.table \in RoleTables)

\* The references that name no erasable row.
LEMMA PlainRefs ==
  /\ \A c, t : t \notin Erasable => Plain(Ref(c, t)) /\ Plain(Maybe(c, t)) /\ Plain(Cascading(c, t))
  /\ \A c, t, s : t \in RoleTables => Plain(Role(c, t, s))
  <1>1. \A c, t : t \notin Erasable => Plain(Ref(c, t)) /\ Plain(Maybe(c, t)) /\ Plain(Cascading(c, t))
    BY DEF Plain, Ref, Maybe, Cascading
  <1>2. ASSUME NEW c, NEW t, NEW s, t \in RoleTables PROVE Plain(Role(c, t, s))
    BY <1>2 DEF Plain, Ref, Maybe, Role, RoleTables, Erasable
  <1> QED BY <1>1, <1>2

CellOf == Cascading("source_cell_id", "page_columns_values")

\* Every reference but that of a link to its cell is one of these.
LEMMA RefersPlain ==
  ASSUME NEW t \in DOMAIN Schema, NEW ref \in Schema[t].refers
  PROVE  Plain(ref) \/ (t = "page_relation_links" /\ ref = CellOf)
  <1> USE PlainRefs DEF Erasable, RoleTables
  <1>1. CASE t = "users"
    BY <1>1, UsersRefer
  <1>2. CASE t = "account_verifications"
    BY <1>2, VerificationsRefer
  <1>3. CASE t = "organizations"
    BY <1>3, OrganizationsRefer
  <1>4. CASE t = "workspaces"
    BY <1>4, WorkspacesRefer
  <1>5. CASE t = "organization_roles"
    BY <1>5, OrganizationRolesRefer
  <1>6. CASE t = "workspace_roles"
    BY <1>6, WorkspaceRolesRefer
  <1>7. CASE t = "page_roles"
    BY <1>7, PageRolesRefer
  <1>8. CASE t = "organization_members"
    BY <1>8, OrganizationMembersRefer
  <1>9. CASE t = "page_collaborators"
    BY <1>9, CollaboratorsRefer
  <1>10. CASE t = "workspace_members"
    BY <1>10, WorkspaceMembersRefer
  <1>11. CASE t = "organization_pending_requests"
    BY <1>11, OrganizationRequestsRefer
  <1>12. CASE t = "workspace_pending_requests"
    BY <1>12, WorkspaceRequestsRefer
  <1>13. CASE t = "page_pending_requests"
    BY <1>13, PageRequestsRefer
  <1>14. CASE t = "access_invites"
    BY <1>14, AccessInvitesRefer
  <1>15. CASE t = "access_invite_acceptances"
    BY <1>15, AcceptancesRefer
  <1>16. CASE t = "pages"
    BY <1>16, PagesRefer
  <1>17. CASE t = "page_edges"
    BY <1>17, EdgesRefer
  <1>18. CASE t = "page_columns"
    BY <1>18, ColumnsRefer
  <1>19. CASE t = "page_columns_values"
    BY <1>19, CellsRefer
  <1>20. CASE t = "page_relation_links"
    BY <1>20, LinksRefer DEF CellOf
  <1>21. CASE t = "page_view_row_order"
    BY <1>21, RowOrderRefer
  <1>22. CASE t = "page_blocks"
    BY <1>22, BlocksRefer
  <1>23. CASE t = "page_favorites"
    BY <1>23, FavoritesRefer
  <1>24. CASE t = "page_form_publications"
    BY <1>24, PublicationsRefer
  <1>25. CASE t = "page_form_submissions"
    BY <1>25, SubmissionsRefer
  <1>26. CASE t = "pinned_schedule_pages"
    BY <1>26, PinsRefer
  <1>27. CASE t = "schedule_pin_requests"
    BY <1>27, PinRequestsRefer
  <1>28. CASE t = "notifications"
    BY <1>28, NotificationsRefer
  <1>29. CASE t = "notification_deliveries"
    BY <1>29, DeliveriesRefer
  <1> QED BY <1>1, <1>2, <1>3, <1>4, <1>5, <1>6, <1>7, <1>8, <1>9, <1>10, <1>11, <1>12, <1>13, <1>14, <1>15, <1>16, <1>17, <1>18, <1>19, <1>20, <1>21, <1>22, <1>23, <1>24, <1>25, <1>26, <1>27, <1>28, <1>29, SchemaIs

\* What a row was found together with stays, none of it being erasable.
LEMMA WholeStays ==
  ASSUME NEW R, NEW S, \A q \in R : Typed(q), Later(R, S), NEW r, Whole(R, r)
  PROVE  Whole(S, r)
  <1>1. ASSUME r.table = "page_form_submissions"
        PROVE  \E e, f \in S : /\ e.table = "page_edges" /\ e.val.child_id = r.val.response_page_id
                               /\ Is(f, "page_form_publications", r.val.publication_id)
                               /\ e.val.parent_id = f.val.page_id
    <2>1. PICK e \in R, f \in R :
             /\ e.table = "page_edges" /\ e.val.child_id = r.val.response_page_id
             /\ Is(f, "page_form_publications", r.val.publication_id)
             /\ e.val.parent_id = f.val.page_id
      BY <1>1 DEF Whole
    <2>2. e \in S
      BY <2>1, LaterStatic DEF Static
    <2>3. PICK g \in S : Heir(f, g)
      BY <2>1 DEF Later, Is, Erasable
    <2>4. "page_id" \in DOMAIN f.val
      BY <2>1 DEF Is, Typed, Filled
    <2> QED BY <2>1, <2>2, <2>3, <2>4 DEF Heir, Is
  <1>2. ASSUME r.table = "workspace_members"
        PROVE  \E p \in S : Is(p, "pages", r.val.page_root_id) /\ p.val.owner_id = r.val.user_id
    <2>1. PICK p \in R : Is(p, "pages", r.val.page_root_id) /\ p.val.owner_id = r.val.user_id
      BY <1>2 DEF Whole
    <2>2. PICK g \in S : Heir(p, g)
      BY <2>1 DEF Later, Is, Erasable
    <2>3. "owner_id" \in DOMAIN p.val
      BY <2>1 DEF Is, Typed, Filled
    <2> QED BY <2>1, <2>2, <2>3 DEF Heir, Is
  <1>3. ASSUME r.table = "page_edges"
        PROVE  \E q \in S : q.table = "page_roles" /\ q.val.page_id = r.val.child_id
    BY <1>3, LaterStatic DEF Whole, Static, RoleTables
  <1>4. ASSUME r.table = "page_columns_values"
        PROVE  \E e, c \in S : /\ e.table = "page_edges" /\ e.val.child_id = r.val.page_id
                               /\ Is(c, "page_columns", r.val.page_column_id) /\ c.val.parent_id = e.val.parent_id
    <2>1. PICK e \in R, c \in R :
             /\ e.table = "page_edges" /\ e.val.child_id = r.val.page_id
             /\ Is(c, "page_columns", r.val.page_column_id) /\ c.val.parent_id = e.val.parent_id
      BY <1>4 DEF Whole
    <2>2. e \in S
      BY <2>1, LaterStatic DEF Static
    <2>3. PICK g \in S : Heir(c, g)
      BY <2>1 DEF Later, Is, Erasable
    <2>4. "parent_id" \in DOMAIN c.val
      BY <2>1 DEF Is, Typed, Filled
    <2> QED BY <2>1, <2>2, <2>3, <2>4 DEF Heir, Is
  <1>5. ASSUME r.table = "access_invites"
        PROVE  /\ r.val.scope \in ScopeKinds
               /\ \E q \in S : Is(q, RoleTable[r.val.scope], r.val.role_id)
                               /\ q.val[ScopeColumn[r.val.scope]] = r.val.scope_id
    <2>1. PICK q \in R : Is(q, RoleTable[r.val.scope], r.val.role_id)
                         /\ q.val[ScopeColumn[r.val.scope]] = r.val.scope_id
      BY <1>5 DEF Whole
    <2>2. r.val.scope \in ScopeKinds
      BY <1>5 DEF Whole
    <2>3. q.table \in Static
      BY <2>1, <2>2 DEF Is, ScopeKinds, RoleTable, Static, RoleTables
    <2> QED BY <2>1, <2>2, <2>3, LaterStatic
  <1> QED BY <1>1, <1>2, <1>3, <1>4, <1>5 DEF Whole

\* A reference to a row that is not erasable goes on reaching it.
LEMMA ReachesStays ==
  ASSUME NEW R, NEW S, Later(R, S), NEW r, NEW ref, Plain(ref), Reaches(R, r, ref)
  PROVE  Reaches(S, r, ref)
  <1>1. CASE ~ref.required /\ Col(r, ref.column) = Null
    BY <1>1 DEF Reaches
  <1>2. CASE \E q \in R : Names(r, ref, q)
    <2>1. PICK q \in R : Names(r, ref, q)
      BY <1>2
    <2>2. q.table = ref.table /\ q.id = Col(r, ref.column)
      BY <2>1 DEF Names, Is
    <2>3. PICK p \in S : Heir(q, p)
      BY <2>2 DEF Later, Plain
    <2>4. ref.scope # "" => p = q
      BY <2>2, <2>3 DEF Heir, Plain, Static
    <2>5. Names(r, ref, p)
      BY <2>1, <2>2, <2>3, <2>4 DEF Names, Is, Heir
    <2> QED BY <2>5 DEF Reaches
  <1> QED BY <1>1, <1>2 DEF Reaches

\* A row stays sound as long as, for a link, its cell stays.
LEMMA SoundStays ==
  ASSUME NEW R, NEW S, \A q \in R : Typed(q), Later(R, S),
         NEW n \in Int, NEW m \in Int, n <= m, NEW r, Sound(R, r, n),
         r.table = "page_relation_links" => There(S, "page_columns_values", Col(r, "source_cell_id"))
  PROVE  Sound(S, r, m)
  <1>1. Typed(r) /\ Whole(S, r)
    BY WholeStays DEF Sound
  <1>2. Numbered(r, m)
    BY DEF Sound, Numbered, Number, Key
  <1>3. ASSUME NEW ref \in Schema[r.table].refers PROVE Reaches(S, r, ref)
    <2>1. Reaches(R, r, ref)
      BY NotDangling DEF Sound
    <2>2. CASE Plain(ref)
      BY <2>1, <2>2, ReachesStays
    <2>3. CASE r.table = "page_relation_links" /\ ref = CellOf
      BY <2>3, CascadingReaches DEF CellOf
    <2>4. r.table \in DOMAIN Schema
      BY DEF Sound, Typed
    <2> QED BY <2>2, <2>3, <2>4, RefersPlain
  <1>4. ~Dangling(S, r)
    BY <1>3, NotDangling
  <1> QED BY <1>1, <1>2, <1>4 DEF Sound

\* A row stays sound when every row has its heir.
LEMMA KeptSound ==
  ASSUME NEW R, NEW S, Kept(R, S), NEW n \in Int, NEW m \in Int, n <= m,
         \A q \in R : Sound(R, q, n), NEW r, Sound(R, r, n)
  PROVE  Sound(S, r, m)
  <1>1. \A q \in R : Typed(q)
    BY DEF Sound
  <1>2. Later(R, S)
    BY KeptLater
  <1>3. ASSUME r.table = "page_relation_links" PROVE There(S, "page_columns_values", Col(r, "source_cell_id"))
    <2>1. There(R, "page_columns_values", Col(r, "source_cell_id"))
      BY <1>3, LinksPlaced DEF Sound
    <2> QED BY <2>1 DEF Kept, There, Is, Heir
  <1> QED BY <1>1, <1>2, <1>3, SoundStays

\* Rows fit for one number are fit for a greater one.
LEMMA FitGrows ==
  ASSUME NEW R, NEW n \in Int, NEW m \in Int, n <= m, Fit(R, n)
  PROVE  Fit(R, m)
  BY LaterSelf, KeptSound DEF Fit

-----------------------------------------------------------------------------
(* The three changes of the rows.                                           *)

\* A sound row of a key that is new may be inserted.
LEMMA AddKeeps ==
  ASSUME NEW R, NEW n \in Int, Fit(R, n), NEW x, Sound(R, x, n), ~There(R, x.table, x.id)
  PROVE  Fit(R \cup {x}, n) /\ Kept(R, R \cup {x})
  <1> DEFINE S == R \cup {x}
  <1>1. Kept(R, S)
    BY DEF Kept, Heir
  <1>2. IsFiniteSet(S)
    BY FS_AddElement DEF Fit
  <1>3. \A r, q \in S : r.table = q.table /\ r.id = q.id => r = q
    BY DEF Fit, There, Is
  <1>4. \A r \in S : Sound(S, r, n)
    BY <1>1, KeptSound DEF Fit
  <1> QED BY <1>1, <1>2, <1>3, <1>4 DEF Fit

\* A row may be replaced by a sound heir.
LEMMA AlterKeeps ==
  ASSUME NEW R, NEW n \in Int, Fit(R, n), NEW old \in R, NEW x, Sound(R, x, n), Heir(old, x)
  PROVE  LET S == (R \ {old}) \cup {x} IN Fit(S, n) /\ Kept(R, S)
  <1> DEFINE S == (R \ {old}) \cup {x}
  <1>1. Kept(R, S)
    <2> SUFFICES ASSUME NEW r \in R PROVE \E q \in S : Heir(r, q)
      BY DEF Kept
    <2>1. CASE r = old
      BY <2>1
    <2>2. CASE r # old
      BY <2>2 DEF Heir
    <2> QED BY <2>1, <2>2
  <1>2. IsFiniteSet(S)
    BY FS_AddElement, FS_RemoveElement DEF Fit
  <1>3. \A r, q \in S : r.table = q.table /\ r.id = q.id => r = q
    BY DEF Fit, Heir
  <1>4. \A r \in S : Sound(S, r, n)
    BY <1>1, KeptSound DEF Fit
  <1> QED BY <1>1, <1>2, <1>3, <1>4 DEF Fit

\* Only links go with an erased row, those of a cell.
LEMMA CascadedLinks ==
  ASSUME NEW R, NEW n \in Int, Fit(R, n), NEW old \in R, old.table \in Erasable
  PROVE  \A r \in Cascaded(R, old) :
            r.table = "page_relation_links" /\ old.table = "page_columns_values" /\ Col(r, "source_cell_id") = old.id
  <1> SUFFICES ASSUME NEW r \in Cascaded(R, old)
               PROVE  r.table = "page_relation_links" /\ old.table = "page_columns_values"
                      /\ Col(r, "source_cell_id") = old.id
    OBVIOUS
  <1>1. PICK ref \in Schema[r.table].refers : ref.cascade /\ Names(r, ref, old)
    BY DEF Cascaded
  <1>2. r \in R /\ r.table \in DOMAIN Schema
    BY DEF Cascaded, Fit, Sound, Typed
  <1>3. old.table = ref.table /\ old.id = Col(r, ref.column)
    BY <1>1 DEF Names, Is
  <1>4. ~Plain(ref)
    BY <1>3 DEF Plain
  <1>5. r.table = "page_relation_links" /\ ref = CellOf
    BY <1>2, <1>4, RefersPlain
  <1>6. ref.column = "source_cell_id" /\ ref.table = "page_columns_values"
    BY <1>5 DEF CellOf, Cascading, Ref
  <1> QED BY <1>3, <1>5, <1>6

\* A row of an erasable table may go, and its links with it.
LEMMA EraseKeeps ==
  ASSUME NEW R, NEW n \in Int, Fit(R, n), NEW old \in R, old.table \in Erasable
  PROVE  LET S == (R \ {old}) \ Cascaded(R, old) IN Fit(S, n) /\ Later(R, S)
  <1> DEFINE S == (R \ {old}) \ Cascaded(R, old)
  <1>1. Later(R, S)
    <2> SUFFICES ASSUME NEW r \in R, r.table \notin Erasable PROVE r \in S
      BY DEF Later, Heir
    <2>1. r \notin Cascaded(R, old)
      BY CascadedLinks DEF Erasable
    <2> QED BY <2>1
  <1>2. IsFiniteSet(S)
    BY FS_Subset DEF Fit
  <1>3. \A r, q \in S : r.table = q.table /\ r.id = q.id => r = q
    BY DEF Fit
  <1>4. ASSUME NEW r \in S PROVE Sound(S, r, n)
    <2>1. \A q \in R : Typed(q)
      BY DEF Fit, Sound
    <2>2. Sound(R, r, n)
      BY DEF Fit
    <2>3. ASSUME r.table = "page_relation_links" PROVE There(S, "page_columns_values", Col(r, "source_cell_id"))
      <3>1. PICK q \in R : Is(q, "page_columns_values", Col(r, "source_cell_id"))
        BY <2>2, <2>3, LinksPlaced DEF Sound, There
      <3>2. q # old
        <4> SUFFICES ASSUME q = old PROVE r \in Cascaded(R, old)
          OBVIOUS
        <4>1. CellOf \in Schema[r.table].refers
          BY <2>3, LinksRefer DEF CellOf
        <4>2. CellOf.cascade /\ Names(r, CellOf, old)
          BY <3>1 DEF CellOf, Cascading, Ref, Names
        <4> QED BY <4>1, <4>2 DEF Cascaded
      <3>3. q \notin Cascaded(R, old)
        BY <3>1, CascadedLinks DEF Is
      <3> QED BY <3>1, <3>2, <3>3 DEF There
    <2> QED BY <1>1, <2>1, <2>2, <2>3, SoundStays
  <1> QED BY <1>1, <1>2, <1>3, <1>4 DEF Fit

-----------------------------------------------------------------------------
(* A batch, statement after statement.                                      *)

\* The statements of a set, in some order.
LEMMA EnumIs ==
  ASSUME NEW S, IsFiniteSet(S)
  PROVE  /\ Ext!SetToSeq(S) \in Seq(S)
         /\ \A i \in 1..Len(Ext!SetToSeq(S)) : Ext!SetToSeq(S)[i] \in S
  <1>1. Cardinality(S) \in Nat /\ \E f : ExistsBijection(1..Cardinality(S), S)
    BY FS_CardinalityType
  <1>2. Ext!Cardinality(S) = Cardinality(S)
    BY DEF Ext!Cardinality, Cardinality
  <1> DEFINE F == [1..Cardinality(S) -> S]
  <1>3. \E f \in F : Ext!IsInjective(f)
    BY <1>1 DEF ExistsBijection, Bijection, Injection, Ext!IsInjective, IsInjective
  <1>4. Ext!SetToSeq(S) \in F
    BY <1>2, <1>3 DEF Ext!SetToSeq
  <1> QED BY <1>1, <1>4

NatLess == {ss \in Nat \X Nat : ss[1] < ss[2]}

\* The numbers are well-founded.
LEMMA NatWF == IsWellFoundedOn(NatLess, Nat)
  BY NatLessThanWellFounded DEF OpToRel, NatLess

\* A set of numbers has a least one.
LEMMA LeastNat ==
  ASSUME NEW S, S \subseteq Nat, S # {}
  PROVE  \E x \in S : \A y \in S : x <= y
  <1>1. PICK x \in S : \A y \in S : ~ (<<y, x>> \in NatLess)
    BY NatWF, WFMin, Zenon
  <1>2. ASSUME NEW y \in S PROVE x <= y
    <2>1. <<y, x>> \in Nat \X Nat
      OBVIOUS
    <2>2. ~ (y < x)
      BY <1>1, <1>2, <2>1 DEF NatLess
    <2> QED BY <2>2
  <1> QED BY <1>2

\* What holds of zero and of every successor holds of all.
LEMMA EveryNat ==
  ASSUME NEW S, 0 \in S, \A n \in Nat : n \in S => n + 1 \in S
  PROVE  Nat \subseteq S
  <1> DEFINE B == {n \in Nat : n \notin S}
  <1>1. ASSUME B # {} PROVE FALSE
    <2>1. PICK m \in B : \A y \in B : m <= y
      BY <1>1, LeastNat
    <2>2. m # 0 /\ m - 1 \in Nat
      BY <2>1
    <2>3. m - 1 \in S
      BY <2>1, <2>2
    <2> QED BY <2>1, <2>2, <2>3
  <1> QED BY <1>1

Step(out, batch, f, i) == IF i = 0 THEN out ELSE Perform(f[i - 1], batch[i])

\* The outcomes of the beginnings of a batch.
Trace(out, batch, f) ==
    /\ f = [i \in 0..Len(batch) |-> Step(out, batch, f, i)]
    /\ Continue(out, batch) = f[Len(batch)]

\* Every batch has a trace: the recursion of Continue is well defined.
LEMMA Traced ==
  ASSUME NEW out, NEW batch, Len(batch) \in Nat
  PROVE  \E f : Trace(out, batch, f)
  <1> DEFINE D == 0..Len(batch)
             Fn(f) == f = [i \in D |-> f[i]]
             Upto(n, f) == \A i \in D : i <= n => f[i] = Step(out, batch, f, i)
             S == {n \in Nat : \E f : Fn(f) /\ Upto(n, f)}
  <1>1. 0 \in S
    <2> DEFINE f == [i \in D |-> out]
    <2>1. Fn(f)
      OBVIOUS
    <2>2. Upto(0, f)
      BY DEF Step
    <2> QED BY <2>1, <2>2
  <1>2. ASSUME NEW n \in Nat, n \in S PROVE n + 1 \in S
    <2>1. PICK f : Fn(f) /\ Upto(n, f)
      BY <1>2
    <2> DEFINE g == [i \in D |-> IF i = n + 1 THEN Step(out, batch, f, n + 1) ELSE f[i]]
    <2>2. Fn(g)
      OBVIOUS
    <2>3. \A i \in D : g[i] = IF i = n + 1 THEN Step(out, batch, f, n + 1) ELSE f[i]
      OBVIOUS
    <2> HIDE DEF g
    <2>4. ASSUME NEW i \in D, i <= n + 1 PROVE Step(out, batch, g, i) = Step(out, batch, f, i)
      <3>1. CASE i = 0
        BY <3>1 DEF Step
      <3>2. CASE i # 0
        <4>1. i - 1 \in D /\ i - 1 # n + 1
          BY <2>4, <3>2
        <4>2. g[i - 1] = f[i - 1]
          BY <2>3, <4>1
        <4> QED BY <4>2 DEF Step
      <3> QED BY <3>1, <3>2
    <2>5. Upto(n + 1, g)
      <3> SUFFICES ASSUME NEW i \in D, i <= n + 1 PROVE g[i] = Step(out, batch, g, i)
        OBVIOUS
      <3>1. CASE i = n + 1
        BY <3>1, <2>3, <2>4
      <3>2. CASE i # n + 1
        <4>1. i <= n
          BY <3>2
        <4> QED BY <4>1, <3>2, <2>1, <2>3, <2>4
      <3> QED BY <3>1, <3>2
    <2> QED BY <2>2, <2>5
  <1>3. Len(batch) \in S
    <2> HIDE DEF S
    <2> QED BY <1>1, <1>2, EveryNat
  <1>4. PICK f : Fn(f) /\ Upto(Len(batch), f)
    BY <1>3
  <1> DEFINE Eq(g) == g = [i \in D |-> Step(out, batch, g, i)]
  <1>5. Eq(f)
    <2>1. \A i \in D : f[i] = Step(out, batch, f, i)
      BY <1>4
    <2> HIDE DEF D
    <2> QED BY <1>4, <2>1
  <1>6. Continue(out, batch) = (CHOOSE g : Eq(g))[Len(batch)]
    BY DEF Continue, Step
  <1> HIDE DEF Eq
  <1>7. Eq(CHOOSE g : Eq(g))
    BY <1>5
  <1> QED BY <1>6, <1>7 DEF Eq, Trace

\* What a trace says of a batch: each outcome is that of the statement before.
LEMMA TraceSteps ==
  ASSUME NEW out, NEW batch, Len(batch) \in Nat, NEW f, Trace(out, batch, f)
  PROVE  /\ f[0] = out /\ f[Len(batch)] = Continue(out, batch)
         /\ \A i \in 1..Len(batch) : f[i] = Perform(f[i - 1], batch[i])
  <1>1. \A i \in 0..Len(batch) : f[i] = Step(out, batch, f, i)
    BY DEF Trace
  <1> QED BY <1>1 DEF Trace, Step

\* A batch has one trace.
LEMMA OneTrace ==
  ASSUME NEW out, NEW batch, Len(batch) \in Nat, NEW t, t[0] = out,
         \A i \in 1..Len(batch) : t[i] = Perform(t[i - 1], batch[i])
  PROVE  Continue(out, batch) = t[Len(batch)]
  <1>1. PICK f : Trace(out, batch, f)
    BY Traced
  <1>2. /\ f[0] = out /\ f[Len(batch)] = Continue(out, batch)
        /\ \A i \in 1..Len(batch) : f[i] = Perform(f[i - 1], batch[i])
    BY <1>1, TraceSteps
  <1> DEFINE S == {i \in Nat : i <= Len(batch) => f[i] = t[i]}
  <1>3. 0 \in S
    BY <1>2
  <1>4. ASSUME NEW n \in Nat, n \in S PROVE n + 1 \in S
    <2>1. CASE n + 1 <= Len(batch)
      <3>1. f[n] = t[n] /\ n + 1 \in 1..Len(batch) /\ (n + 1) - 1 = n
        BY <1>4, <2>1
      <3>2. f[n + 1] = Perform(f[n], batch[n + 1]) /\ t[n + 1] = Perform(t[n], batch[n + 1])
        BY <1>2, <3>1
      <3> QED BY <3>1, <3>2
    <2>2. CASE ~(n + 1 <= Len(batch))
      BY <2>2
    <2> QED BY <2>1, <2>2
  <1>5. Len(batch) \in S
    <2> HIDE DEF S
    <2> QED BY <1>3, <1>4, EveryNat
  <1> QED BY <1>2, <1>5

\* A batch of one statement.
LEMMA ContinueOne ==
  ASSUME NEW out, NEW s
  PROVE  Continue(out, <<s>>) = Perform(out, s)
  <1> DEFINE t == [i \in 0..1 |-> IF i = 0 THEN out ELSE Perform(out, s)]
  <1>1. t[0] = out /\ t[1] = Perform(out, s)
    OBVIOUS
  <1> HIDE DEF t
  <1>2. \A i \in 1..Len(<<s>>) : t[i] = Perform(t[i - 1], <<s>>[i])
    BY <1>1
  <1>3. Continue(out, <<s>>) = t[Len(<<s>>)]
    BY <1>1, <1>2, OneTrace
  <1> QED BY <1>1, <1>3

\* A batch of none.
LEMMA ContinueNone ==
  ASSUME NEW out
  PROVE  Continue(out, <<>>) = out
  <1> DEFINE t == [i \in {0} |-> out]
  <1>1. t[0] = out
    OBVIOUS
  <1> HIDE DEF t
  <1> QED BY <1>1, OneTrace

\* Two batches, one after the other.
LEMMA ContinueBoth ==
  ASSUME NEW out, NEW S, NEW a \in Seq(S), NEW T, NEW b \in Seq(T)
  PROVE  Continue(out, a \o b) = Continue(Continue(out, a), b)
  <1> DEFINE m == Len(a)
             n == Len(b)
  <1>1. m \in Nat /\ n \in Nat /\ Len(a \o b) = m + n
    OBVIOUS
  <1>2. /\ \A i \in 1..m : (a \o b)[i] = a[i]
        /\ \A i \in 1..(m + n) : i > m => (a \o b)[i] = b[i - m]
    OBVIOUS
  <1>3. PICK f : Trace(out, a, f)
    BY <1>1, Traced
  <1>4. PICK g : Trace(Continue(out, a), b, g)
    BY <1>1, Traced
  <1>5. /\ f[0] = out /\ f[m] = Continue(out, a)
        /\ \A i \in 1..m : f[i] = Perform(f[i - 1], a[i])
    BY <1>1, <1>3, TraceSteps
  <1>6. /\ g[0] = f[m] /\ g[n] = Continue(Continue(out, a), b)
        /\ \A i \in 1..n : g[i] = Perform(g[i - 1], b[i])
    <2>1. /\ g[0] = Continue(out, a) /\ g[Len(b)] = Continue(Continue(out, a), b)
          /\ \A i \in 1..Len(b) : g[i] = Perform(g[i - 1], b[i])
      BY <1>1, <1>4, TraceSteps
    <2> QED BY <1>5, <2>1
  <1> DEFINE t == [i \in 0..(m + n) |-> IF i <= m THEN f[i] ELSE g[i - m]]
  <1>7. \A i \in 0..(m + n) : t[i] = IF i <= m THEN f[i] ELSE g[i - m]
    OBVIOUS
  <1> HIDE DEF t, m, n
  <1>8. t[0] = out
    BY <1>1, <1>5, <1>7
  <1>9. ASSUME NEW i \in 1..(m + n) PROVE t[i] = Perform(t[i - 1], (a \o b)[i])
    <2>1. CASE i <= m
      BY <1>1, <1>2, <1>5, <1>7, <2>1
    <2>2. CASE i > m
      <3>1. i - m \in 1..n /\ (i - m) - 1 = (i - 1) - m /\ i - 1 \in 0..(m + n)
        BY <1>1, <2>2
      <3>2. t[i] = g[i - m] /\ (a \o b)[i] = b[i - m]
        BY <1>1, <1>2, <1>7, <2>2
      <3>3. g[i - m] = Perform(g[(i - 1) - m], b[i - m])
        BY <1>6, <3>1
      <3>4. t[i - 1] = g[(i - 1) - m]
        <4>1. CASE i - 1 = m
          <5>1. (i - 1) - m = 0
            BY <1>1, <4>1
          <5> QED BY <1>1, <1>6, <1>7, <3>1, <4>1, <5>1
        <4>2. CASE i - 1 # m
          BY <1>1, <1>7, <2>2, <3>1, <4>2
        <4> QED BY <4>1, <4>2
      <3> QED BY <3>2, <3>3, <3>4
    <2> QED BY <1>1, <2>1, <2>2
  <1>10. Continue(out, a \o b) = t[m + n]
    <2>1. Len(a \o b) \in Nat /\ Len(a \o b) = m + n
      BY <1>1
    <2>2. \A i \in 1..Len(a \o b) : t[i] = Perform(t[i - 1], (a \o b)[i])
      BY <1>9, <2>1
    <2> QED BY <1>8, <2>1, <2>2, OneTrace
  <1>11. t[m + n] = g[n]
    <2>1. CASE n = 0
      BY <1>1, <1>6, <1>7, <2>1
    <2>2. CASE n # 0
      <3>1. (m + n) - m = n /\ ~(m + n <= m) /\ m + n \in 0..(m + n)
        BY <1>1, <2>2
      <3> QED BY <1>7, <3>1
    <2> QED BY <2>1, <2>2
  <1> QED BY <1>6, <1>10, <1>11

-----------------------------------------------------------------------------
(* A statement keeps what the batch began with: Going(o, R, n, K) says that *)
(* the outcome o of a beginning of a batch on R is fit, and that the rows it *)
(* has and R does not have are of the keys K.                               *)

Going(o, R, n, K) ==
    /\ o.aborted \in BOOLEAN /\ o.broken = FALSE
    /\ Fit(o.rows, n) /\ Later(R, o.rows)
    /\ \A r \in o.rows : There(R, r.table, r.id) \/ <<r.table, r.id>> \in K

\* Whether a statement is carried out.
Asked(o, s)   == ~o.aborted /\ Met(o.rows, s.needs)
Unclashed(o, s) == Clashing(o.rows, s.row) = {}
Fresh(R, row) == ~There(R, row.table, row.id)

\* A transaction that aborted goes no further.
LEMMA AbortedStops ==
  ASSUME NEW o, o.aborted, NEW s
  PROVE  Perform(o, s) = o
  BY DEF Perform

\* The outcome a batch begins with.
LEMMA GoingBegins ==
  ASSUME NEW R, NEW n \in Int, NEW m \in Int, n <= m, Fit(R, n)
  PROVE  Going(Holding(R), R, m, {}) /\ ~Holding(R).aborted /\ Holding(R).rows = R
  <1>1. Fit(R, m) /\ Later(R, R)
    BY FitGrows, LaterSelf
  <1>2. \A r \in R : There(R, r.table, r.id)
    BY DEF There, Is
  <1> QED BY <1>1, <1>2 DEF Going, Holding

\* More keys are allowed.
LEMMA GoingMore ==
  ASSUME NEW R, NEW n, NEW K, NEW L, K \subseteq L, NEW o, Going(o, R, n, K)
  PROVE  Going(o, R, n, L)
  BY DEF Going

\* A change after which every row has its heir.
LEMMA GoingOn ==
  ASSUME NEW R, NEW n, NEW K, NEW L, NEW o, Going(o, R, n, K),
         NEW S, Fit(S, n), Later(o.rows, S), K \subseteq L,
         \A r \in S : There(o.rows, r.table, r.id) \/ <<r.table, r.id>> \in L
  PROVE  Going(Holding(S), R, n, L)
  <1>1. Later(R, S)
    BY LaterTrans DEF Going
  <1>2. ASSUME NEW r \in S PROVE There(R, r.table, r.id) \/ <<r.table, r.id>> \in L
    <2>1. CASE There(o.rows, r.table, r.id)
      <3>1. PICK q \in o.rows : q.table = r.table /\ q.id = r.id
        BY <2>1 DEF There, Is
      <3> QED BY <3>1 DEF Going
    <2> QED BY <2>1
  <1> QED BY <1>1, <1>2 DEF Going, Holding

\* A statement that changes nothing, checked or not.
LEMMA Skipped ==
  ASSUME NEW R, NEW n, NEW K, NEW o, Going(o, R, n, K), NEW s
  PROVE  /\ Going(Skip(o, s), R, n, K) /\ Skip(o, s).rows = o.rows
         /\ ~Skip(o, s).aborted => ~s.checked /\ Skip(o, s) = o
  BY DEF Skip, Abort, Going

\* A row that is inserted.
LEMMA AddedGoes ==
  ASSUME NEW R, NEW n \in Int, NEW K, NEW o, Going(o, R, n, K), NEW x,
         Sound(o.rows, x, n), Fresh(o.rows, x)
  PROVE  LET P == Holding(o.rows \cup {x})
         IN Going(P, R, n, K \cup {<<x.table, x.id>>}) /\ Kept(o.rows, P.rows)
  <1> DEFINE S == o.rows \cup {x}
  <1>1. Fit(S, n) /\ Kept(o.rows, S)
    BY AddKeeps DEF Going, Fresh
  <1>2. \A r \in S : There(o.rows, r.table, r.id) \/ <<r.table, r.id>> \in K \cup {<<x.table, x.id>>}
    BY DEF There, Is
  <1>3. Later(o.rows, S)
    BY <1>1, KeptLater
  <1>4. Going(Holding(S), R, n, K \cup {<<x.table, x.id>>})
    BY <1>1, <1>2, <1>3, GoingOn
  <1> QED BY <1>1, <1>4 DEF Holding

\* A row that is replaced by its heir.
LEMMA AlteredGoes ==
  ASSUME NEW R, NEW n \in Int, NEW K, NEW o, Going(o, R, n, K), NEW old \in o.rows, NEW x,
         Sound(o.rows, x, n), Heir(old, x)
  PROVE  LET P == Replaced(o, old, x)
         IN Going(P, R, n, K) /\ Kept(o.rows, P.rows) /\ P.rows = (o.rows \ {old}) \cup {x}
  <1> DEFINE S == (o.rows \ {old}) \cup {x}
  <1>1. Fit(S, n) /\ Kept(o.rows, S)
    BY AlterKeeps DEF Going
  <1>2. \A r \in S : There(o.rows, r.table, r.id)
    BY DEF There, Is, Heir
  <1>3. Later(o.rows, S)
    BY <1>1, KeptLater
  <1>4. Going(Holding(S), R, n, K)
    BY <1>1, <1>2, <1>3, GoingOn
  <1> QED BY <1>1, <1>4 DEF Holding, Replaced

\* INSERT and INSERT OR IGNORE.
Put1(s) == s.do \in {"insert", "ignore"}

\* What an insert leaves, by whether its condition is met and a unique index is in the way.
LEMMA PutGoes ==
  ASSUME NEW R, NEW n \in Int, NEW K, NEW o, Going(o, R, n, K), NEW s, Put1(s),
         Asked(o, s) /\ Unclashed(o, s) => Sound(o.rows, s.row, n) /\ Fresh(o.rows, s.row)
  PROVE  LET P == Perform(o, s)
         IN /\ Going(P, R, n, K \cup {<<s.row.table, s.row.id>>})
            /\ Kept(o.rows, P.rows)
            /\ P.rows = o.rows \/ P.rows = o.rows \cup {s.row}
            /\ o.aborted => P = o
            /\ ~P.aborted /\ ~Met(o.rows, s.needs) => ~s.checked /\ P.rows = o.rows
            /\ ~P.aborted /\ Met(o.rows, s.needs) /\ Unclashed(o, s) => P.rows = o.rows \cup {s.row}
            /\ ~P.aborted /\ Met(o.rows, s.needs) /\ ~Unclashed(o, s) => s.do = "ignore" /\ P.rows = o.rows
  <1> DEFINE P == Perform(o, s)
             L == K \cup {<<s.row.table, s.row.id>>}
  <1>0. Going(o, R, n, L) /\ Kept(o.rows, o.rows)
    BY GoingMore, LaterSelf
  <1>1. CASE o.aborted
    BY <1>0, <1>1 DEF Perform
  <1>2. CASE ~o.aborted /\ ~Met(o.rows, s.needs)
    <2>1. P = Skip(o, s)
      BY <1>2 DEF Perform
    <2>2. Going(P, R, n, L) /\ P.rows = o.rows /\ (~P.aborted => ~s.checked)
      <3>1. Going(Skip(o, s), R, n, K) /\ Skip(o, s).rows = o.rows
        BY Skipped
      <3>9. Going(Skip(o, s), R, n, L)
        BY <3>1, GoingMore
      <3>2. ~Skip(o, s).aborted => ~s.checked
        BY <1>2 DEF Skip, Abort
      <3> QED BY <2>1, <3>1, <3>2, <3>9
    <2> QED BY <1>0, <1>2, <2>2
  <1>3. CASE Asked(o, s) /\ Unclashed(o, s)
    <2>1. ~Dangling(o.rows, s.row)
      BY <1>3 DEF Sound
    <2>2. P = Holding(o.rows \cup {s.row})
      BY <1>3, <2>1 DEF Perform, Inserted, Put1, Asked, Unclashed
    <2>3. Sound(o.rows, s.row, n) /\ Fresh(o.rows, s.row)
      BY <1>3
    <2>4. LET Q == Holding(o.rows \cup {s.row})
          IN Going(Q, R, n, K \cup {<<s.row.table, s.row.id>>}) /\ Kept(o.rows, Q.rows)
      BY <2>3, AddedGoes
    <2>5. Going(P, R, n, L) /\ Kept(o.rows, P.rows)
      BY <2>2, <2>4
    <2> QED BY <1>3, <2>2, <2>5 DEF Asked, Holding
  <1>4. CASE Asked(o, s) /\ ~Unclashed(o, s)
    <2>1. CASE s.do = "ignore"
      <3>1. P = Skip(o, s)
        BY <1>4, <2>1 DEF Perform, Inserted, Asked, Unclashed
      <3>2. Going(P, R, n, L) /\ P.rows = o.rows
        <4>1. Going(Skip(o, s), R, n, K) /\ Skip(o, s).rows = o.rows
          BY Skipped
        <4>9. Going(Skip(o, s), R, n, L)
          BY <4>1, GoingMore
        <4> QED BY <3>1, <4>1, <4>9
      <3> QED BY <1>0, <1>4, <2>1, <3>2 DEF Asked
    <2>2. CASE s.do = "insert"
      <3>1. P = Abort(o, FALSE)
        BY <1>4, <2>2 DEF Perform, Inserted, Asked, Unclashed
      <3>2. P.rows = o.rows /\ P.aborted = TRUE /\ P.broken = FALSE
        BY <3>1 DEF Abort
      <3>3. Going(P, R, n, L)
        BY <1>0, <3>2 DEF Going
      <3> QED BY <1>0, <1>4, <3>2, <3>3 DEF Asked
    <2> QED BY <2>1, <2>2 DEF Put1
  <1> QED BY <1>1, <1>2, <1>3, <1>4 DEF Asked

\* INSERT ... ON CONFLICT DO UPDATE.
LEMMA UpdateGoes ==
  ASSUME NEW R, NEW n \in Int, NEW K, NEW o, Going(o, R, n, K), NEW s, s.do = "update",
         Asked(o, s) /\ Unclashed(o, s) => Sound(o.rows, s.row, n) /\ Fresh(o.rows, s.row),
         Asked(o, s) => \A old \in Clashing(o.rows, s.row) :
                           Sound(o.rows, Merged(old, s), n) /\ Heir(old, Merged(old, s))
  PROVE  LET P == Perform(o, s)
         IN /\ Going(P, R, n, K \cup {<<s.row.table, s.row.id>>})
            /\ Kept(o.rows, P.rows)
            /\ o.aborted => P = o
            /\ ~P.aborted /\ ~Met(o.rows, s.needs) => ~s.checked /\ P.rows = o.rows
            /\ ~P.aborted /\ Met(o.rows, s.needs) =>
                  \/ P.rows = o.rows \cup {s.row}
                  \/ \E old \in Clashing(o.rows, s.row) : P.rows = (o.rows \ {old}) \cup {Merged(old, s)}
  <1> DEFINE P == Perform(o, s)
             L == K \cup {<<s.row.table, s.row.id>>}
  <1>0. Going(o, R, n, L) /\ Kept(o.rows, o.rows)
    BY GoingMore, LaterSelf
  <1>1. CASE o.aborted
    BY <1>0, <1>1 DEF Perform
  <1>2. CASE ~o.aborted /\ ~Met(o.rows, s.needs)
    <2>1. P = Skip(o, s)
      BY <1>2 DEF Perform
    <2>2. Going(P, R, n, L) /\ P.rows = o.rows /\ (~P.aborted => ~s.checked)
      <3>1. Going(Skip(o, s), R, n, K) /\ Skip(o, s).rows = o.rows
        BY Skipped
      <3>9. Going(Skip(o, s), R, n, L)
        BY <3>1, GoingMore
      <3>2. ~Skip(o, s).aborted => ~s.checked
        BY <1>2 DEF Skip, Abort
      <3> QED BY <2>1, <3>1, <3>2, <3>9
    <2> QED BY <1>0, <1>2, <2>2
  <1>3. CASE Asked(o, s) /\ Unclashed(o, s)
    <2>1. ~Dangling(o.rows, s.row)
      BY <1>3 DEF Sound
    <2>2. P = Holding(o.rows \cup {s.row})
      BY <1>3, <2>1 DEF Perform, Inserted, Asked, Unclashed
    <2>3. Sound(o.rows, s.row, n) /\ Fresh(o.rows, s.row)
      BY <1>3
    <2>4. LET Q == Holding(o.rows \cup {s.row})
          IN Going(Q, R, n, K \cup {<<s.row.table, s.row.id>>}) /\ Kept(o.rows, Q.rows)
      BY <2>3, AddedGoes
    <2>5. Going(P, R, n, L) /\ Kept(o.rows, P.rows)
      BY <2>2, <2>4
    <2> QED BY <1>3, <2>2, <2>5 DEF Asked, Holding
  <1>4. CASE Asked(o, s) /\ ~Unclashed(o, s)
    <2>1. PICK old \in Clashing(o.rows, s.row) : P = Replaced(o, old, Merged(old, s))
      BY <1>4 DEF Perform, Inserted, Asked, Unclashed
    <2>2. old \in o.rows
      BY DEF Clashing
    <2>3. Going(P, R, n, K) /\ Kept(o.rows, P.rows) /\ P.rows = (o.rows \ {old}) \cup {Merged(old, s)}
      BY <1>4, <2>1, <2>2, AlteredGoes
    <2>4. Going(P, R, n, L)
      BY <2>3, GoingMore
    <2> QED BY <1>4, <2>3, <2>4 DEF Asked
  <1> QED BY <1>1, <1>2, <1>3, <1>4 DEF Asked

\* UPDATE of a row that is there.
LEMMA MarkGoes ==
  ASSUME NEW R, NEW n \in Int, NEW K, NEW o, Going(o, R, n, K), NEW s, s.do = "mark",
         \A old \in o.rows : Is(old, s.row.table, s.row.id) =>
             Sound(o.rows, Merged(old, s), n) /\ Heir(old, Merged(old, s))
  PROVE  LET P == Perform(o, s)
         IN /\ Going(P, R, n, K) /\ Kept(o.rows, P.rows) /\ (o.aborted => P = o)
  <1> DEFINE P == Perform(o, s)
             hit == {r \in o.rows : Is(r, s.row.table, s.row.id)}
  <1>1. CASE o.aborted
    BY <1>1, LaterSelf DEF Perform
  <1>2. CASE ~o.aborted /\ P = Skip(o, s)
    <2>1. Going(P, R, n, K) /\ P.rows = o.rows
      <3>1. Going(Skip(o, s), R, n, K) /\ Skip(o, s).rows = o.rows
        BY Skipped
      <3> QED BY <1>2, <3>1
    <2> QED BY <1>2, <2>1, LaterSelf
  <1>3. CASE ~o.aborted /\ P # Skip(o, s)
    <2>1. hit # {} /\ P = Changed(o, s, CHOOSE r \in hit : TRUE)
      BY <1>3 DEF Perform
    <2>2. PICK old \in hit : P = Changed(o, s, old)
      BY <2>1
    <2>3. P = Replaced(o, old, Merged(old, s))
      BY <2>2 DEF Changed
    <2> QED BY <1>3, <2>3, AlteredGoes
  <1> QED BY <1>1, <1>2, <1>3

\* A column of the merged row.
LEMMA MergedIs ==
  ASSUME NEW old, NEW s
  PROVE  /\ Merged(old, s).table = old.table /\ Merged(old, s).id = old.id
         /\ Merged(old, s).flags = s.row.flags
         /\ DOMAIN Merged(old, s).val = DOMAIN s.row.val \cup DOMAIN old.val
         /\ \A c \in DOMAIN s.row.val : Merged(old, s).val[c] = s.row.val[c]
         /\ \A c \in DOMAIN old.val : c \notin DOMAIN s.row.val => Merged(old, s).val[c] = old.val[c]
  BY DEF Merged, Entry, Over

\* The columns of a merged row, NULL where there is none.
LEMMA MergedCol ==
  ASSUME NEW old, NEW s
  PROVE  /\ \A c \in DOMAIN s.row.val : Col(Merged(old, s), c) = s.row.val[c]
         /\ \A c : c \notin DOMAIN s.row.val => Col(Merged(old, s), c) = Col(old, c)
  BY MergedIs DEF Col

\* A statement that is not carried out changes no row.
LEMMA SkipSame ==
  ASSUME NEW o, NEW s, ~Asked(o, s)
  PROVE  Perform(o, s).rows = o.rows
  BY DEF Asked, Perform, Skip, Abort

\* An upsert that is carried out leaves its row, or one merged with it.
LEMMA UpdateIs ==
  ASSUME NEW o, NEW s, s.do = "update", ~o.aborted, Met(o.rows, s.needs), NEW P, P = Perform(o, s), ~P.aborted
  PROVE  s.row \in P.rows \/ \E old \in Clashing(o.rows, s.row) : Merged(old, s) \in P.rows
  <1>1. CASE Unclashed(o, s)
    <2>1. P = IF Dangling(o.rows, s.row) THEN Abort(o, TRUE) ELSE Holding(o.rows \cup {s.row})
      BY <1>1 DEF Perform, Inserted, Unclashed
    <2>2. ~Dangling(o.rows, s.row)
      BY <2>1 DEF Abort
    <2>3. s.row \in P.rows
      BY <2>1, <2>2 DEF Holding
    <2> QED BY <2>3
  <1>2. CASE ~Unclashed(o, s)
    <2>1. PICK old \in Clashing(o.rows, s.row) : P = Replaced(o, old, Merged(old, s))
      BY <1>2 DEF Perform, Inserted, Unclashed
    <2>2. Merged(old, s) \in P.rows
      BY <2>1 DEF Replaced, Holding
    <2> QED BY <2>2
  <1> QED BY <1>1, <1>2

\* An insert that names a row that is not there ends the transaction.
LEMMA InsertEnds ==
  ASSUME NEW o, NEW s, s.do = "insert", Met(o.rows, s.needs), Dangling(o.rows, s.row)
  PROVE  Perform(o, s).aborted
  <1>1. CASE o.aborted
    BY <1>1 DEF Perform
  <1>2. CASE ~o.aborted
    <2>1. Perform(o, s) = Inserted(o, s, Clashing(o.rows, s.row))
      BY <1>2 DEF Perform
    <2>2. Perform(o, s) = Abort(o, TRUE) \/ Perform(o, s) = Abort(o, FALSE)
      BY <2>1 DEF Inserted
    <2>3. Abort(o, TRUE).aborted /\ Abort(o, FALSE).aborted
      BY DEF Abort
    <2> QED BY <2>2, <2>3
  <1> QED BY <1>1, <1>2

\* A mark that is carried out replaces one row.
LEMMA MarkIs ==
  ASSUME NEW o, NEW s, s.do = "mark", ~o.aborted, Perform(o, s) # Skip(o, s)
  PROVE  \E old \in o.rows : Perform(o, s) = Replaced(o, old, Merged(old, s))
  <1> DEFINE P == Perform(o, s)
             hit == {r \in o.rows : Is(r, s.row.table, s.row.id)}
  <1>1. hit # {} /\ P = Changed(o, s, CHOOSE r \in hit : TRUE)
    BY DEF Perform
  <1>2. PICK old \in hit : P = Changed(o, s, old)
    BY <1>1
  <1>3. P = Replaced(o, old, Merged(old, s))
    BY <1>2 DEF Changed
  <1> QED BY <1>3

\* A mark brings no row that was not there.
LEMMA MarkBack ==
  ASSUME NEW o, NEW s, s.do = "mark", NEW P, P = Perform(o, s), NEW t, NEW id, There(P.rows, t, id)
  PROVE  There(o.rows, t, id)
  <1>1. CASE o.aborted
    BY <1>1, SkipSame DEF Asked
  <1>2. CASE ~o.aborted /\ P = Skip(o, s)
    BY <1>2 DEF Skip, Abort
  <1>3. CASE ~o.aborted /\ P # Skip(o, s)
    <2>3. PICK old \in o.rows : P = Replaced(o, old, Merged(old, s))
      BY <1>3, MarkIs
    <2>4. P.rows = (o.rows \ {old}) \cup {Merged(old, s)}
      BY <2>3 DEF Replaced, Holding
    <2>5. Merged(old, s).table = old.table /\ Merged(old, s).id = old.id /\ old \in o.rows
      BY MergedIs
    <2> QED BY <2>4, <2>5 DEF There, Is
  <1> QED BY <1>1, <1>2, <1>3

\* A row marked deleted is an heir of what it was.
LEMMA RemovedSound ==
  ASSUME NEW R, NEW n, NEW old, Sound(R, old, n), old.table \notin Static
  PROVE  Sound(R, Removed(old), n) /\ Heir(old, Removed(old))
  <1> DEFINE x == Removed(old)
  <1>1. x.table = old.table /\ x.id = old.id /\ x.val = old.val /\ x.flags \subseteq old.flags
    BY DEF Removed, Entry
  <1> HIDE DEF x
  <1>2. \A ref, q : Names(x, ref, q) <=> Names(old, ref, q)
    BY <1>1 DEF Names, Col
  <1>3. \A ref : Reaches(R, x, ref) <=> Reaches(R, old, ref)
    BY <1>1, <1>2 DEF Reaches, Col
  <1>4. ~Dangling(R, x)
    BY <1>1, <1>3, NotDangling DEF Sound
  <1>5. Typed(x)
    BY <1>1 DEF Sound, Typed, Static
  <1>6. Numbered(x, n) /\ Whole(R, x)
    BY <1>1 DEF Sound, Numbered, Whole
  <1>7. Sound(R, x, n) /\ Heir(old, x)
    BY <1>1, <1>4, <1>5, <1>6 DEF Sound, Heir
  <1> QED BY <1>7 DEF x

\* DELETE, by deleted_at or for good.
LEMMA DeleteGoes ==
  ASSUME NEW R, NEW n \in Int, NEW K, NEW o, Going(o, R, n, K), NEW s, s.do = "delete",
         s.row.table \notin Static, Schema[s.row.table].soft \/ s.row.table \in Erasable
  PROVE  LET P == Perform(o, s)
         IN /\ Going(P, R, n, K) /\ Later(o.rows, P.rows) /\ (o.aborted => P = o)
            /\ s.row.table = "page_relation_links" =>
                  \A t, id : t # "page_relation_links" /\ There(o.rows, t, id) => There(P.rows, t, id)
  <1> DEFINE P == Perform(o, s)
             hit == {r \in o.rows : Is(r, s.row.table, s.row.id)}
  <1>1. CASE o.aborted
    BY <1>1, LaterSelf DEF Perform
  <1>2. CASE ~o.aborted /\ P = Skip(o, s)
    <2>1. Going(P, R, n, K) /\ P.rows = o.rows
      <3>1. Going(Skip(o, s), R, n, K) /\ Skip(o, s).rows = o.rows
        BY Skipped
      <3> QED BY <1>2, <3>1
    <2> QED BY <1>2, <2>1, LaterSelf
  <1>3. CASE ~o.aborted /\ P # Skip(o, s)
    <2>1. hit # {} /\ P = Changed(o, s, CHOOSE r \in hit : TRUE)
      BY <1>3 DEF Perform
    <2>2. PICK old \in hit : P = Changed(o, s, old)
      BY <2>1
    <2>3. old \in o.rows /\ old.table = s.row.table /\ Sound(o.rows, old, n)
      BY DEF Is, Going, Fit
    <2>4. CASE Schema[old.table].soft
      <3>1. P = Replaced(o, old, Removed(old))
        BY <2>2, <2>4 DEF Changed
      <3>2. Going(P, R, n, K) /\ Kept(o.rows, P.rows)
        BY <2>3, <3>1, AlteredGoes, RemovedSound
      <3>3. \A t, id : There(o.rows, t, id) => There(P.rows, t, id)
        BY <3>2 DEF Kept, There, Is, Heir
      <3> QED BY <1>3, <3>2, <3>3, KeptLater
    <2>5. CASE ~Schema[old.table].soft
      <3> DEFINE S == (o.rows \ {old}) \ Cascaded(o.rows, old)
      <3>1. P = Without(o, S)
        BY <2>2, <2>5 DEF Changed
      <3>2. old.table \in Erasable
        BY <2>3, <2>5
      <3>3. Fit(S, n) /\ Later(o.rows, S)
        BY <2>3, <3>2, EraseKeeps DEF Going
      <3>4. P = Holding(S)
        BY <3>1, <3>3 DEF Without, Fit, Sound
      <3>5. \A r \in S : There(o.rows, r.table, r.id)
        BY DEF There, Is
      <3>6. Going(P, R, n, K)
        <4> HIDE DEF S
        <4> QED BY <3>3, <3>4, <3>5, GoingOn
      <3>7. ASSUME s.row.table = "page_relation_links", NEW r \in o.rows, r.table # "page_relation_links"
            PROVE  r \in S
        <4>1. r # old
          BY <2>3, <3>7
        <4>2. r \notin Cascaded(o.rows, old)
          BY <2>3, <3>2, <3>7, CascadedLinks DEF Going
        <4> QED BY <4>1, <4>2, <3>7
      <3>8. ASSUME s.row.table = "page_relation_links", NEW t, NEW id, t # "page_relation_links",
                   There(o.rows, t, id)
            PROVE  There(P.rows, t, id)
        <4>1. PICK r \in o.rows : Is(r, t, id)
          BY <3>8 DEF There
        <4>2. r \in S
          BY <3>7, <3>8, <4>1 DEF Is
        <4>3. P.rows = S
          BY <3>4 DEF Holding
        <4> QED BY <4>1, <4>2, <4>3 DEF There
      <3>9. Later(o.rows, P.rows)
        BY <3>3, <3>4 DEF Holding
      <3> QED BY <1>3, <3>6, <3>8, <3>9
    <2> QED BY <2>4, <2>5
  <1> QED BY <1>1, <1>2, <1>3

-----------------------------------------------------------------------------
(* A transaction is safe when nothing it does is refused for a reference and *)
(* the rows it leaves are fit and complete.                                 *)

Founding == {"organizations", "workspaces", "schedule_pin_requests"}

Safe(R, batch, n) ==
    /\ Run(R, batch).broken = FALSE
    /\ Fit(Run(R, batch).rows, n) /\ Complete(Run(R, batch).rows)

\* What rows were found together with stays, as none of it is erasable.
LEMMA CompleteStays ==
  ASSUME NEW R, NEW S, Complete(R), Later(R, S)
  PROVE  /\ \A r \in R : r.table = "organizations" => GivesDefault(S, "organization", r.id)
         /\ \A r \in R : r.table = "workspaces" => GivesDefault(S, "workspace", r.id)
         /\ \A r \in R : r.table = "schedule_pin_requests" => Noticed(S, r.id)
  <1>1. ASSUME NEW s \in {"organization", "workspace"}, NEW x, GivesDefault(R, s, x)
        PROVE  GivesDefault(S, s, x)
    BY <1>1, LaterStatic DEF GivesDefault, RoleTable, Static, RoleTables
  <1>2. \A x : Noticed(R, x) => Noticed(S, x)
    BY LaterStatic DEF Noticed, Static
  <1> QED BY <1>1, <1>2 DEF Complete

\* A batch whose outcome is fit, and complete unless it aborted, is safe.
LEMMA SafeEnd ==
  ASSUME NEW R, NEW n, NEW K, NEW batch, Fit(R, n), Complete(R), Going(Continue(Holding(R), batch), R, n, K),
         ~Continue(Holding(R), batch).aborted => Complete(Continue(Holding(R), batch).rows)
  PROVE  Safe(R, batch, n)
  <1> DEFINE o == Continue(Holding(R), batch)
  <1>1. Run(R, batch).broken = o.broken /\ Run(R, batch).rows = IF o.aborted THEN R ELSE o.rows
    BY DEF Run, Ended
  <1> QED BY <1>1 DEF Safe, Going

\* Most transactions found nothing.
LEMMA SafeWithout ==
  ASSUME NEW R, NEW n, NEW K, NEW batch, Fit(R, n), Complete(R), Going(Continue(Holding(R), batch), R, n, K),
         \A k \in K : k[1] \notin Founding
  PROVE  Safe(R, batch, n)
  <1> DEFINE S == Continue(Holding(R), batch).rows
  <1>1. Later(R, S)
    BY DEF Going
  <1>2. ASSUME NEW r \in S, r.table \in Founding PROVE \E q \in R : q.table = r.table /\ q.id = r.id
    <2>1. <<r.table, r.id>>[1] = r.table
      OBVIOUS
    <2>2. There(R, r.table, r.id)
      BY <1>2, <2>1 DEF Going
    <2> QED BY <2>2 DEF There, Is
  <1>3. Complete(S)
    BY <1>1, <1>2, CompleteStays DEF Complete, Founding
  <1> QED BY <1>3, SafeEnd

-----------------------------------------------------------------------------
(* What is sound to insert, table by table.                                 *)

\* An account that signs up.
LEMMA UserSound ==
  ASSUME NEW R, NEW n, NEW id, Number(id, n), NEW e
  PROVE  Sound(R, Entry("users", id, [email |-> e], {"live"}), n)
  <1> DEFINE x == Entry("users", id, [email |-> e], {"live"})
  <1>1. /\ x.table = "users" /\ x.id = id /\ x.flags = {"live"}
        /\ x.val = [email |-> e]
    BY DEF Entry
  <1> HIDE DEF x
  <1>3. ~Dangling(R, x)
    BY <1>1, UsersRefer, NotDangling
  <1>4. Typed(x) /\ Numbered(x, n) /\ Whole(R, x)
    BY <1>1, SchemaIs DEF Typed, Numbered, Whole, Filled, Flags, RoleTables
  <1> QED BY <1>3, <1>4 DEF Sound, x

\* A verification of an account there is.
LEMMA VerificationSound ==
  ASSUME NEW R, NEW n, NEW id, Number(id, n), NEW u, NEW k,
         There(R, "users", u)
  PROVE  Sound(R, Entry("account_verifications", id,
               [user_id |-> u, token_hash |-> k], {"live", "pending"}), n)
  <1> DEFINE x == Entry("account_verifications", id,
               [user_id |-> u, token_hash |-> k], {"live", "pending"})
  <1>1. /\ x.table = "account_verifications" /\ x.id = id /\ x.flags = {"live", "pending"}
        /\ x.val = [user_id |-> u, token_hash |-> k]
    BY DEF Entry
  <1> HIDE DEF x
  <1>2. Col(x, "user_id") = u /\ Col(x, "invite_id") = Null
    BY <1>1 DEF Col
  <1>3. ~Dangling(R, x)
    BY <1>1, <1>2, VerificationsPlaced
  <1>4. Typed(x) /\ Numbered(x, n) /\ Whole(R, x)
    BY <1>1, SchemaIs DEF Typed, Numbered, Whole, Filled, Flags, RoleTables
  <1> QED BY <1>3, <1>4 DEF Sound, x

\* An organization of an account there is.
LEMMA OrganizationSound ==
  ASSUME NEW R, NEW n, NEW id, Number(id, n), NEW u,
         There(R, "users", u)
  PROVE  Sound(R, Entry("organizations", id, [owner_id |-> u], {"live"}), n)
  <1> DEFINE x == Entry("organizations", id, [owner_id |-> u], {"live"})
  <1>1. /\ x.table = "organizations" /\ x.id = id /\ x.flags = {"live"}
        /\ x.val = [owner_id |-> u]
    BY DEF Entry
  <1> HIDE DEF x
  <1>2. Col(x, "owner_id") = u
    BY <1>1 DEF Col
  <1>3. ~Dangling(R, x)
    BY <1>1, <1>2, OrganizationsPlaced
  <1>4. Typed(x) /\ Numbered(x, n) /\ Whole(R, x)
    BY <1>1, SchemaIs DEF Typed, Numbered, Whole, Filled, Flags, RoleTables
  <1> QED BY <1>3, <1>4 DEF Sound, x

\* A workspace of an account there is.
LEMMA WorkspaceSound ==
  ASSUME NEW R, NEW n, NEW id, Number(id, n), NEW u,
         There(R, "users", u)
  PROVE  Sound(R, Entry("workspaces", id, [created_by_user_id |-> u], {"live"}), n)
  <1> DEFINE x == Entry("workspaces", id, [created_by_user_id |-> u], {"live"})
  <1>1. /\ x.table = "workspaces" /\ x.id = id /\ x.flags = {"live"}
        /\ x.val = [created_by_user_id |-> u]
    BY DEF Entry
  <1> HIDE DEF x
  <1>2. Col(x, "created_by_user_id") = u /\ Col(x, "organization_id") = Null
    BY <1>1 DEF Col
  <1>3. ~Dangling(R, x)
    BY <1>1, <1>2, WorkspacesPlaced
  <1>4. Typed(x) /\ Numbered(x, n) /\ Whole(R, x)
    BY <1>1, SchemaIs DEF Typed, Numbered, Whole, Filled, Flags, RoleTables
  <1> QED BY <1>3, <1>4 DEF Sound, x

\* A workspace of an organization there is.
LEMMA InnerWorkspaceSound ==
  ASSUME NEW R, NEW n, NEW id, Number(id, n), NEW o, NEW u,
         There(R, "users", u),
         There(R, "organizations", o)
  PROVE  Sound(R, Entry("workspaces", id,
               [organization_id |-> o, created_by_user_id |-> u], {"live"}), n)
  <1> DEFINE x == Entry("workspaces", id,
               [organization_id |-> o, created_by_user_id |-> u], {"live"})
  <1>1. /\ x.table = "workspaces" /\ x.id = id /\ x.flags = {"live"}
        /\ x.val = [organization_id |-> o, created_by_user_id |-> u]
    BY DEF Entry
  <1> HIDE DEF x
  <1>2. Col(x, "created_by_user_id") = u /\ Col(x, "organization_id") = o
    BY <1>1 DEF Col
  <1>3. ~Dangling(R, x)
    BY <1>1, <1>2, WorkspacesPlaced
  <1>4. Typed(x) /\ Numbered(x, n) /\ Whole(R, x)
    BY <1>1, SchemaIs DEF Typed, Numbered, Whole, Filled, Flags, RoleTables
  <1> QED BY <1>3, <1>4 DEF Sound, x

\* A page of an account there is.
LEMMA PageSound ==
  ASSUME NEW R, NEW n, NEW id, Number(id, n), NEW u,
         There(R, "users", u)
  PROVE  Sound(R, Entry("pages", id, [owner_id |-> u], {"live"}), n)
  <1> DEFINE x == Entry("pages", id, [owner_id |-> u], {"live"})
  <1>1. /\ x.table = "pages" /\ x.id = id /\ x.flags = {"live"}
        /\ x.val = [owner_id |-> u]
    BY DEF Entry
  <1> HIDE DEF x
  <1>2. Col(x, "owner_id") = u
    BY <1>1 DEF Col
  <1>3. ~Dangling(R, x)
    BY <1>1, <1>2, PagesPlaced
  <1>4. Typed(x) /\ Numbered(x, n) /\ Whole(R, x)
    BY <1>1, SchemaIs DEF Typed, Numbered, Whole, Filled, Flags, RoleTables
  <1> QED BY <1>3, <1>4 DEF Sound, x

\* A member of a workspace with a role of it and a root page of their own.
LEMMA WorkspaceMemberSound ==
  ASSUME NEW R, NEW n, NEW id, Number(id, n), NEW y, NEW u, NEW role, NEW root,
         There(R, "workspaces", y),
         There(R, "users", u),
         Fills(R, "workspace_roles", role, "workspace_id", y),
         There(R, "pages", root),
         \E p \in R : Is(p, "pages", root) /\ p.val.owner_id = u
  PROVE  Sound(R, Entry("workspace_members", id,
               [workspace_id |-> y, user_id |-> u, workspace_member_role_id |-> role, page_root_id |-> root], {"live"}), n)
  <1> DEFINE x == Entry("workspace_members", id,
               [workspace_id |-> y, user_id |-> u, workspace_member_role_id |-> role, page_root_id |-> root], {"live"})
  <1>1. /\ x.table = "workspace_members" /\ x.id = id /\ x.flags = {"live"}
        /\ x.val = [workspace_id |-> y, user_id |-> u, workspace_member_role_id |-> role, page_root_id |-> root]
    BY DEF Entry
  <1> HIDE DEF x
  <1>2. /\ Col(x, "workspace_id") = y /\ Col(x, "user_id") = u
        /\ Col(x, "workspace_member_role_id") = role /\ Col(x, "page_root_id") = root
    BY <1>1 DEF Col
  <1>3. ~Dangling(R, x)
    BY <1>1, <1>2, WorkspaceMembersPlaced
  <1>4. Typed(x) /\ Numbered(x, n) /\ Whole(R, x)
    BY <1>1, SchemaIs DEF Typed, Numbered, Whole, Filled, Flags, RoleTables
  <1> QED BY <1>3, <1>4 DEF Sound, x

\* The first member of a workspace, who has no role.
LEMMA FirstMemberSound ==
  ASSUME NEW R, NEW n, NEW id, Number(id, n), NEW y, NEW u, NEW root,
         There(R, "workspaces", y),
         There(R, "users", u),
         There(R, "pages", root),
         \E p \in R : Is(p, "pages", root) /\ p.val.owner_id = u
  PROVE  Sound(R, Entry("workspace_members", id,
               [workspace_id |-> y, user_id |-> u, page_root_id |-> root], {"live"}), n)
  <1> DEFINE x == Entry("workspace_members", id,
               [workspace_id |-> y, user_id |-> u, page_root_id |-> root], {"live"})
  <1>1. /\ x.table = "workspace_members" /\ x.id = id /\ x.flags = {"live"}
        /\ x.val = [workspace_id |-> y, user_id |-> u, page_root_id |-> root]
    BY DEF Entry
  <1> HIDE DEF x
  <1>2. /\ Col(x, "workspace_id") = y /\ Col(x, "user_id") = u
        /\ Col(x, "page_root_id") = root /\ Col(x, "workspace_member_role_id") = Null
    BY <1>1 DEF Col
  <1>3. ~Dangling(R, x)
    BY <1>1, <1>2, WorkspaceMembersPlaced DEF Fills
  <1>4. Typed(x) /\ Numbered(x, n) /\ Whole(R, x)
    BY <1>1, SchemaIs DEF Typed, Numbered, Whole, Filled, Flags, RoleTables
  <1> QED BY <1>3, <1>4 DEF Sound, x

\* An invite to a role of its scope.
LEMMA InviteSound ==
  ASSUME NEW R, NEW n, NEW id, Number(id, n), NEW u, NEW k, NEW s, NEW y, NEW role,
         There(R, "users", u),
         s \in ScopeKinds,
         \E q \in R : Is(q, RoleTable[s], role) /\ q.val[ScopeColumn[s]] = y
  PROVE  Sound(R, Entry("access_invites", id,
               [author_id |-> u, token_hash |-> k, scope |-> s, scope_id |-> y, role_id |-> role], {"live", "pending"}), n)
  <1> DEFINE x == Entry("access_invites", id,
               [author_id |-> u, token_hash |-> k, scope |-> s, scope_id |-> y, role_id |-> role], {"live", "pending"})
  <1>1. /\ x.table = "access_invites" /\ x.id = id /\ x.flags = {"live", "pending"}
        /\ x.val = [author_id |-> u, token_hash |-> k, scope |-> s, scope_id |-> y, role_id |-> role]
    BY DEF Entry
  <1> HIDE DEF x
  <1>2. Col(x, "author_id") = u
    BY <1>1 DEF Col
  <1>3. ~Dangling(R, x)
    BY <1>1, <1>2, AccessInvitesPlaced
  <1>4. Typed(x) /\ Numbered(x, n) /\ Whole(R, x)
    BY <1>1, SchemaIs DEF Typed, Numbered, Whole, Filled, Flags, RoleTables
  <1> QED BY <1>3, <1>4 DEF Sound, x

\* The acceptance of an invite there is.
LEMMA AcceptanceSound ==
  ASSUME NEW R, NEW n, NEW id, Number(id, n), NEW i, NEW u,
         There(R, "users", u),
         There(R, "access_invites", i)
  PROVE  Sound(R, Entry("access_invite_acceptances", id,
               [invite_id |-> i, user_id |-> u], {"live"}), n)
  <1> DEFINE x == Entry("access_invite_acceptances", id,
               [invite_id |-> i, user_id |-> u], {"live"})
  <1>1. /\ x.table = "access_invite_acceptances" /\ x.id = id /\ x.flags = {"live"}
        /\ x.val = [invite_id |-> i, user_id |-> u]
    BY DEF Entry
  <1> HIDE DEF x
  <1>2. Col(x, "user_id") = u /\ Col(x, "invite_id") = i
    BY <1>1 DEF Col
  <1>3. ~Dangling(R, x)
    BY <1>1, <1>2, AcceptancesPlaced
  <1>4. Typed(x) /\ Numbered(x, n) /\ Whole(R, x)
    BY <1>1, SchemaIs DEF Typed, Numbered, Whole, Filled, Flags, RoleTables
  <1> QED BY <1>3, <1>4 DEF Sound, x

\* An edge to a page with a larger id and a role.
LEMMA EdgeSound ==
  ASSUME NEW R, NEW n, NEW id, Number(id, n), NEW p, NEW c,
         There(R, "pages", p),
         There(R, "pages", c),
         p \in Int, c \in Int, p < c,
         \E q \in R : q.table = "page_roles" /\ q.val.page_id = c
  PROVE  Sound(R, Entry("page_edges", id, [parent_id |-> p, child_id |-> c], {"live"}), n)
  <1> DEFINE x == Entry("page_edges", id, [parent_id |-> p, child_id |-> c], {"live"})
  <1>1. /\ x.table = "page_edges" /\ x.id = id /\ x.flags = {"live"}
        /\ x.val = [parent_id |-> p, child_id |-> c]
    BY DEF Entry
  <1> HIDE DEF x
  <1>2. Col(x, "parent_id") = p /\ Col(x, "child_id") = c
    BY <1>1 DEF Col
  <1>3. ~Dangling(R, x)
    BY <1>1, <1>2, EdgesPlaced
  <1>4. Typed(x) /\ Numbered(x, n) /\ Whole(R, x)
    BY <1>1, SchemaIs DEF Typed, Numbered, Whole, Filled, Flags, RoleTables
  <1> QED BY <1>3, <1>4 DEF Sound, x

\* A column of a page there is.
LEMMA ColumnSound ==
  ASSUME NEW R, NEW n, NEW id, Number(id, n), NEW p,
         There(R, "pages", p)
  PROVE  Sound(R, Entry("page_columns", id, [parent_id |-> p], {"live"}), n)
  <1> DEFINE x == Entry("page_columns", id, [parent_id |-> p], {"live"})
  <1>1. /\ x.table = "page_columns" /\ x.id = id /\ x.flags = {"live"}
        /\ x.val = [parent_id |-> p]
    BY DEF Entry
  <1> HIDE DEF x
  <1>2. Col(x, "parent_id") = p
    BY <1>1 DEF Col
  <1>3. ~Dangling(R, x)
    BY <1>1, <1>2, ColumnsPlaced
  <1>4. Typed(x) /\ Numbered(x, n) /\ Whole(R, x)
    BY <1>1, SchemaIs DEF Typed, Numbered, Whole, Filled, Flags, RoleTables
  <1> QED BY <1>3, <1>4 DEF Sound, x

\* A link of a cell to a page.
LEMMA LinkSound ==
  ASSUME NEW R, NEW n, NEW id, Number(id, n), NEW v, NEW p,
         There(R, "page_columns_values", v),
         There(R, "pages", p)
  PROVE  Sound(R, Entry("page_relation_links", id,
               [source_cell_id |-> v, target_page_id |-> p], {"live"}), n)
  <1> DEFINE x == Entry("page_relation_links", id,
               [source_cell_id |-> v, target_page_id |-> p], {"live"})
  <1>1. /\ x.table = "page_relation_links" /\ x.id = id /\ x.flags = {"live"}
        /\ x.val = [source_cell_id |-> v, target_page_id |-> p]
    BY DEF Entry
  <1> HIDE DEF x
  <1>2. Col(x, "source_cell_id") = v /\ Col(x, "target_page_id") = p
    BY <1>1 DEF Col
  <1>3. ~Dangling(R, x)
    BY <1>1, <1>2, LinksPlaced
  <1>4. Typed(x) /\ Numbered(x, n) /\ Whole(R, x)
    BY <1>1, SchemaIs DEF Typed, Numbered, Whole, Filled, Flags, RoleTables
  <1> QED BY <1>3, <1>4 DEF Sound, x

\* The rank of an edge.
LEMMA RankSound ==
  ASSUME NEW R, NEW n, NEW id, Number(id, n), NEW e, NEW view,
         There(R, "page_edges", e)
  PROVE  Sound(R, Entry("page_view_row_order", id,
               [edge_id |-> e, view_id |-> view], {"live"}), n)
  <1> DEFINE x == Entry("page_view_row_order", id,
               [edge_id |-> e, view_id |-> view], {"live"})
  <1>1. /\ x.table = "page_view_row_order" /\ x.id = id /\ x.flags = {"live"}
        /\ x.val = [edge_id |-> e, view_id |-> view]
    BY DEF Entry
  <1> HIDE DEF x
  <1>2. Col(x, "edge_id") = e
    BY <1>1 DEF Col
  <1>3. ~Dangling(R, x)
    BY <1>1, <1>2, RowOrderPlaced
  <1>4. Typed(x) /\ Numbered(x, n) /\ Whole(R, x)
    BY <1>1, SchemaIs DEF Typed, Numbered, Whole, Filled, Flags, RoleTables
  <1> QED BY <1>3, <1>4 DEF Sound, x

\* The document of a page.
LEMMA BlockSound ==
  ASSUME NEW R, NEW n, NEW id, Number(id, n), NEW p,
         There(R, "pages", p)
  PROVE  Sound(R, Entry("page_blocks", id, [page_id |-> p], {"live"}), n)
  <1> DEFINE x == Entry("page_blocks", id, [page_id |-> p], {"live"})
  <1>1. /\ x.table = "page_blocks" /\ x.id = id /\ x.flags = {"live"}
        /\ x.val = [page_id |-> p]
    BY DEF Entry
  <1> HIDE DEF x
  <1>2. Col(x, "page_id") = p
    BY <1>1 DEF Col
  <1>3. ~Dangling(R, x)
    BY <1>1, <1>2, BlocksPlaced
  <1>4. Typed(x) /\ Numbered(x, n) /\ Whole(R, x)
    BY <1>1, SchemaIs DEF Typed, Numbered, Whole, Filled, Flags, RoleTables
  <1> QED BY <1>3, <1>4 DEF Sound, x

\* A favourite.
LEMMA FavoriteSound ==
  ASSUME NEW R, NEW n, NEW id, Number(id, n), NEW u, NEW p,
         There(R, "users", u),
         There(R, "pages", p)
  PROVE  Sound(R, Entry("page_favorites", id, [user_id |-> u, page_id |-> p], {"live"}), n)
  <1> DEFINE x == Entry("page_favorites", id, [user_id |-> u, page_id |-> p], {"live"})
  <1>1. /\ x.table = "page_favorites" /\ x.id = id /\ x.flags = {"live"}
        /\ x.val = [user_id |-> u, page_id |-> p]
    BY DEF Entry
  <1> HIDE DEF x
  <1>2. Col(x, "user_id") = u /\ Col(x, "page_id") = p
    BY <1>1 DEF Col
  <1>3. ~Dangling(R, x)
    BY <1>1, <1>2, FavoritesPlaced
  <1>4. Typed(x) /\ Numbered(x, n) /\ Whole(R, x)
    BY <1>1, SchemaIs DEF Typed, Numbered, Whole, Filled, Flags, RoleTables
  <1> QED BY <1>3, <1>4 DEF Sound, x

\* A published form.
LEMMA PublicationSound ==
  ASSUME NEW R, NEW n, NEW id, Number(id, n), NEW p, NEW view, NEW u, NEW k,
         There(R, "pages", p),
         There(R, "users", u),
         Key(k, n)
  PROVE  Sound(R, Entry("page_form_publications", id,
               [page_id |-> p, view_id |-> view, created_by_user_id |-> u, submit_token_hash |-> k, review_token_hash |-> k], {"live"}), n)
  <1> DEFINE x == Entry("page_form_publications", id,
               [page_id |-> p, view_id |-> view, created_by_user_id |-> u, submit_token_hash |-> k, review_token_hash |-> k], {"live"})
  <1>1. /\ x.table = "page_form_publications" /\ x.id = id /\ x.flags = {"live"}
        /\ x.val = [page_id |-> p, view_id |-> view, created_by_user_id |-> u, submit_token_hash |-> k, review_token_hash |-> k]
    BY DEF Entry
  <1> HIDE DEF x
  <1>2. Col(x, "page_id") = p /\ Col(x, "created_by_user_id") = u
    BY <1>1 DEF Col
  <1>3. ~Dangling(R, x)
    BY <1>1, <1>2, PublicationsPlaced
  <1>4. Typed(x) /\ Numbered(x, n) /\ Whole(R, x)
    BY <1>1, SchemaIs DEF Typed, Numbered, Whole, Filled, Flags, RoleTables
  <1> QED BY <1>3, <1>4 DEF Sound, x

\* A row of the ledger, of a response that is below the page of the form.
LEMMA SubmissionSound ==
  ASSUME NEW R, NEW n, NEW id, Number(id, n), NEW f, NEW p, NEW k,
         There(R, "page_form_publications", f),
         There(R, "pages", p),
         \E e, g \in R : /\ e.table = "page_edges" /\ e.val.child_id = p
                         /\ Is(g, "page_form_publications", f) /\ e.val.parent_id = g.val.page_id
  PROVE  Sound(R, Entry("page_form_submissions", id,
               [publication_id |-> f, response_page_id |-> p, client_request_id |-> k], {"live"}), n)
  <1> DEFINE x == Entry("page_form_submissions", id,
               [publication_id |-> f, response_page_id |-> p, client_request_id |-> k], {"live"})
  <1>1. /\ x.table = "page_form_submissions" /\ x.id = id /\ x.flags = {"live"}
        /\ x.val = [publication_id |-> f, response_page_id |-> p, client_request_id |-> k]
    BY DEF Entry
  <1> HIDE DEF x
  <1>2. Col(x, "publication_id") = f /\ Col(x, "response_page_id") = p
    BY <1>1 DEF Col
  <1>3. ~Dangling(R, x)
    BY <1>1, <1>2, SubmissionsPlaced
  <1>4. Typed(x) /\ Numbered(x, n) /\ Whole(R, x)
    BY <1>1, SchemaIs DEF Typed, Numbered, Whole, Filled, Flags, RoleTables
  <1> QED BY <1>3, <1>4 DEF Sound, x

\* A pin.
LEMMA PinnedSound ==
  ASSUME NEW R, NEW n, NEW id, Number(id, n), NEW w, NEW p, NEW u, NEW c,
         There(R, "workspaces", w),
         There(R, "pages", p),
         There(R, "users", u),
         There(R, "page_columns", c)
  PROVE  Sound(R, Entry("pinned_schedule_pages", id,
               [workspace_id |-> w, page_id |-> p, pinned_by_user_id |-> u, date_column_id |-> c], {"live"}), n)
  <1> DEFINE x == Entry("pinned_schedule_pages", id,
               [workspace_id |-> w, page_id |-> p, pinned_by_user_id |-> u, date_column_id |-> c], {"live"})
  <1>1. /\ x.table = "pinned_schedule_pages" /\ x.id = id /\ x.flags = {"live"}
        /\ x.val = [workspace_id |-> w, page_id |-> p, pinned_by_user_id |-> u, date_column_id |-> c]
    BY DEF Entry
  <1> HIDE DEF x
  <1>2. /\ Col(x, "workspace_id") = w /\ Col(x, "page_id") = p
        /\ Col(x, "pinned_by_user_id") = u /\ Col(x, "date_column_id") = c
        /\ Col(x, "color_column_id") = Null
    BY <1>1 DEF Col
  <1>3. ~Dangling(R, x)
    BY <1>1, <1>2, PinsPlaced
  <1>4. Typed(x) /\ Numbered(x, n) /\ Whole(R, x)
    BY <1>1, SchemaIs DEF Typed, Numbered, Whole, Filled, Flags, RoleTables
  <1> QED BY <1>3, <1>4 DEF Sound, x

\* A request for a pin.
LEMMA PinRequestSound ==
  ASSUME NEW R, NEW n, NEW id, Number(id, n), NEW w, NEW p, NEW u, NEW v, NEW c,
         There(R, "workspaces", w),
         There(R, "pages", p),
         There(R, "users", u),
         There(R, "users", v),
         There(R, "page_columns", c)
  PROVE  Sound(R, Entry("schedule_pin_requests", id,
               [workspace_id |-> w, page_id |-> p, requested_by_user_id |-> u, recipient_user_id |-> v, date_column_id |-> c], {"live", "pending"}), n)
  <1> DEFINE x == Entry("schedule_pin_requests", id,
               [workspace_id |-> w, page_id |-> p, requested_by_user_id |-> u, recipient_user_id |-> v, date_column_id |-> c], {"live", "pending"})
  <1>1. /\ x.table = "schedule_pin_requests" /\ x.id = id /\ x.flags = {"live", "pending"}
        /\ x.val = [workspace_id |-> w, page_id |-> p, requested_by_user_id |-> u, recipient_user_id |-> v, date_column_id |-> c]
    BY DEF Entry
  <1> HIDE DEF x
  <1>2. /\ Col(x, "workspace_id") = w /\ Col(x, "page_id") = p
        /\ Col(x, "requested_by_user_id") = u /\ Col(x, "recipient_user_id") = v
        /\ Col(x, "date_column_id") = c /\ Col(x, "color_column_id") = Null
    BY <1>1 DEF Col
  <1>3. ~Dangling(R, x)
    BY <1>1, <1>2, PinRequestsPlaced
  <1>4. Typed(x) /\ Numbered(x, n) /\ Whole(R, x)
    BY <1>1, SchemaIs DEF Typed, Numbered, Whole, Filled, Flags, RoleTables
  <1> QED BY <1>3, <1>4 DEF Sound, x

\* A notice to an account.
LEMMA NoticeSound ==
  ASSUME NEW R, NEW n, NEW id, Number(id, n), NEW w, NEW u, NEW by, NEW k,
         There(R, "workspaces", w),
         There(R, "users", u),
         by = Null \/ There(R, "users", by)
  PROVE  Sound(R, Entry("notifications", id,
               [workspace_id |-> w, recipient_user_id |-> u, actor_user_id |-> by, dedupe_key |-> k], {"live"}), n)
  <1> DEFINE x == Entry("notifications", id,
               [workspace_id |-> w, recipient_user_id |-> u, actor_user_id |-> by, dedupe_key |-> k], {"live"})
  <1>1. /\ x.table = "notifications" /\ x.id = id /\ x.flags = {"live"}
        /\ x.val = [workspace_id |-> w, recipient_user_id |-> u, actor_user_id |-> by, dedupe_key |-> k]
    BY DEF Entry
  <1> HIDE DEF x
  <1>2. /\ Col(x, "workspace_id") = w /\ Col(x, "recipient_user_id") = u
        /\ Col(x, "actor_user_id") = by
    BY <1>1 DEF Col
  <1>3. ~Dangling(R, x)
    BY <1>1, <1>2, NotificationsPlaced
  <1>4. Typed(x) /\ Numbered(x, n) /\ Whole(R, x)
    BY <1>1, SchemaIs DEF Typed, Numbered, Whole, Filled, Flags, RoleTables
  <1> QED BY <1>3, <1>4 DEF Sound, x

\* A delivery of a notice.
LEMMA DeliverySound ==
  ASSUME NEW R, NEW n, NEW id, Number(id, n), NEW m, NEW k,
         There(R, "notifications", m)
  PROVE  Sound(R, Entry("notification_deliveries", id,
               [notification_id |-> m, channel |-> k], {"live"}), n)
  <1> DEFINE x == Entry("notification_deliveries", id,
               [notification_id |-> m, channel |-> k], {"live"})
  <1>1. /\ x.table = "notification_deliveries" /\ x.id = id /\ x.flags = {"live"}
        /\ x.val = [notification_id |-> m, channel |-> k]
    BY DEF Entry
  <1> HIDE DEF x
  <1>2. Col(x, "notification_id") = m
    BY <1>1 DEF Col
  <1>3. ~Dangling(R, x)
    BY <1>1, <1>2, DeliveriesPlaced
  <1>4. Typed(x) /\ Numbered(x, n) /\ Whole(R, x)
    BY <1>1, SchemaIs DEF Typed, Numbered, Whole, Filled, Flags, RoleTables
  <1> QED BY <1>3, <1>4 DEF Sound, x

\* A cell where a column of the parent crosses the page.
LEMMA CellSound ==
  ASSUME NEW R, NEW n, NEW id, NEW p, NEW c,
         There(R, "pages", p),
         There(R, "page_columns", c),
         id = CellId(p, [id |-> c]),
         Number(p, n), Number(c, n),
         \E e, g \in R : /\ e.table = "page_edges" /\ e.val.child_id = p
                         /\ Is(g, "page_columns", c) /\ g.val.parent_id = e.val.parent_id
  PROVE  Sound(R, Entry("page_columns_values", id,
               [page_id |-> p, page_column_id |-> c], {"live"}), n)
  <1> DEFINE x == Entry("page_columns_values", id,
               [page_id |-> p, page_column_id |-> c], {"live"})
  <1>1. /\ x.table = "page_columns_values" /\ x.id = id /\ x.flags = {"live"}
        /\ x.val = [page_id |-> p, page_column_id |-> c]
    BY DEF Entry
  <1> HIDE DEF x
  <1>2. Col(x, "page_id") = p /\ Col(x, "page_column_id") = c
    BY <1>1 DEF Col
  <1>3. ~Dangling(R, x)
    BY <1>1, <1>2, CellsPlaced
  <1>4. Typed(x) /\ Numbered(x, n) /\ Whole(R, x)
    BY <1>1, SchemaIs DEF Typed, Numbered, Whole, Filled, Flags, RoleTables
  <1> QED BY <1>3, <1>4 DEF Sound, x

\* The rows of the three kinds of scope.
LEMMA Kinds ==
  /\ \A s \in ScopeKinds : s \in {"organization", "workspace", "page"}
  /\ ScopeTable["organization"] = "organizations" /\ ScopeTable["workspace"] = "workspaces"
  /\ ScopeTable["page"] = "pages"
  /\ RoleTable["organization"] = "organization_roles" /\ RoleTable["workspace"] = "workspace_roles"
  /\ RoleTable["page"] = "page_roles"
  /\ MemberTable["organization"] = "organization_members" /\ MemberTable["workspace"] = "workspace_members"
  /\ MemberTable["page"] = "page_collaborators"
  /\ RequestTable["organization"] = "organization_pending_requests"
  /\ RequestTable["workspace"] = "workspace_pending_requests"
  /\ RequestTable["page"] = "page_pending_requests"
  /\ ScopeColumn["organization"] = "organization_id" /\ ScopeColumn["workspace"] = "workspace_id"
  /\ ScopeColumn["page"] = "page_id"
  /\ MemberRole["organization"] = "organization_member_role_id"
  /\ MemberRole["workspace"] = "workspace_member_role_id" /\ MemberRole["page"] = "page_member_role_id"
  BY DEF ScopeKinds, ScopeTable, RoleTable, MemberTable, RequestTable, ScopeColumn, MemberRole

\* What roles, requests and members refer to, whatever the kind of their scope.
LEMMA ScopeRefersTo ==
  ASSUME NEW R, NEW s \in ScopeKinds, NEW r
  PROVE  /\ r.table = RoleTable[s] => (~Dangling(R, r) <=> There(R, ScopeTable[s], Col(r, ScopeColumn[s])))
         /\ r.table = RequestTable[s] =>
               (~Dangling(R, r) <=>
                   /\ There(R, ScopeTable[s], Col(r, ScopeColumn[s]))
                   /\ There(R, "users", Col(r, "requester_id"))
                   /\ Col(r, "decided_by") = Null \/ There(R, "users", Col(r, "decided_by"))
                   /\ Col(r, "accepted_by") = Null \/ There(R, "users", Col(r, "accepted_by"))
                   /\ Fills(R, RoleTable[s], Col(r, "role_id"), ScopeColumn[s], Col(r, ScopeColumn[s])))
         /\ r.table = MemberTable[s] /\ s # "workspace" =>
               (~Dangling(R, r) <=>
                   /\ There(R, ScopeTable[s], Col(r, ScopeColumn[s]))
                   /\ There(R, "users", Col(r, "user_id"))
                   /\ Fills(R, RoleTable[s], Col(r, MemberRole[s]), ScopeColumn[s], Col(r, ScopeColumn[s])))
  <1>1. CASE s = "organization"
    BY <1>1, Kinds, OrganizationRolesPlaced, OrganizationRequestsPlaced, OrganizationMembersPlaced
  <1>2. CASE s = "workspace"
    BY <1>2, Kinds, WorkspaceRolesPlaced, WorkspaceRequestsPlaced
  <1>3. CASE s = "page"
    BY <1>3, Kinds, PageRolesPlaced, PageRequestsPlaced, CollaboratorsPlaced
  <1> QED BY <1>1, <1>2, <1>3, Kinds

\* A role of a scope there is.
LEMMA RoleSound ==
  ASSUME NEW R, NEW n, NEW id, Number(id, n), NEW s \in ScopeKinds, NEW y, There(R, ScopeTable[s], y),
         NEW k, Key(k, n), NEW flags, "live" \in flags, flags \subseteq Flags
  PROVE  Sound(R, Entry(RoleTable[s], id, Of(s, y, [system_key |-> k]), flags), n)
  <1> DEFINE x == Entry(RoleTable[s], id, Of(s, y, [system_key |-> k]), flags)
  <1>1. /\ x.table = RoleTable[s] /\ x.id = id /\ x.flags = flags
        /\ DOMAIN x.val = {ScopeColumn[s], "system_key"} /\ x.val[ScopeColumn[s]] = y
        /\ x.val.system_key = k
    <2>1. x.table = RoleTable[s] /\ x.id = id /\ x.flags = flags /\ x.val = Of(s, y, [system_key |-> k])
      BY DEF Entry
    <2>2. "system_key" # ScopeColumn[s]
      BY Kinds
    <2> DEFINE own == [system_key |-> k]
    <2>3. DOMAIN own = {"system_key"} /\ own.system_key = k /\ x.val = Of(s, y, own)
      BY <2>1
    <2> HIDE DEF x, own
    <2>4. /\ DOMAIN Of(s, y, own) = {ScopeColumn[s]} \cup DOMAIN own
          /\ Of(s, y, own)[ScopeColumn[s]] = y
          /\ \A c \in DOMAIN own : c # ScopeColumn[s] => Of(s, y, own)[c] = own[c]
      BY DEF Of, Over
    <2> QED BY <2>1, <2>2, <2>3, <2>4
  <1> HIDE DEF x
  <1>2. Col(x, ScopeColumn[s]) = y
    BY <1>1 DEF Col
  <1>3. ~Dangling(R, x)
    BY <1>1, <1>2, ScopeRefersTo
  <1>4. Typed(x) /\ Numbered(x, n) /\ Whole(R, x)
    <2>1. CASE s = "organization"
      BY <1>1, <2>1, Kinds, SchemaIs DEF Typed, Numbered, Whole, Filled, RoleTables
    <2>2. CASE s = "workspace"
      BY <1>1, <2>2, Kinds, SchemaIs DEF Typed, Numbered, Whole, Filled, RoleTables
    <2>3. CASE s = "page"
      BY <1>1, <2>3, Kinds, SchemaIs DEF Typed, Numbered, Whole, Filled, RoleTables
    <2> QED BY <2>1, <2>2, <2>3, Kinds
  <1> QED BY <1>3, <1>4 DEF Sound, x

\* A request of an account to enter a scope.
LEMMA RequestSound ==
  ASSUME NEW R, NEW n, NEW id, Number(id, n), NEW s \in ScopeKinds, NEW y, There(R, ScopeTable[s], y),
         NEW u, There(R, "users", u)
  PROVE  Sound(R, Entry(RequestTable[s], id, Of(s, y, [requester_id |-> u]), {"live", "pending"}), n)
  <1> DEFINE x == Entry(RequestTable[s], id, Of(s, y, [requester_id |-> u]), {"live", "pending"})
  <1>1. /\ x.table = RequestTable[s] /\ x.id = id /\ x.flags = {"live", "pending"}
        /\ DOMAIN x.val = {ScopeColumn[s], "requester_id"} /\ x.val[ScopeColumn[s]] = y
        /\ x.val.requester_id = u
    <2>1. x.table = RequestTable[s] /\ x.id = id /\ x.flags = {"live", "pending"}
          /\ x.val = Of(s, y, [requester_id |-> u])
      BY DEF Entry
    <2>2. "requester_id" # ScopeColumn[s]
      BY Kinds
    <2> DEFINE own == [requester_id |-> u]
    <2>3. DOMAIN own = {"requester_id"} /\ own.requester_id = u /\ x.val = Of(s, y, own)
      BY <2>1
    <2> HIDE DEF x, own
    <2>4. /\ DOMAIN Of(s, y, own) = {ScopeColumn[s]} \cup DOMAIN own
          /\ Of(s, y, own)[ScopeColumn[s]] = y
          /\ \A c \in DOMAIN own : c # ScopeColumn[s] => Of(s, y, own)[c] = own[c]
      BY DEF Of, Over
    <2> QED BY <2>1, <2>2, <2>3, <2>4
  <1> HIDE DEF x
  <1>2. Col(x, ScopeColumn[s]) = y /\ Col(x, "requester_id") = u
        /\ Col(x, "decided_by") = Null /\ Col(x, "accepted_by") = Null /\ Col(x, "role_id") = Null
    BY <1>1, Kinds DEF Col
  <1>3. ~Dangling(R, x)
    BY <1>1, <1>2, ScopeRefersTo DEF Fills
  <1>4. Typed(x) /\ Numbered(x, n) /\ Whole(R, x)
    <2>1. CASE s = "organization"
      BY <1>1, <2>1, Kinds, SchemaIs DEF Typed, Numbered, Whole, Filled, RoleTables, Flags
    <2>2. CASE s = "workspace"
      BY <1>1, <2>2, Kinds, SchemaIs DEF Typed, Numbered, Whole, Filled, RoleTables, Flags
    <2>3. CASE s = "page"
      BY <1>1, <2>3, Kinds, SchemaIs DEF Typed, Numbered, Whole, Filled, RoleTables, Flags
    <2> QED BY <2>1, <2>2, <2>3, Kinds
  <1> QED BY <1>3, <1>4 DEF Sound, x

\* A member of an organization or a page, with a role of it.
LEMMA MemberSound ==
  ASSUME NEW R, NEW n, NEW id, Number(id, n), NEW s \in ScopeKinds, s # "workspace",
         NEW y, There(R, ScopeTable[s], y), NEW u, There(R, "users", u),
         NEW role, Fills(R, RoleTable[s], role, ScopeColumn[s], y)
  PROVE  Sound(R, Entry(MemberTable[s], id, Of(s, y, Over([c \in {MemberRole[s]} |-> role], [user_id |-> u])),
                        {"live"}), n)
  <1> DEFINE own == Over([c \in {MemberRole[s]} |-> role], [user_id |-> u])
             x == Entry(MemberTable[s], id, Of(s, y, own), {"live"})
  <1>1. DOMAIN own = {MemberRole[s], "user_id"} /\ own[MemberRole[s]] = role /\ own.user_id = u
    BY Kinds DEF Over
  <1> HIDE DEF own
  <1>2. x.table = MemberTable[s] /\ x.id = id /\ x.flags = {"live"} /\ x.val = Of(s, y, own)
    BY DEF Entry
  <1> HIDE DEF x
  <1>3. "user_id" # ScopeColumn[s] /\ MemberRole[s] # ScopeColumn[s]
    BY Kinds
  <1>4. /\ DOMAIN x.val = {ScopeColumn[s], MemberRole[s], "user_id"}
        /\ x.val[ScopeColumn[s]] = y /\ x.val[MemberRole[s]] = role /\ x.val.user_id = u
    <2>1. /\ DOMAIN Of(s, y, own) = {ScopeColumn[s]} \cup DOMAIN own
          /\ Of(s, y, own)[ScopeColumn[s]] = y
          /\ \A c \in DOMAIN own : c # ScopeColumn[s] => Of(s, y, own)[c] = own[c]
      BY DEF Of, Over
    <2> QED BY <1>1, <1>2, <1>3, <2>1
  <1>5. Col(x, ScopeColumn[s]) = y /\ Col(x, "user_id") = u /\ Col(x, MemberRole[s]) = role
    BY <1>4 DEF Col
  <1>6. ~Dangling(R, x)
    BY <1>2, <1>5, ScopeRefersTo
  <1>7. Typed(x) /\ Numbered(x, n) /\ Whole(R, x)
    <2>1. CASE s = "organization"
      BY <1>2, <1>4, <2>1, Kinds, SchemaIs DEF Typed, Numbered, Whole, Filled, RoleTables, Flags
    <2>2. CASE s = "page"
      BY <1>2, <1>4, <2>2, Kinds, SchemaIs DEF Typed, Numbered, Whole, Filled, RoleTables, Flags
    <2> QED BY <2>1, <2>2, Kinds
  <1> QED BY <1>6, <1>7 DEF Sound, x, own

-----------------------------------------------------------------------------
(* What the unique indexes that matter here say.                            *)

\* A role is in the way as the default of the scope, or for its key there.
LEMMA RoleClash ==
  ASSUME NEW R, NEW s \in ScopeKinds, NEW r, r.table = RoleTable[s], NEW q \in Clashing(R, r)
  PROVE  /\ q \in R /\ q.table = RoleTable[s] /\ "live" \in q.flags
         /\ Col(q, ScopeColumn[s]) = Col(r, ScopeColumn[s])
         /\ \/ "default" \in q.flags \cap r.flags
            \/ Col(q, "system_key") = Col(r, "system_key")
  <1> DEFINE col == ScopeColumn[s]
  <1>1. Schema[RoleTable[s]].unique = {UniqueWhile({col}, {"live", "default"}), LiveUnique({col, "system_key"})}
    <2>1. \A scope, table : RolesOf(scope, table).unique
              = {UniqueWhile({scope}, {"live", "default"}), LiveUnique({scope, "system_key"})}
      BY DEF RolesOf, Soft, Table
    <2>2. CASE s = "organization"
      BY <2>1, <2>2, Kinds, SchemaIs DEF OrganizationRoles
    <2>3. CASE s = "workspace"
      BY <2>1, <2>3, Kinds, SchemaIs DEF WorkspaceRoles
    <2>4. CASE s = "page"
      BY <2>1, <2>4, Kinds, SchemaIs DEF PageRoles
    <2> QED BY <2>2, <2>3, <2>4, Kinds
  <1> HIDE DEF col
  <1>2. UniqueWhile({col}, {"live", "default"}).flags = {"live", "default"}
        /\ UniqueWhile({col}, {"live", "default"}).columns = {col}
        /\ LiveUnique({col, "system_key"}).flags = {"live"}
        /\ LiveUnique({col, "system_key"}).columns = {col, "system_key"}
    BY DEF UniqueWhile, LiveUnique
  <1>3. /\ q \in R /\ q.table = r.table
        /\ \E unique \in Schema[r.table].unique :
            /\ unique.flags \subseteq q.flags \cap r.flags
            /\ \A c \in unique.columns : Col(q, c) = Col(r, c) /\ Col(r, c) # Null
    BY DEF Clashing
  <1>4. CASE /\ {"live", "default"} \subseteq q.flags \cap r.flags
             /\ Col(q, col) = Col(r, col)
    BY <1>3, <1>4 DEF col
  <1>5. CASE /\ {"live"} \subseteq q.flags \cap r.flags
             /\ Col(q, col) = Col(r, col) /\ Col(q, "system_key") = Col(r, "system_key")
    BY <1>3, <1>5 DEF col
  <1> QED BY <1>1, <1>2, <1>3, <1>4, <1>5

\* Ids of cells are apart.
LEMMA CellIdsDiffer ==
  ASSUME NEW p \in Int, NEW q \in Int, NEW c \in Int, NEW d \in Int, NEW n \in Int,
         n <= Room * (MaxBatches + 1),
         Number(c, n), Number(d, n), CellId(p, [id |-> c]) = CellId(q, [id |-> d])
  PROVE  p = q /\ c = d
  <1> DEFINE span == Room * (MaxBatches + 11)
  <1>1. span \in Nat /\ c - d < span /\ d - c < span
    BY RecordsAssumption DEF Room, Number
  <1>2. p * span + c = q * span + d
    BY DEF CellId
  <1> HIDE DEF span
  <1>3. (p - q) * span = d - c
    BY <1>1, <1>2
  <1>4. CASE p - q >= 1
    <2>1. (p - q) * span >= span
      BY <1>1, <1>4
    <2> QED BY <1>1, <1>3, <2>1
  <1>5. CASE p - q <= -1
    <2>1. (p - q) * span <= -span
      BY <1>1, <1>5
    <2> QED BY <1>1, <1>3, <2>1
  <1>6. CASE p = q
    BY <1>1, <1>2, <1>6
  <1> QED BY <1>4, <1>5, <1>6

-----------------------------------------------------------------------------
(* A transaction on R takes its numbers from n.                             *)

Begun(R, n) ==
    /\ n \in Int /\ -100 <= n /\ n + Room <= Room * (MaxBatches + 1)
    /\ n >= 0 \/ n + Room <= 0
    /\ Fit(R, n) /\ Complete(R)

\* A transaction begins with rows that are fit.
LEMMA Begins ==
  ASSUME NEW R, NEW n, Begun(R, n)
  PROVE  /\ n \in Int /\ n + Room \in Int /\ n <= n + Room
         /\ Going(Holding(R), R, n + Room, {}) /\ ~Holding(R).aborted /\ Holding(R).rows = R
         /\ Fit(R, n + Room) /\ Complete(R)
  <1>1. n \in Int /\ n + Room \in Int /\ n <= n + Room /\ Fit(R, n) /\ Complete(R)
    BY DEF Begun, Room
  <1>2. Fit(R, n + Room)
    BY <1>1, FitGrows
  <1>3. Going(Holding(R), R, n + Room, {}) /\ ~Holding(R).aborted /\ Holding(R).rows = R
    BY <1>1, GoingBegins
  <1> QED BY <1>1, <1>2, <1>3

\* A number that is not less than n is of no row.
LEMMA NewIds ==
  ASSUME NEW R, NEW n \in Int, Fit(R, n), NEW t, t # "page_columns_values", NEW id \in Int, n <= id
  PROVE  ~There(R, t, id)
  <1> SUFFICES ASSUME NEW r \in R, r.table = t, r.id = id PROVE FALSE
    BY DEF There, Is
  <1>1. Numbered(r, n)
    BY DEF Fit, Sound
  <1> QED BY <1>1 DEF Numbered, Number

\* A key that is new is of no row while no statement took it.
LEMMA NewHere ==
  ASSUME NEW R, NEW n, NEW K, NEW o, Going(o, R, n, K), NEW t, NEW id, ~There(R, t, id), <<t, id>> \notin K
  PROVE  ~There(o.rows, t, id)
  BY DEF Going, There, Is

\* A row that is not erasable is there after every statement.
LEMMA StillThere ==
  ASSUME NEW R, NEW n, NEW K, NEW o, Going(o, R, n, K), NEW t, t \notin Erasable, NEW id, There(R, t, id)
  PROVE  There(o.rows, t, id)
  BY LaterThere DEF Going

\* A key that is there stays there.
LEMMA KeptThere ==
  ASSUME NEW R, NEW S, Kept(R, S), NEW t, NEW id, There(R, t, id)
  PROVE  There(S, t, id)
  BY DEF Kept, There, Is, Heir

\* One statement.
LEMMA SafeInsert ==
  ASSUME NEW R, NEW n, Begun(R, n), NEW s, Put1(s), s.row.table \notin Founding,
         Met(R, s.needs) /\ Clashing(R, s.row) = {} => Sound(R, s.row, n + Room) /\ Fresh(R, s.row)
  PROVE  Safe(R, <<s>>, n + Room)
  <1> DEFINE o == Holding(R)
             m == n + Room
             K == {<<s.row.table, s.row.id>>}
  <1>1. /\ m \in Int /\ Going(o, R, m, {}) /\ o.rows = R /\ Fit(R, m) /\ Complete(R)
    BY Begins
  <1>2. Asked(o, s) /\ Unclashed(o, s) => Sound(o.rows, s.row, m) /\ Fresh(o.rows, s.row)
    BY <1>1 DEF Asked, Unclashed
  <1> HIDE DEF o, m
  <1>3. Going(Perform(o, s), R, m, {} \cup K)
    BY <1>1, <1>2, PutGoes
  <1>4. Going(Continue(o, <<s>>), R, m, K)
    BY <1>3, ContinueOne
  <1>5. \A k \in K : k[1] \notin Founding
    OBVIOUS
  <1> QED BY <1>1, <1>4, <1>5, SafeWithout DEF o, m

\* One upsert.
LEMMA SafeUpdate ==
  ASSUME NEW R, NEW n, Begun(R, n), NEW s, s.do = "update", s.row.table \notin Founding,
         Met(R, s.needs) /\ Clashing(R, s.row) = {} => Sound(R, s.row, n + Room) /\ Fresh(R, s.row),
         Met(R, s.needs) => \A old \in Clashing(R, s.row) :
                               Sound(R, Merged(old, s), n + Room) /\ Heir(old, Merged(old, s))
  PROVE  Safe(R, <<s>>, n + Room)
  <1> DEFINE o == Holding(R)
             m == n + Room
             K == {<<s.row.table, s.row.id>>}
  <1>1. /\ m \in Int /\ Going(o, R, m, {}) /\ o.rows = R /\ Fit(R, m) /\ Complete(R)
    BY Begins
  <1>2. /\ Asked(o, s) /\ Unclashed(o, s) => Sound(o.rows, s.row, m) /\ Fresh(o.rows, s.row)
        /\ Asked(o, s) => \A old \in Clashing(o.rows, s.row) :
                             Sound(o.rows, Merged(old, s), m) /\ Heir(old, Merged(old, s))
    BY <1>1 DEF Asked, Unclashed
  <1> HIDE DEF o, m
  <1>3. Going(Perform(o, s), R, m, {} \cup K)
    BY <1>1, <1>2, UpdateGoes
  <1>4. Going(Continue(o, <<s>>), R, m, K)
    BY <1>3, ContinueOne
  <1>5. \A k \in K : k[1] \notin Founding
    OBVIOUS
  <1> QED BY <1>1, <1>4, <1>5, SafeWithout DEF o, m

\* One mark.
LEMMA SafeMark ==
  ASSUME NEW R, NEW n, Begun(R, n), NEW s, s.do = "mark",
         \A old \in R : Is(old, s.row.table, s.row.id) =>
             Sound(R, Merged(old, s), n + Room) /\ Heir(old, Merged(old, s))
  PROVE  Safe(R, <<s>>, n + Room)
  <1> DEFINE o == Holding(R)
             m == n + Room
  <1>1. /\ m \in Int /\ Going(o, R, m, {}) /\ o.rows = R /\ Fit(R, m) /\ Complete(R)
    BY Begins
  <1>2. \A old \in o.rows : Is(old, s.row.table, s.row.id) =>
             Sound(o.rows, Merged(old, s), m) /\ Heir(old, Merged(old, s))
    BY <1>1
  <1> HIDE DEF o, m
  <1>3. Going(Perform(o, s), R, m, {})
    BY <1>1, <1>2, MarkGoes
  <1>4. Going(Continue(o, <<s>>), R, m, {})
    BY <1>3, ContinueOne
  <1> QED BY <1>1, <1>4, SafeWithout DEF o, m

\* One delete, of a table with deleted_at or of an erasable one.
LEMMA SafeDelete ==
  ASSUME NEW R, NEW n, Begun(R, n), NEW t, NEW id, t \notin Static, Schema[t].soft \/ t \in Erasable
  PROVE  Safe(R, <<Delete(t, id)>>, n + Room)
  <1> DEFINE o == Holding(R)
             m == n + Room
             s == Delete(t, id)
  <1>1. /\ m \in Int /\ Going(o, R, m, {}) /\ o.rows = R /\ Fit(R, m) /\ Complete(R)
    BY Begins
  <1>2. s.do = "delete" /\ s.row.table = t
    BY DEF Delete, Statement, Entry
  <1> HIDE DEF o, m, s
  <1>3. Going(Perform(o, s), R, m, {})
    BY <1>1, <1>2, DeleteGoes
  <1>4. Going(Continue(o, <<s>>), R, m, {})
    BY <1>3, ContinueOne
  <1> QED BY <1>1, <1>4, SafeWithout DEF o, m, s

\* Every state of the invariant may begin a transaction, whose ids are new.
LEMMA IndBegun ==
  ASSUME RecordsInd
  PROVE  /\ Begun(stored, Room * batches) /\ broken = FALSE /\ batches \in 1..MaxBatches
         /\ \A k \in 1..9 :
              /\ Number(Id(k), Room * batches + Room) /\ Key(Id(k), Room * batches + Room)
              /\ Id(k) \in Int /\ Room * batches <= Id(k) /\ Id(k) # Room * batches
              /\ \A t : t # "page_columns_values" => ~There(stored, t, Id(k))
  <1>1. batches \in 1..MaxBatches /\ MaxBatches \in Nat
    BY RecordsAssumption DEF RecordsInd
  <1>2. /\ Room * batches \in Int /\ -100 <= Room * batches
        /\ Room * batches + Room <= Room * (MaxBatches + 1) /\ Room * batches >= 0
    BY <1>1 DEF Room
  <1>3. Begun(stored, Room * batches)
    BY <1>2 DEF RecordsInd, Begun
  <1>4. ASSUME NEW k \in 1..9
        PROVE  /\ Number(Id(k), Room * batches + Room) /\ Key(Id(k), Room * batches + Room)
               /\ Id(k) \in Int /\ Room * batches <= Id(k) /\ Id(k) # Room * batches
    BY <1>1 DEF Id, Room, Number, Key
  <1>5. ASSUME NEW k \in 1..9, NEW t, t # "page_columns_values" PROVE ~There(stored, t, Id(k))
    BY <1>2, <1>4, <1>5, NewIds DEF RecordsInd
  <1> QED BY <1>1, <1>3, <1>4, <1>5 DEF RecordsInd

\* A safe transaction keeps the invariant.
LEMMA SafeKeeps ==
  ASSUME RecordsInd, NEW batch, Safe(stored, batch, Room * batches + Room), Execute(batch)
  PROVE  RecordsInd'
  <1>1. /\ batches < MaxBatches /\ batches' = batches + 1
        /\ stored' = Run(stored, batch).rows /\ broken' = (broken \/ Run(stored, batch).broken)
    BY DEF Execute
  <1>2. batches \in 1..MaxBatches /\ broken = FALSE /\ MaxBatches \in Nat
    BY RecordsAssumption DEF RecordsInd
  <1>3. batches' \in 1..MaxBatches /\ broken' = FALSE
    <2>1. Run(stored, batch).broken = FALSE
      BY DEF Safe
    <2>2. broken' = FALSE
      BY <1>1, <1>2, <2>1
    <2>3. batches' \in 1..MaxBatches
      BY <1>1, <1>2
    <2> QED BY <2>2, <2>3
  <1>4. Room * batches' = Room * batches + Room
    BY <1>1, <1>2 DEF Room
  <1>5. Fit(stored', Room * batches') /\ Complete(stored')
    <2>1. Fit(Run(stored, batch).rows, Room * batches + Room) /\ Complete(Run(stored, batch).rows)
      BY DEF Safe
    <2> QED BY <1>1, <1>4, <2>1
  <1> QED BY <1>3, <1>5 DEF RecordsInd

-----------------------------------------------------------------------------
(* Batches by their statements.                                             *)

\* Batches of the same statements.
LEMMA ContinueSame ==
  ASSUME NEW out, NEW a, NEW b, Len(a) \in Nat, Len(b) = Len(a), \A i \in 1..Len(a) : b[i] = a[i]
  PROVE  Continue(out, a) = Continue(out, b)
  <1>1. PICK f : Trace(out, b, f)
    BY Traced
  <1>2. /\ f[0] = out /\ f[Len(b)] = Continue(out, b)
        /\ \A i \in 1..Len(b) : f[i] = Perform(f[i - 1], b[i])
    BY <1>1, TraceSteps
  <1>3. \A i \in 1..Len(a) : f[i] = Perform(f[i - 1], a[i])
    BY <1>2
  <1> QED BY <1>2, <1>3, OneTrace

\* A batch of two statements.
LEMMA ContinueTwo ==
  ASSUME NEW o, NEW a, NEW b
  PROVE  Continue(o, <<a, b>>) =
           Perform(Perform(o, a), b)
  <1> DEFINE z == <<a, b>>
  <1>0. Len(z) \in Nat
    OBVIOUS
  <1>1. Len(z) = 2 /\ z[1] = a /\ z[2] = b
    OBVIOUS
  <1> HIDE DEF z
  <1>2. PICK f : Trace(o, z, f)
    BY <1>0, Traced
  <1>3. f[0] = o /\ f[Len(z)] = Continue(o, z) /\ \A i \in 1..Len(z) : f[i] = Perform(f[i - 1], z[i])
    BY <1>0, <1>2, TraceSteps
  <1>4. f[1] = Perform(f[0], a)
    BY <1>1, <1>3
  <1>5. f[2] = Perform(f[1], b)
    BY <1>1, <1>3
  <1> QED BY <1>1, <1>3, <1>4, <1>5 DEF z

\* A batch of three.
LEMMA ContinueThree ==
  ASSUME NEW o, NEW a, NEW b, NEW c
  PROVE  Continue(o, <<a, b, c>>) =
           Perform(Perform(Perform(o, a), b), c)
  <1> DEFINE z == <<a, b, c>>
  <1>0. Len(z) \in Nat
    OBVIOUS
  <1>1. Len(z) = 3 /\ z[1] = a /\ z[2] = b /\ z[3] = c
    OBVIOUS
  <1> HIDE DEF z
  <1>2. PICK f : Trace(o, z, f)
    BY <1>0, Traced
  <1>3. f[0] = o /\ f[Len(z)] = Continue(o, z) /\ \A i \in 1..Len(z) : f[i] = Perform(f[i - 1], z[i])
    BY <1>0, <1>2, TraceSteps
  <1>4. f[1] = Perform(f[0], a)
    BY <1>1, <1>3
  <1>5. f[2] = Perform(f[1], b)
    BY <1>1, <1>3
  <1>6. f[3] = Perform(f[2], c)
    BY <1>1, <1>3
  <1> QED BY <1>1, <1>3, <1>4, <1>5, <1>6 DEF z

\* A batch of four.
LEMMA ContinueFour ==
  ASSUME NEW o, NEW a, NEW b, NEW c, NEW d
  PROVE  Continue(o, <<a, b, c, d>>) =
           Perform(Perform(Perform(Perform(o, a), b), c), d)
  <1> DEFINE z == <<a, b, c, d>>
  <1>0. Len(z) \in Nat
    OBVIOUS
  <1>1. Len(z) = 4 /\ z[1] = a /\ z[2] = b /\ z[3] = c /\ z[4] = d
    OBVIOUS
  <1> HIDE DEF z
  <1>2. PICK f : Trace(o, z, f)
    BY <1>0, Traced
  <1>3. f[0] = o /\ f[Len(z)] = Continue(o, z) /\ \A i \in 1..Len(z) : f[i] = Perform(f[i - 1], z[i])
    BY <1>0, <1>2, TraceSteps
  <1>4. f[1] = Perform(f[0], a)
    BY <1>1, <1>3
  <1>5. f[2] = Perform(f[1], b)
    BY <1>1, <1>3
  <1>6. f[3] = Perform(f[2], c)
    BY <1>1, <1>3
  <1>7. f[4] = Perform(f[3], d)
    BY <1>1, <1>3
  <1> QED BY <1>1, <1>3, <1>4, <1>5, <1>6, <1>7 DEF z

\* A batch of five.
LEMMA ContinueFive ==
  ASSUME NEW o, NEW a, NEW b, NEW c, NEW d, NEW e
  PROVE  Continue(o, <<a, b, c, d, e>>) =
           Perform(Perform(Perform(Perform(Perform(o, a), b), c), d), e)
  <1> DEFINE z == <<a, b, c, d, e>>
  <1>0. Len(z) \in Nat
    OBVIOUS
  <1>1. Len(z) = 5 /\ z[1] = a /\ z[2] = b /\ z[3] = c /\ z[4] = d /\ z[5] = e
    OBVIOUS
  <1> HIDE DEF z
  <1>2. PICK f : Trace(o, z, f)
    BY <1>0, Traced
  <1>3. f[0] = o /\ f[Len(z)] = Continue(o, z) /\ \A i \in 1..Len(z) : f[i] = Perform(f[i - 1], z[i])
    BY <1>0, <1>2, TraceSteps
  <1>4. f[1] = Perform(f[0], a)
    BY <1>1, <1>3
  <1>5. f[2] = Perform(f[1], b)
    BY <1>1, <1>3
  <1>6. f[3] = Perform(f[2], c)
    BY <1>1, <1>3
  <1>7. f[4] = Perform(f[3], d)
    BY <1>1, <1>3
  <1>8. f[5] = Perform(f[4], e)
    BY <1>1, <1>3
  <1> QED BY <1>1, <1>3, <1>4, <1>5, <1>6, <1>7, <1>8 DEF z

\* A batch of seven.
LEMMA ContinueSeven ==
  ASSUME NEW o, NEW a, NEW b, NEW c, NEW d, NEW e, NEW g, NEW h
  PROVE  Continue(o, <<a, b, c, d, e, g, h>>) =
           Perform(Perform(Perform(Perform(Perform(Perform(Perform(o, a), b), c), d), e), g), h)
  <1> DEFINE z == <<a, b, c, d, e, g, h>>
  <1>0. Len(z) \in Nat
    OBVIOUS
  <1>1. Len(z) = 7 /\ z[1] = a /\ z[2] = b /\ z[3] = c /\ z[4] = d /\ z[5] = e /\ z[6] = g /\ z[7] = h
    OBVIOUS
  <1> HIDE DEF z
  <1>2. PICK f : Trace(o, z, f)
    BY <1>0, Traced
  <1>3. f[0] = o /\ f[Len(z)] = Continue(o, z) /\ \A i \in 1..Len(z) : f[i] = Perform(f[i - 1], z[i])
    BY <1>0, <1>2, TraceSteps
  <1>4. f[1] = Perform(f[0], a)
    BY <1>1, <1>3
  <1>5. f[2] = Perform(f[1], b)
    BY <1>1, <1>3
  <1>6. f[3] = Perform(f[2], c)
    BY <1>1, <1>3
  <1>7. f[4] = Perform(f[3], d)
    BY <1>1, <1>3
  <1>8. f[5] = Perform(f[4], e)
    BY <1>1, <1>3
  <1>9. f[6] = Perform(f[5], g)
    BY <1>1, <1>3
  <1>10. f[7] = Perform(f[6], h)
    BY <1>1, <1>3
  <1> QED BY <1>1, <1>3, <1>4, <1>5, <1>6, <1>7, <1>8, <1>9, <1>10 DEF z

\* The statement with its write checked.
Must(s) == [s EXCEPT !.checked = TRUE]

\* The statements of a batch whose writes are checked.
LEMMA CheckedIs ==
  ASSUME NEW S, NEW a \in Seq(S)
  PROVE  /\ Checked(a) \in Seq({Must(s) : s \in S}) /\ Len(Checked(a)) = Len(a)
         /\ \A i \in 1..Len(a) : Checked(a)[i] = Must(a[i])
  <1> DEFINE M == {Must(s) : s \in S}
             f == [i \in 1..Len(a) |-> Must(a[i])]
  <1>1. Len(a) \in Nat /\ DOMAIN a = 1..Len(a) /\ \A i \in 1..Len(a) : a[i] \in S
    OBVIOUS
  <1>2. Checked(a) = f
    BY <1>1 DEF Checked, Must
  <1>3. \A i \in 1..Len(a) : Must(a[i]) \in M
    BY <1>1
  <1>4. f \in Seq(M) /\ Len(f) = Len(a) /\ \A i \in 1..Len(a) : f[i] = Must(a[i])
    <2> HIDE DEF M
    <2> QED BY <1>1, <1>3
  <1> QED BY <1>2, <1>4

\* One statement whose write is checked.
LEMMA CheckedOne ==
  ASSUME NEW o, NEW s
  PROVE  Continue(o, Checked(<<s>>)) = Perform(o, [s EXCEPT !.checked = TRUE])
  <1> DEFINE z == <<s>>
  <1>1. z \in Seq({s}) /\ Len(z) = 1 /\ z[1] = s
    OBVIOUS
  <1>2. Len(Checked(z)) = 1 /\ Checked(z)[1] = Must(s)
    <2> HIDE DEF z
    <2>1. Len(Checked(z)) = Len(z) /\ \A i \in 1..Len(z) : Checked(z)[i] = Must(z[i])
      BY <1>1, CheckedIs
    <2> QED BY <1>1, <2>1
  <1>3. Continue(o, <<Must(s)>>) = Continue(o, Checked(<<s>>))
    BY <1>2, ContinueSame
  <1> QED BY <1>3, ContinueOne DEF Must

\* Two batches whose writes are checked.
LEMMA CheckedBoth ==
  ASSUME NEW out, NEW S, NEW a \in Seq(S), NEW T, NEW b \in Seq(T)
  PROVE  Continue(out, Checked(a \o b)) = Continue(Continue(out, Checked(a)), Checked(b))
  <1>1. a \in Seq(S \cup T) /\ b \in Seq(S \cup T) /\ a \o b \in Seq(S \cup T)
    OBVIOUS
  <1>2. /\ Len(a) \in Nat /\ Len(b) \in Nat /\ Len(a \o b) = Len(a) + Len(b)
        /\ \A i \in 1..Len(a) : (a \o b)[i] = a[i]
        /\ \A i \in 1..(Len(a) + Len(b)) : i > Len(a) => (a \o b)[i] = b[i - Len(a)]
    OBVIOUS
  <1> DEFINE ca == Checked(a)
             cb == Checked(b)
             cab == Checked(a \o b)
             M == {Must(s) : s \in S \cup T}
  <1>3. /\ ca \in Seq(M) /\ Len(ca) = Len(a) /\ \A i \in 1..Len(a) : ca[i] = Must(a[i])
    BY <1>1, CheckedIs
  <1>4. /\ cb \in Seq(M) /\ Len(cb) = Len(b) /\ \A i \in 1..Len(b) : cb[i] = Must(b[i])
    BY <1>1, CheckedIs
  <1>5. /\ cab \in Seq(M) /\ Len(cab) = Len(a \o b) /\ \A i \in 1..Len(a \o b) : cab[i] = Must((a \o b)[i])
    BY <1>1, CheckedIs
  <1> HIDE DEF ca, cb, cab, M
  <1>6. /\ Len(ca \o cb) = Len(a) + Len(b)
        /\ \A i \in 1..Len(a) : (ca \o cb)[i] = ca[i]
        /\ \A i \in 1..(Len(a) + Len(b)) : i > Len(a) => (ca \o cb)[i] = cb[i - Len(a)]
    <2>1. ca \in Seq(M) /\ cb \in Seq(M)
      BY <1>3, <1>4
    <2>2. /\ Len(ca \o cb) = Len(ca) + Len(cb)
          /\ \A i \in 1..Len(ca) : (ca \o cb)[i] = ca[i]
          /\ \A i \in 1..(Len(ca) + Len(cb)) : i > Len(ca) => (ca \o cb)[i] = cb[i - Len(ca)]
      BY <2>1
    <2> QED BY <1>3, <1>4, <2>2
  <1>7. ASSUME NEW i \in 1..(Len(a) + Len(b)) PROVE (ca \o cb)[i] = cab[i]
    <2>3. i <= Len(a) \/ i > Len(a)
      <3>1. Len(a) \in Nat /\ Len(b) \in Nat
        OBVIOUS
      <3> QED BY <3>1
    <2>1. CASE i <= Len(a)
      BY <2>1, <1>2, <1>3, <1>5, <1>6
    <2>2. CASE i > Len(a)
      <3>1. i - Len(a) \in 1..Len(b)
        BY <2>2, <1>2
      <3> QED BY <2>2, <3>1, <1>2, <1>4, <1>5, <1>6
    <2> QED BY <2>1, <2>2, <2>3
  <1>8. Len(cab) \in Nat /\ Len(cab) = Len(a) + Len(b)
    BY <1>2, <1>5
  <1>9. Continue(out, cab) = Continue(out, ca \o cb)
    BY <1>6, <1>7, <1>8, ContinueSame
  <1>10. Continue(out, ca \o cb) = Continue(Continue(out, ca), cb)
    BY <1>3, <1>4, ContinueBoth
  <1> QED BY <1>9, <1>10 DEF ca, cb, cab
\* The columns a merge may change though the table always has them.
Changing == {"created_by_user_id", "submit_token_hash", "review_token_hash"}
Lasting(t) == {"page_id", "owner_id", "parent_id"} \cup (Filled[t] \ Changing)

\* A merge that changes no lasting column leaves a sound heir.
LEMMA MergedSound ==
  ASSUME NEW R, NEW n, NEW old, Sound(R, old, n), old.table \notin Static,
         NEW s, s.row.flags \subseteq Flags,
         \A c \in DOMAIN s.row.val : c \in Lasting(old.table) /\ c \in DOMAIN old.val => s.row.val[c] = old.val[c],
         old.table = "page_form_publications" =>
            Key(Merged(old, s).val.submit_token_hash, n) /\ Key(Merged(old, s).val.review_token_hash, n),
         ~Dangling(R, Merged(old, s))
  PROVE  Sound(R, Merged(old, s), n) /\ Heir(old, Merged(old, s))
  <1> DEFINE x == Merged(old, s)
  <1>1. /\ x.table = old.table /\ x.id = old.id /\ x.flags \subseteq Flags
        /\ DOMAIN x.val = DOMAIN s.row.val \cup DOMAIN old.val
        /\ \A c \in DOMAIN old.val : c \in Lasting(old.table) => x.val[c] = old.val[c]
    BY MergedIs
  <1>2. /\ old.table = "page_form_publications" => Key(x.val.submit_token_hash, n) /\ Key(x.val.review_token_hash, n)
        /\ ~Dangling(R, x)
    OBVIOUS
  <1> HIDE DEF x
  <1>3. Typed(old) /\ Filled[old.table] \subseteq DOMAIN old.val /\ old.table \notin RoleTables /\ old.table # "page_edges"
    BY DEF Sound, Typed, Static
  <1>4. Typed(x)
    BY <1>1, <1>3 DEF Typed
  <1>5. Heir(old, x)
    BY <1>1 DEF Heir, Lasting
  <1>6. \A c \in Filled[old.table] : c \notin Changing => x.val[c] = old.val[c]
    BY <1>1, <1>3 DEF Lasting
  <1>7. Numbered(x, n)
    <2>1. CASE x.table = "page_columns_values"
      <3>1. "page_id" \in Filled[old.table] /\ "page_column_id" \in Filled[old.table]
        BY <1>1, <2>1 DEF Filled
      <3>2. x.val.page_id = old.val.page_id /\ x.val.page_column_id = old.val.page_column_id
        BY <1>6, <3>1 DEF Changing
      <3> QED BY <1>1, <2>1, <3>2 DEF Sound, Numbered, RoleTables
    <2>2. CASE x.table # "page_columns_values"
      BY <1>1, <1>2, <1>3, <2>2 DEF Sound, Numbered
    <2> QED BY <2>1, <2>2
  <1>8. Whole(R, x)
    <2>1. x.table = "page_form_submissions" => x.val.response_page_id = old.val.response_page_id
                                               /\ x.val.publication_id = old.val.publication_id
      BY <1>1, <1>6 DEF Filled, Changing
    <2>2. x.table = "workspace_members" => x.val.page_root_id = old.val.page_root_id /\ x.val.user_id = old.val.user_id
      BY <1>1, <1>6 DEF Filled, Changing
    <2>3. x.table = "page_columns_values" => x.val.page_id = old.val.page_id
                                             /\ x.val.page_column_id = old.val.page_column_id
      BY <1>1, <1>6 DEF Filled, Changing
    <2>4. x.table = "access_invites" => x.val.scope = old.val.scope /\ x.val.scope_id = old.val.scope_id
                                        /\ x.val.role_id = old.val.role_id
      BY <1>1, <1>6 DEF Filled, Changing
    <2>5. Whole(R, old)
      BY DEF Sound
    <2> QED BY <1>1, <1>3, <2>1, <2>2, <2>3, <2>4, <2>5 DEF Whole
  <1> QED BY <1>2, <1>4, <1>5, <1>7, <1>8 DEF Sound, x

\* Only the flags change.
LEMMA FlagsSound ==
  ASSUME NEW R, NEW n, NEW old, Sound(R, old, n), old.table \notin Static,
         NEW s, s.row.val = <<>>, s.row.flags \subseteq Flags
  PROVE  Sound(R, Merged(old, s), n) /\ Heir(old, Merged(old, s))
  <1> DEFINE x == Merged(old, s)
  <1>1. DOMAIN s.row.val = {}
    OBVIOUS
  <1>2. x.table = old.table /\ (\A c : Col(x, c) = Col(old, c))
        /\ (\A c \in DOMAIN old.val : x.val[c] = old.val[c]) /\ DOMAIN x.val = DOMAIN old.val
    <2>1. \A c : c \notin DOMAIN s.row.val
      BY <1>1
    <2>2. x.table = old.table /\ DOMAIN x.val = DOMAIN s.row.val \cup DOMAIN old.val
          /\ \A c \in DOMAIN old.val : c \notin DOMAIN s.row.val => x.val[c] = old.val[c]
      BY MergedIs
    <2>3. \A c : c \notin DOMAIN s.row.val => Col(x, c) = Col(old, c)
      BY MergedCol
    <2> HIDE DEF x
    <2> QED BY <1>1, <2>1, <2>2, <2>3
  <1> HIDE DEF x
  <1>3. \A ref, q : Names(x, ref, q) <=> Names(old, ref, q)
    BY <1>2 DEF Names, Is
  <1>4. \A ref : Reaches(R, x, ref) <=> Reaches(R, old, ref)
    BY <1>2, <1>3 DEF Reaches
  <1>5. ~Dangling(R, x)
    BY <1>2, <1>4, NotDangling DEF Sound
  <1>6. ASSUME old.table = "page_form_publications" PROVE Key(x.val.submit_token_hash, n) /\ Key(x.val.review_token_hash, n)
    <2>1. Typed(old) /\ Numbered(old, n)
      BY DEF Sound
    <2>2. "submit_token_hash" \in DOMAIN old.val /\ "review_token_hash" \in DOMAIN old.val
      BY <1>6, <2>1 DEF Typed, Filled
    <2> QED BY <1>2, <1>6, <2>1, <2>2 DEF Numbered
  <1> QED BY <1>1, <1>5, <1>6, MergedSound DEF x

\* A number of the transaction is of no row before it.
Own(n, id) == id \in Int /\ n <= id /\ -100 < id /\ id < n + Room /\ id # 0

\* A number of the transaction is new.
LEMMA OwnNumber ==
  ASSUME NEW R, NEW n, Begun(R, n), NEW id, Own(n, id)
  PROVE  Number(id, n + Room) /\ Key(id, n + Room) /\ \A t : t # "page_columns_values" => ~There(R, t, id)
  <1>1. Number(id, n + Room)
    BY DEF Begun, Number, Room, Own
  <1>2. Key(id, n + Room)
    BY DEF Begun, Key, Room, Own
  <1> QED BY <1>1, <1>2, NewIds DEF Begun, Own

\* The keys of the rows a batch inserts, and what one statement adds.
With(K, t, id)   == K \cup {<<t, id>>}
Unused(K, t, id) == <<t, id>> \notin K
Grown(R, S, row) == R \subseteq S /\ S \subseteq R \cup {row}

\* Which keys are unused after one more.
LEMMA UnusedWith ==
  /\ \A K, t, id, t2, id2 : Unused(With(K, t, id), t2, id2) <=> Unused(K, t2, id2) /\ ~(t2 = t /\ id2 = id)
  /\ \A t, id : Unused({}, t, id)
  BY DEF With, Unused

\* What is there after one row more.
LEMMA GrownThere ==
  ASSUME NEW R, NEW S, NEW row, Grown(R, S, row), NEW t, NEW id, There(S, t, id)
  PROVE  There(R, t, id) \/ (t = row.table /\ id = row.id)
  BY DEF Grown, There, Is

\* What was there still is.
LEMMA GrownKeeps ==
  ASSUME NEW R, NEW S, NEW row, Grown(R, S, row), NEW t, NEW id, There(R, t, id)
  PROVE  There(S, t, id)
  BY DEF Grown, There

\* What was among the rows still is.
LEMMA GrownHas ==
  ASSUME NEW R, NEW S, NEW row, Grown(R, S, row), NEW x \in R
  PROVE  x \in S
  BY DEF Grown

\* One more key is allowed.
LEMMA GoingWith ==
  ASSUME NEW R, NEW m, NEW K, NEW o, Going(o, R, m, K), NEW t, NEW id
  PROVE  Going(o, R, m, With(K, t, id))
  BY GoingMore DEF With

\* A batch that founds nothing is safe as soon as its outcome is fit.
LEMMA SafeSmall ==
  ASSUME NEW R, NEW n, NEW K, NEW batch, Fit(R, n), Complete(R), Going(Continue(Holding(R), batch), R, n, K),
         \A t \in Founding : \A id : Unused(K, t, id)
  PROVE  Safe(R, batch, n)
  <1> DEFINE S == Continue(Holding(R), batch).rows
  <1>1. Later(R, S)
    BY DEF Going
  <1>2. ASSUME NEW r \in S, r.table \in Founding PROVE \E q \in R : q.table = r.table /\ q.id = r.id
    <2>1. There(R, r.table, r.id)
      BY <1>2 DEF Going, Unused
    <2> QED BY <2>1 DEF There, Is
  <1>3. Complete(S)
    BY <1>1, <1>2, CompleteStays DEF Complete, Founding
  <1> QED BY <1>3, SafeEnd

\* An insert of a key that is new.
LEMMA PutNew ==
  ASSUME NEW R, NEW m \in Int, NEW K, NEW o, Going(o, R, m, K), NEW s, Put1(s),
         NEW t, NEW id, s.row.table = t, s.row.id = id, ~There(R, t, id), Unused(K, t, id),
         Asked(o, s) => Sound(o.rows, s.row, m), NEW P, P = Perform(o, s)
  PROVE  /\ Going(P, R, m, With(K, t, id))
         /\ Grown(o.rows, P.rows, s.row)
         /\ ~P.aborted => ~o.aborted
         /\ ~P.aborted /\ Met(o.rows, s.needs) /\ (s.do = "insert" \/ Unclashed(o, s)) => s.row \in P.rows
         /\ ~P.aborted /\ s.checked => Met(o.rows, s.needs)
  <1>1. Fresh(o.rows, s.row)
    BY NewHere DEF Fresh, Unused
  <1>2. Asked(o, s) /\ Unclashed(o, s) => Sound(o.rows, s.row, m) /\ Fresh(o.rows, s.row)
    BY <1>1
  <1>3. LET X == Perform(o, s)
        IN /\ Going(X, R, m, K \cup {<<s.row.table, s.row.id>>})
           /\ Kept(o.rows, X.rows)
           /\ X.rows = o.rows \/ X.rows = o.rows \cup {s.row}
           /\ o.aborted => X = o
           /\ ~X.aborted /\ ~Met(o.rows, s.needs) => ~s.checked /\ X.rows = o.rows
           /\ ~X.aborted /\ Met(o.rows, s.needs) /\ Unclashed(o, s) => X.rows = o.rows \cup {s.row}
           /\ ~X.aborted /\ Met(o.rows, s.needs) /\ ~Unclashed(o, s) => s.do = "ignore" /\ X.rows = o.rows
    BY <1>2, PutGoes
  <1>4. Going(P, R, m, With(K, t, id))
    BY <1>3 DEF With
  <1> QED BY <1>3, <1>4 DEF Grown

\* A row of a static table whose key the batch did not take was there before.
LEMMA StaticOld ==
  ASSUME NEW R, NEW m, NEW K, NEW o, Going(o, R, m, K), NEW r \in o.rows, r.table \in Static,
         Unused(K, r.table, r.id)
  PROVE  r \in R
  <1>1. PICK q \in R : q.table = r.table /\ q.id = r.id
    BY DEF Going, There, Is, Unused
  <1>2. q \in o.rows
    BY <1>1, LaterStatic DEF Going
  <1> QED BY <1>1, <1>2 DEF Going, Fit

\* A scope that was not there has no role that could be in the way.
LEMMA NoRole ==
  ASSUME NEW R, NEW n, Fit(R, n), NEW m, NEW K, NEW o, Going(o, R, m, K), NEW s \in ScopeKinds,
         NEW x, ~There(R, ScopeTable[s], x), \A id : Unused(K, RoleTable[s], id),
         NEW row, row.table = RoleTable[s], Col(row, ScopeColumn[s]) = x
  PROVE  Clashing(o.rows, row) = {}
  <1> SUFFICES ASSUME NEW q \in Clashing(o.rows, row) PROVE FALSE
    OBVIOUS
  <1>1. q \in o.rows /\ q.table = RoleTable[s] /\ Col(q, ScopeColumn[s]) = x
    BY RoleClash
  <1>2. q.table \in Static
    BY <1>1, Kinds DEF Static, RoleTables
  <1>3. q \in R
    BY <1>1, <1>2, StaticOld
  <1>4. ~Dangling(R, q)
    BY <1>3 DEF Fit, Sound
  <1> QED BY <1>1, <1>4, ScopeRefersTo

\* The columns of a role.
LEMMA OfIs ==
  ASSUME NEW s \in ScopeKinds, NEW x, NEW k
  PROVE  LET v == Of(s, x, [system_key |-> k])
         IN v[ScopeColumn[s]] = x /\ ScopeColumn[s] \in DOMAIN v
            /\ v.system_key = k /\ "system_key" \in DOMAIN v
  <1> DEFINE own == [system_key |-> k]
             v == Of(s, x, own)
  <1>1. DOMAIN own = {"system_key"} /\ own.system_key = k /\ "system_key" # ScopeColumn[s]
    BY Kinds
  <1> HIDE DEF own
  <1>2. v[ScopeColumn[s]] = x /\ ScopeColumn[s] \in DOMAIN v /\ v.system_key = k /\ "system_key" \in DOMAIN v
    BY <1>1 DEF Of, Over
  <1> QED BY <1>2 DEF own

\* The role a scope is given with it.
DefaultOf(s, x, id) == Entry(RoleTable[s], id, Of(s, x, [system_key |-> DefaultKey]), {"live", "default"})

\* The default role of a scope the batch inserts: no unique index is in its way.
LEMMA DefaultGoes ==
  ASSUME NEW R, NEW n, Begun(R, n), NEW K, NEW o, Going(o, R, n + Room, K), NEW s \in ScopeKinds,
         NEW x, ~There(R, ScopeTable[s], x), \A j : Unused(K, RoleTable[s], j),
         NEW id, Own(n, id),
         NEW st, st.do = "ignore", st.row = DefaultOf(s, x, id),
         Asked(o, st) => There(o.rows, ScopeTable[s], x), NEW P, P = Perform(o, st)
  PROVE  /\ Going(P, R, n + Room, With(K, RoleTable[s], id))
         /\ Grown(o.rows, P.rows, DefaultOf(s, x, id))
         /\ ~P.aborted => ~o.aborted
         /\ ~P.aborted /\ Met(o.rows, st.needs) => DefaultOf(s, x, id) \in P.rows
         /\ ~P.aborted /\ st.checked => Met(o.rows, st.needs)
  <1> DEFINE row == DefaultOf(s, x, id)
  <1>1. /\ row.table = RoleTable[s] /\ row.id = id /\ RoleTable[s] # "page_columns_values"
        /\ row.val = Of(s, x, [system_key |-> DefaultKey])
    BY Kinds DEF DefaultOf, Entry
  <1>2. Number(id, n + Room) /\ ~There(R, RoleTable[s], id) /\ n + Room \in Int /\ Fit(R, n)
    BY <1>1, OwnNumber DEF Begun, Room
  <1>3. Col(row, ScopeColumn[s]) = x
    <2> HIDE DEF row
    <2>1. row.val[ScopeColumn[s]] = x /\ ScopeColumn[s] \in DOMAIN row.val
      BY <1>1, OfIs
    <2> QED BY <2>1 DEF Col
  <1>4. Asked(o, st) => Sound(o.rows, row, n + Room)
    <2>1. Key(DefaultKey, n + Room)
      BY DEF Key, DefaultKey
    <2> QED BY <1>2, <2>1, RoleSound DEF DefaultOf, Flags
  <1> HIDE DEF row
  <1>5. Unclashed(o, st)
    BY <1>1, <1>2, <1>3, NoRole DEF row, Unclashed
  <1>6. st.row = row /\ row.table = RoleTable[s] /\ row.id = id /\ Unused(K, RoleTable[s], id)
        /\ ~There(R, RoleTable[s], id) /\ n + Room \in Int /\ Put1(st)
    BY <1>1, <1>2 DEF row, Put1
  <1>7. /\ Going(P, R, n + Room, With(K, RoleTable[s], id))
        /\ Grown(o.rows, P.rows, st.row)
        /\ ~P.aborted => ~o.aborted
        /\ ~P.aborted /\ Met(o.rows, st.needs) /\ (st.do = "insert" \/ Unclashed(o, st)) => st.row \in P.rows
        /\ ~P.aborted /\ st.checked => Met(o.rows, st.needs)
    BY <1>4, <1>6, PutNew
  <1> QED BY <1>5, <1>6, <1>7 DEF row

\* The rows are complete when what the batch founds is.
LEMMA CompleteWith ==
  ASSUME NEW R, NEW m, NEW K, NEW o, Going(o, R, m, K), Complete(R),
         \A id : ~Unused(K, "organizations", id) /\ There(o.rows, "organizations", id) =>
                    GivesDefault(o.rows, "organization", id),
         \A id : ~Unused(K, "workspaces", id) /\ There(o.rows, "workspaces", id) =>
                    GivesDefault(o.rows, "workspace", id),
         \A id : ~Unused(K, "schedule_pin_requests", id) /\ There(o.rows, "schedule_pin_requests", id) =>
                    Noticed(o.rows, id)
  PROVE  Complete(o.rows)
  <1>1. Later(R, o.rows)
    BY DEF Going
  <1>2. ASSUME NEW r \in o.rows
        PROVE  There(o.rows, r.table, r.id) /\ (There(R, r.table, r.id) \/ ~Unused(K, r.table, r.id))
    BY DEF Going, There, Is, Unused
  <1>3. /\ \A r \in R : r.table = "organizations" => GivesDefault(o.rows, "organization", r.id)
        /\ \A r \in R : r.table = "workspaces" => GivesDefault(o.rows, "workspace", r.id)
        /\ \A r \in R : r.table = "schedule_pin_requests" => Noticed(o.rows, r.id)
    BY <1>1, CompleteStays
  <1>4. \A t, id : There(R, t, id) => \E r \in R : r.table = t /\ r.id = id
    BY DEF There, Is
  <1>5. ASSUME NEW r \in o.rows, r.table = "organizations" PROVE GivesDefault(o.rows, "organization", r.id)
    BY <1>2, <1>3, <1>4, <1>5
  <1>6. ASSUME NEW r \in o.rows, r.table = "workspaces" PROVE GivesDefault(o.rows, "workspace", r.id)
    <2>1. There(o.rows, "workspaces", r.id) /\ (There(R, "workspaces", r.id) \/ ~Unused(K, "workspaces", r.id))
      BY <1>2, <1>6
    <2> QED BY <1>3, <1>4, <2>1
  <1>7. ASSUME NEW r \in o.rows, r.table = "schedule_pin_requests" PROVE Noticed(o.rows, r.id)
    BY <1>2, <1>3, <1>4, <1>7
  <1> QED BY <1>5, <1>6, <1>7 DEF Complete

\* A batch after the transaction aborted.
LEMMA AbortedStays ==
  ASSUME NEW o, o.aborted, NEW batch, Len(batch) \in Nat
  PROVE  Continue(o, batch) = o
  <1> DEFINE t == [i \in 0..Len(batch) |-> o]
  <1>0. ASSUME NEW s PROVE Perform(o, s) = o
    BY AbortedStops
  <1>1. \A i \in 0..Len(batch) : t[i] = o
    OBVIOUS
  <1> HIDE DEF t
  <1>2. ASSUME NEW i \in 1..Len(batch) PROVE t[i] = Perform(t[i - 1], batch[i])
    <2>1. i \in 0..Len(batch) /\ i - 1 \in 0..Len(batch)
      OBVIOUS
    <2> QED BY <1>0, <1>1, <2>1
  <1> QED BY <1>1, <1>2, OneTrace

\* Statements that leave everything but links.
Stays(R, S) == Later(R, S) /\ \A t, id : t # "page_relation_links" /\ There(R, t, id) => There(S, t, id)

\* Statements each of which keeps what the others need.
LEMMA EachGoes ==
  ASSUME NEW R, NEW m, NEW K, NEW o, Going(o, R, m, K), NEW batch, Len(batch) \in Nat,
         \A i \in 1..Len(batch) : \A p : Going(p, R, m, K) /\ Stays(o.rows, p.rows) =>
             Going(Perform(p, batch[i]), R, m, K) /\ Stays(p.rows, Perform(p, batch[i]).rows)
  PROVE  Going(Continue(o, batch), R, m, K) /\ Stays(o.rows, Continue(o, batch).rows)
  <1>1. PICK f : Trace(o, batch, f)
    BY Traced
  <1>2. /\ f[0] = o /\ f[Len(batch)] = Continue(o, batch)
        /\ \A i \in 1..Len(batch) : f[i] = Perform(f[i - 1], batch[i])
    BY <1>1, TraceSteps
  <1> DEFINE Good(p) == Going(p, R, m, K) /\ Stays(o.rows, p.rows)
             S == {i \in Nat : i <= Len(batch) => Good(f[i])}
  <1>3. 0 \in S
    BY <1>2, LaterSelf DEF Stays
  <1>4. ASSUME NEW k \in Nat, k \in S PROVE k + 1 \in S
    <2>1. CASE k + 1 <= Len(batch)
      <3>1. Good(f[k]) /\ k + 1 \in 1..Len(batch) /\ (k + 1) - 1 = k
        BY <1>4, <2>1
      <3>2. f[k + 1] = Perform(f[k], batch[k + 1])
        BY <1>2, <3>1
      <3>3. Going(f[k + 1], R, m, K) /\ Stays(f[k].rows, f[k + 1].rows)
        BY <3>1, <3>2
      <3>4. Stays(o.rows, f[k + 1].rows)
        BY <3>1, <3>3, LaterTrans DEF Stays
      <3> QED BY <3>3, <3>4
    <2>2. CASE ~(k + 1 <= Len(batch))
      BY <2>2
    <2> QED BY <2>1, <2>2
  <1>5. Len(batch) \in S
    <2> HIDE DEF S
    <2> QED BY <1>3, <1>4, EveryNat
  <1> QED BY <1>2, <1>5

-----------------------------------------------------------------------------
(* The transactions of one statement.                                       *)

\* An account is a row of users.
LEMMA AccountThere ==
  ASSUME NEW u \in Accounts
  PROVE  There(stored, "users", u)
  BY DEF Accounts, RowsOf, There, Is

\* An id of a table is of a row.
LEMMA IdThere ==
  ASSUME NEW t, NEW x \in IdsOf(t)
  PROVE  There(stored, t, x)
  BY DEF IdsOf, RowsOf, There, Is

\* What is known of a row that is there.
LEMMA RowSound ==
  ASSUME RecordsInd, NEW t, NEW r \in RowsOf(t)
  PROVE  /\ r \in stored /\ r.table = t /\ There(stored, t, r.id)
         /\ Sound(stored, r, Room * batches) /\ Sound(stored, r, Room * batches + Room)
         /\ \A c \in Filled[t] : c \in DOMAIN r.val /\ Col(r, c) = r.val[c]
  <1>1. r \in stored /\ r.table = t /\ There(stored, t, r.id)
    BY DEF RowsOf, There, Is
  <1>2. Fit(stored, Room * batches) /\ Fit(stored, Room * batches + Room)
    BY IndBegun, Begins DEF RecordsInd
  <1>3. Sound(stored, r, Room * batches) /\ Sound(stored, r, Room * batches + Room)
    BY <1>1, <1>2 DEF Fit
  <1>4. \A c \in Filled[t] : c \in DOMAIN r.val /\ Col(r, c) = r.val[c]
    BY <1>1, <1>3 DEF Sound, Typed, Col
  <1> QED BY <1>1, <1>3, <1>4

\* AskToEnter keeps the invariant.
LEMMA AskToEnterKeeps ==
  ASSUME RecordsInd, NEW s \in ScopeKinds, NEW x \in IdsOf(ScopeTable[s]), NEW u \in Accounts, AskToEnter(s, x, u)
  PROVE  RecordsInd'
  <1> DEFINE needs == {IF s = "page" THEN Alive("pages", x) ELSE Has(ScopeTable[s], x)}
             st == If(needs, As({"pending"}, OrIgnore(Put(RequestTable[s], Id(1), Of(s, x, [requester_id |-> u])))))
             row == Entry(RequestTable[s], Id(1), Of(s, x, [requester_id |-> u]), {"live", "pending"})
             n == Room * batches
  <1>1. st.do = "ignore" /\ st.row = row
    BY DEF If, As, OrIgnore, Put, Statement, Entry
  <1>2. row.table = RequestTable[s] /\ row.id = Id(1)
    BY DEF Entry
  <1>3. Sound(stored, row, n + Room)
    BY IndBegun, AccountThere, IdThere, RequestSound
  <1>4. Execute(<<st>>)
    BY DEF AskToEnter
  <1> HIDE DEF st, row
  <1>5. Fresh(stored, row) /\ row.table \notin Founding
    BY <1>2, IndBegun, Kinds DEF Fresh, Founding
  <1>6. Safe(stored, <<st>>, n + Room)
    BY <1>1, <1>3, <1>5, IndBegun, SafeInsert DEF Put1
  <1> QED BY <1>4, <1>6, SafeKeeps

\* Dismiss keeps the invariant.
LEMMA DismissKeeps ==
  ASSUME RecordsInd, NEW s \in ScopeKinds, NEW m \in LiveOf(MemberTable[s]), Dismiss(s, m)
  PROVE  RecordsInd'
  <1>1. Schema[MemberTable[s]].soft /\ MemberTable[s] \notin Static
    BY Kinds, SchemaIs DEF OrganizationMembers, PageCollaborators, WorkspaceMembers, MembersOf, Soft, Table,
       Static, RoleTables
  <1>2. Execute(<<Delete(MemberTable[s], m.id)>>)
    BY DEF Dismiss
  <1> QED BY <1>1, <1>2, IndBegun, SafeDelete, SafeKeeps

\* DeletePage keeps the invariant.
LEMMA DeletePageKeeps ==
  ASSUME RecordsInd, NEW p, DeletePage(p)
  PROVE  RecordsInd'
  <1>1. Schema["pages"].soft /\ "pages" \notin Static
    BY SchemaIs DEF PagesTable, Soft, Table, Static, RoleTables
  <1>2. Execute(<<Delete("pages", p)>>)
    BY DEF DeletePage
  <1> QED BY <1>1, <1>2, IndBegun, SafeDelete, SafeKeeps

\* DeleteColumn keeps the invariant.
LEMMA DeleteColumnKeeps ==
  ASSUME RecordsInd, NEW c, DeleteColumn(c)
  PROVE  RecordsInd'
  <1>1. Schema["page_columns"].soft /\ "page_columns" \notin Static
    BY SchemaIs DEF PageColumns, Soft, Table, Static, RoleTables
  <1>2. Execute(<<Delete("page_columns", c)>>)
    BY DEF DeleteColumn
  <1> QED BY <1>1, <1>2, IndBegun, SafeDelete, SafeKeeps

\* The actions that erase a row keep the invariant.
LEMMA ErasingKeeps ==
  ASSUME RecordsInd, NEW t \in Erasable, NEW id, Execute(<<Delete(t, id)>>)
  PROVE  RecordsInd'
  <1>1. t \notin Static
    BY DEF Static, RoleTables, Erasable
  <1> QED BY <1>1, IndBegun, SafeDelete, SafeKeeps

\* ClearCell keeps the invariant.
LEMMA ClearCellKeeps ==
  ASSUME RecordsInd, NEW v, ClearCell(v)
  PROVE  RecordsInd'
  BY ErasingKeeps DEF ClearCell, Erasable

\* RemoveFavorite keeps the invariant.
LEMMA RemoveFavoriteKeeps ==
  ASSUME RecordsInd, NEW f, RemoveFavorite(f)
  PROVE  RecordsInd'
  BY ErasingKeeps DEF RemoveFavorite, Erasable

\* Unpin keeps the invariant.
LEMMA UnpinKeeps ==
  ASSUME RecordsInd, NEW pin, Unpin(pin)
  PROVE  RecordsInd'
  BY ErasingKeeps DEF Unpin, Erasable

\* CreateColumn keeps the invariant.
LEMMA CreateColumnKeeps ==
  ASSUME RecordsInd, NEW p \in IdsOf("pages"), CreateColumn(p)
  PROVE  RecordsInd'
  <1> DEFINE st == Put("page_columns", Id(1), [parent_id |-> p])
             row == Entry("page_columns", Id(1), [parent_id |-> p], {"live"})
             n == Room * batches
  <1>1. st.do = "insert" /\ st.row = row /\ row.table = "page_columns" /\ row.id = Id(1)
    BY DEF Put, Statement, Entry
  <1>2. Sound(stored, row, n + Room)
    BY IndBegun, IdThere, ColumnSound
  <1>3. Execute(<<st>>)
    BY DEF CreateColumn
  <1> HIDE DEF st, row
  <1>4. Fresh(stored, row) /\ row.table \notin Founding
    BY <1>1, IndBegun DEF Fresh, Founding
  <1>5. Safe(stored, <<st>>, n + Room)
    BY <1>1, <1>2, <1>4, IndBegun, SafeInsert DEF Put1
  <1> QED BY <1>3, <1>5, SafeKeeps

\* AddFavorite keeps the invariant.
LEMMA AddFavoriteKeeps ==
  ASSUME RecordsInd, NEW u \in Accounts, NEW p \in IdsOf("pages"), AddFavorite(u, p)
  PROVE  RecordsInd'
  <1> DEFINE st == If({Alive("pages", p)}, OrIgnore(Put("page_favorites", Id(1), [user_id |-> u, page_id |-> p])))
             row == Entry("page_favorites", Id(1), [user_id |-> u, page_id |-> p], {"live"})
             n == Room * batches
  <1>1. st.do = "ignore" /\ st.row = row /\ row.table = "page_favorites" /\ row.id = Id(1)
    BY DEF If, OrIgnore, Put, Statement, Entry
  <1>2. Sound(stored, row, n + Room)
    BY IndBegun, AccountThere, IdThere, FavoriteSound
  <1>3. Execute(<<st>>)
    BY DEF AddFavorite
  <1> HIDE DEF st, row
  <1>4. Fresh(stored, row) /\ row.table \notin Founding
    BY <1>1, IndBegun DEF Fresh, Founding
  <1>5. Safe(stored, <<st>>, n + Room)
    BY <1>1, <1>2, <1>4, IndBegun, SafeInsert DEF Put1
  <1> QED BY <1>3, <1>5, SafeKeeps

\* A rank that was there already.
LEMMA RankMerged ==
  ASSUME NEW R, NEW n, NEW e, There(R, "page_edges", e), NEW view, NEW id, NEW s,
         s.row = Entry("page_view_row_order", id, [edge_id |-> e, view_id |-> view], {"live"}),
         NEW old, Sound(R, old, n), old.table = "page_view_row_order"
  PROVE  Sound(R, Merged(old, s), n) /\ Heir(old, Merged(old, s))
  <1> DEFINE x == Merged(old, s)
  <1>1. s.row.val = [edge_id |-> e, view_id |-> view] /\ s.row.flags = {"live"}
    BY DEF Entry
  <1>2. /\ x.table = "page_view_row_order" /\ x.id = old.id /\ x.flags = {"live"}
        /\ DOMAIN x.val = {"edge_id", "view_id"} \cup DOMAIN old.val
        /\ \A c \in DOMAIN old.val : c \notin {"edge_id", "view_id"} => x.val[c] = old.val[c]
        /\ Col(x, "edge_id") = e
    BY <1>1, MergedIs, MergedCol
  <1> HIDE DEF x
  <1>3. ~Dangling(R, x)
    BY <1>2, RowOrderPlaced
  <1>4. Typed(x) /\ Numbered(x, n) /\ Whole(R, x)
    BY <1>2 DEF Sound, Typed, Numbered, Whole, Filled, Flags, RoleTables
  <1>5. Heir(old, x)
    BY <1>2 DEF Heir, Static, RoleTables
  <1> QED BY <1>3, <1>4, <1>5 DEF Sound, x

\* RankRow keeps the invariant.
LEMMA RankRowKeeps ==
  ASSUME RecordsInd, NEW e \in RowsOf("page_edges"), NEW view, RankRow(e, view)
  PROVE  RecordsInd'
  <1> DEFINE st == OrUpdate(Put("page_view_row_order", Id(1), [edge_id |-> e.id, view_id |-> view]))
             row == Entry("page_view_row_order", Id(1), [edge_id |-> e.id, view_id |-> view], {"live"})
             cs == [st EXCEPT !.checked = TRUE]
             n == Room * batches
  <1>1. cs.do = "update" /\ cs.row = row /\ row.table = "page_view_row_order" /\ row.id = Id(1)
    BY DEF OrUpdate, Put, Statement, Entry
  <1>2. Sound(stored, row, n + Room)
    BY IndBegun, RowSound, RankSound
  <1>4. ASSUME NEW old \in Clashing(stored, row) PROVE Sound(stored, Merged(old, cs), n + Room) /\ Heir(old, Merged(old, cs))
    <2>1. old \in RowsOf("page_view_row_order")
      BY <1>1 DEF Clashing, RowsOf
    <2> HIDE DEF cs
    <2> QED BY <1>1, <2>1, RowSound, RankMerged
  <1> HIDE DEF cs, row
  <1>5. Fresh(stored, row) /\ row.table \notin Founding
    BY <1>1, IndBegun DEF Fresh, Founding
  <1>6. Safe(stored, <<cs>>, n + Room)
    BY <1>1, <1>2, <1>4, <1>5, IndBegun, SafeUpdate
  <1>7. Continue(Holding(stored), Checked(<<st>>)) = Continue(Holding(stored), <<cs>>)
    BY CheckedOne, ContinueOne DEF cs
  <1>8. Safe(stored, Checked(<<st>>), n + Room)
    BY <1>6, <1>7 DEF Safe, Run, Ended
  <1> QED BY <1>8, SafeKeeps DEF RankRow

\* What the only unique index of a table has against a row.
LEMMA ClashOn ==
  ASSUME NEW R, NEW row, NEW C, Schema[row.table].unique = {Unique(C)}
  PROVE  /\ \A old \in Clashing(R, row) :
              old \in R /\ old.table = row.table /\ \A c \in C : Col(old, c) = Col(row, c)
         /\ \A old \in R : old.table = row.table /\ (\A c \in C : Col(old, c) = Col(row, c) /\ Col(row, c) # Null)
              => old \in Clashing(R, row)
  <1>1. Unique(C).columns = C /\ Unique(C).flags = {}
    BY DEF Unique
  <1> QED BY <1>1 DEF Clashing

\* SaveDocument keeps the invariant.
LEMMA SaveDocumentKeeps ==
  ASSUME RecordsInd, NEW p \in IdsOf("pages"), SaveDocument(p)
  PROVE  RecordsInd'
  <1> DEFINE st == If({Alive("pages", p)}, OrUpdate(Put("page_blocks", Id(1), [page_id |-> p])))
             row == Entry("page_blocks", Id(1), [page_id |-> p], {"live"})
             n == Room * batches
  <1>1. st.do = "update" /\ st.row = row
    BY DEF If, OrUpdate, Put, Statement, Entry
  <1>2. /\ row.table = "page_blocks" /\ row.id = Id(1) /\ row.val = [page_id |-> p] /\ row.flags = {"live"}
        /\ Col(row, "page_id") = p /\ DOMAIN row.val = {"page_id"}
    BY DEF Entry, Col
  <1>3. Sound(stored, row, n + Room) /\ There(stored, "pages", p)
    BY IndBegun, IdThere, BlockSound
  <1>4. Execute(<<st>>)
    BY DEF SaveDocument
  <1> HIDE DEF st, row
  <1>5. ASSUME NEW old \in Clashing(stored, row)
        PROVE  Sound(stored, Merged(old, st), n + Room) /\ Heir(old, Merged(old, st))
    <2>1. Schema[row.table].unique = {Unique({"page_id"})}
      BY <1>2, SchemaIs DEF PageBlocks, Table
    <2>2. old \in stored /\ old.table = "page_blocks" /\ Col(old, "page_id") = p
      BY <1>2, <2>1, ClashOn
    <2>3. Sound(stored, old, n + Room)
      BY <2>2, RowSound DEF RowsOf
    <2>4. Merged(old, st).table = "page_blocks" /\ Col(Merged(old, st), "page_id") = p
      BY <1>1, <1>2, <2>2, MergedIs, MergedCol
    <2>5. ~Dangling(stored, Merged(old, st))
      BY <1>3, <2>4, BlocksPlaced
    <2>6. \A c \in DOMAIN st.row.val : c \in DOMAIN old.val => st.row.val[c] = old.val[c]
      BY <1>1, <1>2, <2>2 DEF Col
    <2> QED BY <1>1, <1>2, <2>2, <2>3, <2>5, <2>6, MergedSound DEF Static, RoleTables, Flags
  <1>6. Fresh(stored, row) /\ row.table \notin Founding
    BY <1>2, IndBegun DEF Fresh, Founding
  <1>7. Safe(stored, <<st>>, n + Room)
    BY <1>1, <1>3, <1>5, <1>6, IndBegun, SafeUpdate
  <1> QED BY <1>4, <1>7, SafeKeeps

\* PublishForm keeps the invariant.
LEMMA PublishFormKeeps ==
  ASSUME RecordsInd, NEW u \in Accounts, NEW p \in IdsOf("pages"), NEW view, PublishForm(p, view, u)
  PROVE  RecordsInd'
  <1> DEFINE val == [page_id |-> p, view_id |-> view, created_by_user_id |-> u,
                     submit_token_hash |-> Id(1), review_token_hash |-> Id(1)]
             st == OrUpdate(Put("page_form_publications", Id(1), val))
             row == Entry("page_form_publications", Id(1), val, {"live"})
             n == Room * batches
  <1>1. st.do = "update" /\ st.row = row
    BY DEF OrUpdate, Put, Statement, Entry
  <1>2. /\ row.table = "page_form_publications" /\ row.id = Id(1) /\ row.val = val /\ row.flags = {"live"}
        /\ DOMAIN row.val = {"page_id", "view_id", "created_by_user_id", "submit_token_hash", "review_token_hash"}
    BY DEF Entry
  <1>3. /\ row.val.page_id = p /\ row.val.created_by_user_id = u
        /\ row.val.submit_token_hash = Id(1) /\ row.val.review_token_hash = Id(1)
        /\ Col(row, "page_id") = p /\ Col(row, "submit_token_hash") = Id(1) /\ Col(row, "review_token_hash") = Id(1)
    BY <1>2 DEF Col
  <1>4. Key(Id(1), n + Room) /\ Id(1) \in Int /\ n \in Nat /\ Id(1) > n
    <2>1. batches \in Nat /\ Room * batches \in Nat
      BY RecordsAssumption DEF RecordsInd, Room
    <2> QED BY <2>1, IndBegun
  <1>5. Sound(stored, row, n + Room) /\ There(stored, "pages", p) /\ There(stored, "users", u)
    BY <1>4, IndBegun, IdThere, AccountThere, PublicationSound
  <1>6. Execute(<<st>>)
    BY DEF PublishForm
  <1> HIDE DEF st, row, val
  <1>7. ASSUME NEW old \in Clashing(stored, row)
        PROVE  Sound(stored, Merged(old, st), n + Room) /\ Heir(old, Merged(old, st))
    <2>1. Schema[row.table].unique =
             {Unique({"page_id", "view_id"}), Unique({"submit_token_hash"}), Unique({"review_token_hash"})}
      BY <1>2, SchemaIs DEF PageFormPublications, Table
    <2>2. /\ old \in stored /\ old.table = "page_form_publications"
          /\ \/ Col(old, "page_id") = Col(row, "page_id")
             \/ Col(old, "submit_token_hash") = Col(row, "submit_token_hash")
             \/ Col(old, "review_token_hash") = Col(row, "review_token_hash")
      BY <1>2, <2>1 DEF Clashing, Unique
    <2>3. /\ Sound(stored, old, n + Room) /\ Sound(stored, old, n)
          /\ \A c \in Filled["page_form_publications"] : c \in DOMAIN old.val /\ Col(old, c) = old.val[c]
      BY <2>2, RowSound DEF RowsOf
    <2>4. Key(Col(old, "submit_token_hash"), n) /\ Key(Col(old, "review_token_hash"), n)
      <3>1. Col(old, "submit_token_hash") = old.val.submit_token_hash
            /\ Col(old, "review_token_hash") = old.val.review_token_hash
        BY <2>3 DEF Filled
      <3> QED BY <2>2, <2>3, <3>1 DEF Sound, Numbered
    <2>5. Col(old, "page_id") = p
      BY <1>3, <1>4, <2>2, <2>4 DEF Key
    <2>6. old.val.page_id = p
      BY <2>3, <2>5 DEF Filled
    <2>7. /\ Merged(old, st).table = "page_form_publications"
          /\ \A c \in DOMAIN row.val : Merged(old, st).val[c] = row.val[c] /\ Col(Merged(old, st), c) = row.val[c]
      BY <1>1, <2>2, MergedIs, MergedCol
    <2>8. /\ Col(Merged(old, st), "page_id") = p /\ Col(Merged(old, st), "created_by_user_id") = u
          /\ Key(Merged(old, st).val.submit_token_hash, n + Room) /\ Key(Merged(old, st).val.review_token_hash, n + Room)
      BY <1>2, <1>3, <1>4, <2>7
    <2>9. ~Dangling(stored, Merged(old, st))
      BY <1>5, <2>7, <2>8, PublicationsPlaced
    <2>10. \A c \in DOMAIN st.row.val : c \in Lasting(old.table) => st.row.val[c] = old.val[c]
      BY <1>1, <1>2, <1>3, <2>2, <2>6 DEF Lasting, Filled, Changing
    <2> QED BY <1>1, <1>2, <2>2, <2>3, <2>8, <2>9, <2>10, MergedSound DEF Static, RoleTables, Flags
  <1>8. Fresh(stored, row) /\ row.table \notin Founding
    BY <1>2, IndBegun DEF Fresh, Founding
  <1>9. Safe(stored, <<st>>, n + Room)
    BY <1>1, <1>5, <1>7, <1>8, IndBegun, SafeUpdate
  <1> QED BY <1>6, <1>9, SafeKeeps

\* The ends of an edge are pages there are.
LEMMA EdgeEnds ==
  ASSUME RecordsInd, NEW e \in RowsOf("page_edges")
  PROVE  /\ There(stored, "pages", e.val.parent_id) /\ There(stored, "pages", e.val.child_id)
         /\ Number(e.val.parent_id, Room * batches) /\ Number(e.val.child_id, Room * batches)
  <1>1. /\ e \in stored /\ e.table = "page_edges" /\ Sound(stored, e, Room * batches)
        /\ Col(e, "parent_id") = e.val.parent_id /\ Col(e, "child_id") = e.val.child_id
    BY RowSound DEF Filled
  <1>2. There(stored, "pages", e.val.parent_id) /\ There(stored, "pages", e.val.child_id)
    BY <1>1, EdgesPlaced DEF Sound
  <1>3. ASSUME NEW x, There(stored, "pages", x) PROVE Number(x, Room * batches)
    <2>1. PICK r \in stored : r.table = "pages" /\ r.id = x
      BY <1>3 DEF There, Is
    <2>2. Numbered(r, Room * batches)
      BY <2>1 DEF RecordsInd, Fit, Sound
    <2> QED BY <2>1, <2>2 DEF Numbered
  <1> QED BY <1>2, <1>3

\* Pin keeps the invariant.
LEMMA PinKeeps ==
  ASSUME RecordsInd, NEW w \in IdsOf("workspaces"), NEW u \in Accounts, NEW e \in RowsOf("page_edges"),
         NEW c \in RowsOf("page_columns"), Pin(w, u, e, c)
  PROVE  RecordsInd'
  <1> DEFINE p == e.val.child_id
             val == [workspace_id |-> w, page_id |-> p, pinned_by_user_id |-> u, date_column_id |-> c.id]
             st == OrUpdate(Put("pinned_schedule_pages", Id(1), val))
             row == Entry("pinned_schedule_pages", Id(1), val, {"live"})
             n == Room * batches
  <1>1. st.do = "update" /\ st.row = row
    BY DEF OrUpdate, Put, Statement, Entry
  <1>2. /\ row.table = "pinned_schedule_pages" /\ row.id = Id(1) /\ row.val = val /\ row.flags = {"live"}
        /\ DOMAIN row.val = {"workspace_id", "page_id", "pinned_by_user_id", "date_column_id"}
    BY DEF Entry
  <1>3. There(stored, "workspaces", w) /\ There(stored, "pages", p) /\ There(stored, "users", u)
        /\ There(stored, "page_columns", c.id)
    BY IdThere, AccountThere, RowSound, EdgeEnds
  <1>4. Sound(stored, row, n + Room)
    <2> HIDE DEF p
    <2> QED BY <1>3, IndBegun, PinnedSound
  <1>5. /\ Col(row, "workspace_id") = w /\ Col(row, "page_id") = p /\ Col(row, "pinned_by_user_id") = u
        /\ row.val.workspace_id = w /\ row.val.page_id = p /\ row.val.pinned_by_user_id = u
        /\ row.val.date_column_id = c.id
    BY <1>2 DEF Col
  <1>6. Execute(<<st>>)
    BY DEF Pin
  <1> HIDE DEF st, row, val, p
  <1>7. ASSUME NEW old \in Clashing(stored, row)
        PROVE  Sound(stored, Merged(old, st), n + Room) /\ Heir(old, Merged(old, st))
    <2>1. Schema[row.table].unique = {Unique({"workspace_id", "pinned_by_user_id", "page_id"})}
      BY <1>2, SchemaIs DEF PinnedSchedulePages, Table
    <2>2. old \in stored /\ old.table = "pinned_schedule_pages" /\ Col(old, "page_id") = p
      BY <1>2, <1>5, <2>1, ClashOn
    <2>3. Sound(stored, old, n + Room)
      BY <2>2, RowSound DEF RowsOf
    <2>4. /\ Merged(old, st).table = "pinned_schedule_pages"
          /\ \A k \in DOMAIN row.val : Col(Merged(old, st), k) = row.val[k]
          /\ \A k : k \notin DOMAIN row.val => Col(Merged(old, st), k) = Col(old, k)
      BY <1>1, <2>2, MergedIs, MergedCol
    <2>5. /\ Col(Merged(old, st), "workspace_id") = w /\ Col(Merged(old, st), "page_id") = p
          /\ Col(Merged(old, st), "pinned_by_user_id") = u /\ Col(Merged(old, st), "date_column_id") = c.id
          /\ Col(Merged(old, st), "color_column_id") = Col(old, "color_column_id")
      BY <1>2, <1>5, <2>4
    <2>6. ~Dangling(stored, old)
      BY <2>3 DEF Sound
    <2>7. ~Dangling(stored, Merged(old, st))
      BY <1>3, <2>2, <2>4, <2>5, <2>6, PinsPlaced
    <2>8. \A k \in DOMAIN st.row.val : k \in Lasting(old.table) /\ k \in DOMAIN old.val => st.row.val[k] = old.val[k]
      <3>1. \A k \in DOMAIN row.val : k \in Lasting("pinned_schedule_pages") => k = "page_id"
        BY <1>2 DEF Lasting, Filled
      <3>2. "page_id" \in DOMAIN old.val => old.val["page_id"] = p
        BY <2>2 DEF Col
      <3> QED BY <1>1, <1>5, <2>2, <3>1, <3>2
    <2> QED BY <1>1, <1>2, <2>2, <2>3, <2>7, <2>8, MergedSound DEF Static, RoleTables, Flags
  <1>8. Fresh(stored, row) /\ row.table \notin Founding
    BY <1>2, IndBegun DEF Fresh, Founding
  <1>9. Safe(stored, <<st>>, n + Room)
    BY <1>1, <1>4, <1>7, <1>8, IndBegun, SafeUpdate
  <1> QED BY <1>6, <1>9, SafeKeeps

\* DecidePin keeps the invariant.
LEMMA DecidePinKeeps ==
  ASSUME RecordsInd, NEW request \in RowsOf("schedule_pin_requests"), DecidePin(request)
  PROVE  RecordsInd'
  <1> DEFINE st == If({<<"schedule_pin_requests", request.id, {"pending"}>>},
                      Mark("schedule_pin_requests", request.id, <<>>, {"live"}))
             n == Room * batches
  <1>1. /\ st.do = "mark" /\ st.row.table = "schedule_pin_requests" /\ st.row.id = request.id
        /\ st.row.val = <<>> /\ st.row.flags = {"live"}
    BY DEF If, Mark, Statement, Entry
  <1>2. Execute(<<st>>)
    BY DEF DecidePin
  <1> HIDE DEF st
  <1>3. ASSUME NEW old \in stored, Is(old, st.row.table, st.row.id)
        PROVE  Sound(stored, Merged(old, st), n + Room) /\ Heir(old, Merged(old, st))
    <2>1. old.table = "schedule_pin_requests"
      BY <1>1, <1>3 DEF Is
    <2>2. Sound(stored, old, n + Room)
      BY <2>1, RowSound DEF RowsOf
    <2> QED BY <1>1, <2>1, <2>2, FlagsSound DEF Static, RoleTables, Flags
  <1>4. Safe(stored, <<st>>, n + Room)
    BY <1>1, <1>3, IndBegun, SafeMark
  <1> QED BY <1>2, <1>4, SafeKeeps

-----------------------------------------------------------------------------
(* Organizations and workspaces.                                            *)

\* The fields of a row.
LEMMA EntryIs ==
  ASSUME NEW t, NEW id, NEW val, NEW flags
  PROVE  LET r == Entry(t, id, val, flags)
         IN r.table = t /\ r.id = id /\ r.val = val /\ r.flags = flags /\ Is(r, t, id)
  BY DEF Entry, Is

\* The fields of a default role.
LEMMA DefaultOfIs ==
  ASSUME NEW s \in ScopeKinds, NEW x, NEW id
  PROVE  LET q == DefaultOf(s, x, id)
         IN /\ q.table = RoleTable[s] /\ q.id = id /\ q.val[ScopeColumn[s]] = x /\ Col(q, ScopeColumn[s]) = x
            /\ "default" \in q.flags /\ Is(q, RoleTable[s], id)
  <1> DEFINE q == DefaultOf(s, x, id)
  <1>1. q.table = RoleTable[s] /\ q.id = id /\ q.val = Of(s, x, [system_key |-> DefaultKey])
        /\ q.flags = {"live", "default"}
    BY DEF DefaultOf, Entry
  <1>2. q.val[ScopeColumn[s]] = x /\ ScopeColumn[s] \in DOMAIN q.val
    <2> HIDE DEF q
    <2> QED BY <1>1, OfIs
  <1> HIDE DEF q
  <1>3. q.table = RoleTable[s] /\ q.id = id /\ q.val[ScopeColumn[s]] = x /\ Col(q, ScopeColumn[s]) = x
        /\ "default" \in q.flags /\ Is(q, RoleTable[s], id)
    BY <1>1, <1>2 DEF Col, Is
  <1> QED BY <1>3 DEF q

KeyedOf(s, x, id, key) == Entry(RoleTable[s], id, Of(s, x, [system_key |-> key]), {"live"})

\* The fields of a keyed role.
LEMMA KeyedOfIs ==
  ASSUME NEW s \in ScopeKinds, NEW x, NEW id, NEW key
  PROVE  LET q == KeyedOf(s, x, id, key)
         IN /\ q.table = RoleTable[s] /\ q.id = id /\ q.val[ScopeColumn[s]] = x /\ Col(q, ScopeColumn[s]) = x
            /\ Col(q, "system_key") = key /\ "default" \notin q.flags /\ Is(q, RoleTable[s], id)
  <1> DEFINE q == KeyedOf(s, x, id, key)
  <1>1. q.table = RoleTable[s] /\ q.id = id /\ q.val = Of(s, x, [system_key |-> key]) /\ q.flags = {"live"}
    BY DEF KeyedOf, Entry
  <1>2. q.val[ScopeColumn[s]] = x /\ ScopeColumn[s] \in DOMAIN q.val
        /\ q.val.system_key = key /\ "system_key" \in DOMAIN q.val
    <2> HIDE DEF q
    <2> QED BY <1>1, OfIs
  <1> HIDE DEF q
  <1>3. q.table = RoleTable[s] /\ q.id = id /\ q.val[ScopeColumn[s]] = x /\ Col(q, ScopeColumn[s]) = x
        /\ Col(q, "system_key") = key /\ "default" \notin q.flags /\ Is(q, RoleTable[s], id)
    BY <1>1, <1>2 DEF Col, Is
  <1> QED BY <1>3 DEF q

\* What a statement asks for.
LEMMA HasThere ==
  ASSUME NEW R, NEW t, NEW id
  PROVE  Met(R, {Has(t, id)}) <=> There(R, t, id)
  BY DEF Met, Has, There

\* A row that is asked for alive is there.
LEMMA AliveThere ==
  ASSUME NEW R, NEW t, NEW id, Met(R, {Alive(t, id)})
  PROVE  There(R, t, id)
  BY DEF Met, Alive, There

\* An account that is asked for verified is there.
LEMMA VerifiedThere ==
  ASSUME NEW R, NEW id, Met(R, {Verified(id)})
  PROVE  There(R, "users", id)
  BY DEF Met, Verified, Marked, There

\* A statement without a condition is carried out.
LEMMA NothingAsked ==
  ASSUME NEW R
  PROVE  Met(R, {})
  BY DEF Met

\* A role of the scope may be named.
LEMMA RoleFills ==
  ASSUME NEW R, NEW s \in ScopeKinds, NEW x, NEW id, NEW q \in R, Is(q, RoleTable[s], id),
         Col(q, ScopeColumn[s]) = x
  PROVE  Fills(R, RoleTable[s], id, ScopeColumn[s], x)
  BY DEF Fills

\* The default role of a scope is one to give.
LEMMA DefaultGives ==
  ASSUME NEW R, NEW s \in ScopeKinds, NEW x, NEW id, DefaultOf(s, x, id) \in R
  PROVE  /\ GivesDefault(R, s, x) /\ Fills(R, RoleTable[s], id, ScopeColumn[s], x)
  BY DefaultOfIs, RoleFills DEF GivesDefault

MemberOf(s, x, u, role, id) ==
    Entry(MemberTable[s], id, Of(s, x, Over([c \in {MemberRole[s]} |-> role], [user_id |-> u])), {"live"})

\* The ids of the next transaction.
LEMMA IdIs ==
  ASSUME RecordsInd
  PROVE  \A k \in 1..9 : Id(k) = Room * batches + k /\ Own(Room * batches, Id(k))
  <1>1. batches \in 1..MaxBatches /\ MaxBatches \in Nat
    BY RecordsAssumption DEF RecordsInd
  <1> QED BY <1>1 DEF Id, Room, Own

\* A keyed role: of its own, unless one is there.
LEMMA KeyedGoes ==
  ASSUME NEW R, NEW n, Begun(R, n), NEW K, NEW o, Going(o, R, n + Room, K), NEW s \in ScopeKinds,
         NEW x, NEW id, Own(n, id), Unused(K, RoleTable[s], id),
         NEW key, Key(key, n + Room),
         NEW st, st.do = "ignore", st.row = KeyedOf(s, x, id, key),
         Asked(o, st) => There(o.rows, ScopeTable[s], x), NEW P, P = Perform(o, st)
  PROVE  /\ Going(P, R, n + Room, With(K, RoleTable[s], id))
         /\ Grown(o.rows, P.rows, KeyedOf(s, x, id, key))
         /\ ~P.aborted => ~o.aborted
         /\ ~P.aborted /\ Met(o.rows, st.needs) /\ Unclashed(o, st) => KeyedOf(s, x, id, key) \in P.rows
  <1> DEFINE row == KeyedOf(s, x, id, key)
  <1>1. row.table = RoleTable[s] /\ row.id = id /\ RoleTable[s] # "page_columns_values"
    BY Kinds, KeyedOfIs
  <1>2. Number(id, n + Room) /\ ~There(R, RoleTable[s], id) /\ n + Room \in Int
    BY <1>1, OwnNumber DEF Begun, Room
  <1>3. Asked(o, st) => Sound(o.rows, row, n + Room)
    BY <1>2, RoleSound DEF KeyedOf, Flags
  <1> HIDE DEF row
  <1>4. st.row = row /\ Put1(st)
    BY DEF row, Put1
  <1>5. /\ Going(P, R, n + Room, With(K, RoleTable[s], id))
        /\ Grown(o.rows, P.rows, st.row)
        /\ ~P.aborted => ~o.aborted
        /\ ~P.aborted /\ Met(o.rows, st.needs) /\ (st.do = "insert" \/ Unclashed(o, st)) => st.row \in P.rows
    BY <1>1, <1>2, <1>3, <1>4, PutNew
  <1> QED BY <1>4, <1>5 DEF row

\* An organization, its two roles and its first member.
LEMMA NewOrganization ==
  ASSUME NEW R, NEW n, Begun(R, n), NEW u, NEW o, Own(n, o), NEW r, Own(n, r), NEW g, Own(n, g), g # r,
         NEW i, Own(n, i), There(R, "users", u)
  PROVE  Safe(R, <<If({Verified(u)}, Put("organizations", o, [owner_id |-> u])),
                   DefaultRole("organization", o, r, {Has("organizations", o)}),
                   If({Has("organizations", o)}, KeyedRole("organization", o, g, GuestKey)),
                   If({Has("organizations", o)}, Member("organization", o, u, r, i))>>, n + Room)
  <1> DEFINE m == n + Room
             s1 == If({Verified(u)}, Put("organizations", o, [owner_id |-> u]))
             s2 == DefaultRole("organization", o, r, {Has("organizations", o)})
             s3 == If({Has("organizations", o)}, KeyedRole("organization", o, g, GuestKey))
             s4 == If({Has("organizations", o)}, Member("organization", o, u, r, i))
             org == Entry("organizations", o, [owner_id |-> u], {"live"})
             role == DefaultOf("organization", o, r)
             guest == KeyedOf("organization", o, g, GuestKey)
             member == MemberOf("organization", o, u, r, i)
             o0 == Holding(R)
             o1 == Perform(o0, s1)
             o2 == Perform(o1, s2)
             o3 == Perform(o2, s3)
             o4 == Perform(o3, s4)
             K1 == With({}, "organizations", o)
             K2 == With(K1, "organization_roles", r)
             K3 == With(K2, "organization_roles", g)
             K4 == With(K3, "organization_members", i)
  <1>1. s1.do = "insert" /\ s1.row = org /\ s1.needs = {Verified(u)}
    BY DEF If, Put, Statement
  <1>2. s2.do = "ignore" /\ s2.row = role /\ s2.needs = {Has("organizations", o)}
    BY DEF DefaultRole, DefaultOf, As, OrIgnore, If, Put, Statement, Entry
  <1>3. s3.do = "ignore" /\ s3.row = guest /\ s3.needs = {Has("organizations", o)}
    BY DEF KeyedRole, KeyedOf, OrIgnore, If, Put, Statement, Entry
  <1>4. s4.do = "insert" /\ s4.row = member /\ s4.needs = {Has("organizations", o)}
    BY DEF Member, MemberOf, If, Put, Statement, Entry
  <1>5. org.table = "organizations" /\ org.id = o /\ member.table = "organization_members" /\ member.id = i
        /\ role.table = "organization_roles" /\ guest.table = "organization_roles"
    BY Kinds, EntryIs, DefaultOfIs, KeyedOfIs DEF MemberOf, ScopeKinds
  <1>6. Going(o0, R, m, {}) /\ o0.rows = R /\ m \in Int /\ Fit(R, m) /\ Complete(R)
    BY Begins
  <1>7. /\ Number(o, m) /\ Number(i, m) /\ ~There(R, "organizations", o) /\ ~There(R, "organization_members", i)
    BY OwnNumber
  <1>8. Sound(R, org, m)
    BY <1>7, OrganizationSound
  <1>9. /\ o1 = Perform(o0, s1) /\ o2 = Perform(o1, s2) /\ o3 = Perform(o2, s3) /\ o4 = Perform(o3, s4)
        /\ Continue(o0, <<s1, s2, s3, s4>>) = o4
    BY ContinueFour
  <1>0. /\ K1 = With({}, "organizations", o) /\ K2 = With(K1, "organization_roles", r)
        /\ K3 = With(K2, "organization_roles", g) /\ K4 = With(K3, "organization_members", i)
    OBVIOUS
  <1>10. ScopeTable["organization"] = "organizations" /\ RoleTable["organization"] = "organization_roles"
         /\ MemberTable["organization"] = "organization_members" /\ "organization" \in ScopeKinds
         /\ ScopeColumn["organization"] = "organization_id"
         /\ MemberRole["organization"] = "organization_member_role_id"
    BY Kinds DEF ScopeKinds
  <1> HIDE DEF s1, s2, s3, s4, org, member, guest, role, o0, o1, o2, o3, o4, m, K1, K2, K3, K4
  <1>11. /\ Going(o1, R, m, K1) /\ Grown(R, o1.rows, org)
    BY <1>0, <1>1, <1>5, <1>6, <1>7, <1>8, <1>9, UnusedWith, PutNew DEF Put1
  <1>12. /\ Going(o2, R, m, K2) /\ Grown(o1.rows, o2.rows, role)
         /\ ~o2.aborted /\ There(o1.rows, "organizations", o) => role \in o2.rows
    <2>1. \A j : Unused(K1, "organization_roles", j)
      BY <1>0, UnusedWith
    <2>2. Met(o1.rows, s2.needs) <=> There(o1.rows, "organizations", o)
      BY <1>2, HasThere
    <2> QED BY <1>0, <1>2, <1>7, <1>9, <1>10, <1>11, <2>1, <2>2, DefaultGoes DEF m, role, Asked
  <1>13. /\ Going(o3, R, m, K3) /\ Grown(o2.rows, o3.rows, guest)
         /\ ~o3.aborted => ~o2.aborted
    <2>1. Unused(K2, "organization_roles", g)
      BY <1>0, UnusedWith
    <2>2. Met(o2.rows, s3.needs) <=> There(o2.rows, "organizations", o)
      BY <1>3, HasThere
    <2>3. Key(GuestKey, m)
      BY DEF Key, GuestKey
    <2>4. Asked(o2, s3) => There(o2.rows, "organizations", o)
      BY <2>2 DEF Asked
    <2>5. /\ guest = KeyedOf("organization", o, g, GuestKey) /\ s3.row = KeyedOf("organization", o, g, GuestKey)
          /\ Going(o2, R, n + Room, K2) /\ Key(GuestKey, n + Room)
      BY <1>3, <1>12, <2>3 DEF m, guest
    <2>6. s3.do = "ignore" /\ K3 = With(K2, "organization_roles", g) /\ o3 = Perform(o2, s3)
      BY <1>0, <1>3, <1>9
    <2> QED BY <1>10, <2>1, <2>3, <2>4, <2>5, <2>6, KeyedGoes DEF m
  <1>14. ~o2.aborted /\ There(o2.rows, "organizations", o) => role \in o2.rows
    BY <1>5, <1>12, GrownThere
  <1>15. ~o3.aborted /\ There(o3.rows, "organizations", o) => role \in o3.rows
    BY <1>5, <1>13, <1>14, GrownThere, GrownHas
  <1>16. /\ Going(o4, R, m, K4) /\ Grown(o3.rows, o4.rows, member)
         /\ ~o4.aborted => ~o3.aborted
    <2>1. Unused(K3, "organization_members", i)
      BY <1>0, UnusedWith
    <2>2. ASSUME Asked(o3, s4) PROVE Sound(o3.rows, member, m)
      <3>1. There(o3.rows, "organizations", o) /\ ~o3.aborted
        BY <1>4, <2>2, HasThere DEF Asked
      <3>2. Fills(o3.rows, "organization_roles", r, "organization_id", o)
        BY <1>10, <1>15, <3>1, DefaultGives DEF role
      <3>3. There(o3.rows, "users", u)
        BY <1>13, StillThere DEF Erasable
      <3> QED BY <1>7, <1>10, <3>1, <3>2, <3>3, MemberSound DEF member, MemberOf
    <2> QED BY <1>0, <1>4, <1>5, <1>6, <1>7, <1>9, <1>13, <2>1, <2>2, PutNew DEF Put1
  <1>17. ~o4.aborted /\ There(o4.rows, "organizations", o) => role \in o4.rows
    BY <1>5, <1>15, <1>16, GrownThere, GrownHas
  <1>18. ASSUME ~o4.aborted PROVE Complete(o4.rows)
    <2>1. role \in o4.rows => GivesDefault(o4.rows, "organization", o)
      BY <1>10, DefaultGives DEF role
    <2>2. \A id : ~Unused(K4, "organizations", id) => id = o
      BY <1>0, UnusedWith
    <2>3. \A id : Unused(K4, "workspaces", id) /\ Unused(K4, "schedule_pin_requests", id)
      BY <1>0, UnusedWith
    <2> QED BY <1>6, <1>16, <1>17, <1>18, <2>1, <2>2, <2>3, CompleteWith
  <1>19. Safe(R, <<s1, s2, s3, s4>>, m)
    <2> QED BY <1>6, <1>9, <1>16, <1>18, SafeEnd DEF o0
  <1> QED BY <1>19 DEF s1, s2, s3, s4, m

\* CreateOrganization keeps the invariant.
LEMMA CreateOrganizationKeeps ==
  ASSUME RecordsInd, NEW u \in Accounts, CreateOrganization(u)
  PROVE  RecordsInd'
  <1>1. /\ Own(Room * batches, Id(1)) /\ Own(Room * batches, Id(2)) /\ Own(Room * batches, Id(3))
        /\ Own(Room * batches, Id(4)) /\ Id(3) # Id(2)
    <2>1. Id(2) = Room * batches + 2 /\ Id(3) = Room * batches + 3 /\ Room * batches \in Int
      BY IdIs, IndBegun DEF Begun
    <2> QED BY <2>1, IdIs
  <1> QED BY <1>1, IndBegun, AccountThere, NewOrganization, SafeKeeps DEF CreateOrganization

-----------------------------------------------------------------------------
(* Workspaces.                                                              *)

\* A mark leaves the rows complete.
LEMMA CompleteMark ==
  ASSUME NEW o, Complete(o.rows), NEW s, s.do = "mark", Kept(o.rows, Perform(o, s).rows)
  PROVE  Complete(Perform(o, s).rows)
  <1> DEFINE S == Perform(o, s).rows
  <1>1. \A t, id : There(S, t, id) => There(o.rows, t, id)
    BY MarkBack
  <1>2. /\ \A r \in o.rows : r.table = "organizations" => GivesDefault(S, "organization", r.id)
        /\ \A r \in o.rows : r.table = "workspaces" => GivesDefault(S, "workspace", r.id)
        /\ \A r \in o.rows : r.table = "schedule_pin_requests" => Noticed(S, r.id)
    BY CompleteStays, KeptLater
  <1> HIDE DEF S
  <1>3. \A r \in S : \E q \in o.rows : q.table = r.table /\ q.id = r.id
    BY <1>1 DEF There, Is
  <1>4. Complete(S)
    BY <1>2, <1>3 DEF Complete
  <1> QED BY <1>4 DEF S

\* A workspace with its first page, their roles and its first member.
LEMMA NewWorkspace ==
  ASSUME NEW R, NEW n, Begun(R, n), NEW o0, Going(o0, R, n + Room, {}), NEW u,
         NEW w, Own(n, w), NEW r, Own(n, r), NEW q, Own(n, q), NEW i, Own(n, i),
         NEW s1, s1.do = "insert", s1.row.table = "workspaces", s1.row.id = w,
         Asked(o0, s1) => Sound(o0.rows, s1.row, n + Room) /\ There(o0.rows, "users", u),
         NEW s2, s2.do = "insert", s2.row = Entry("pages", w, [owner_id |-> u], {"live"}),
         s2.needs = {Has("workspaces", w)},
         NEW s3, s3.do = "ignore", s3.row = DefaultOf("workspace", w, r), s3.needs = {Has("workspaces", w)},
         NEW s4, s4.do = "ignore", s4.row = DefaultOf("page", w, q),
         s4.needs = {Has("workspaces", w)} \/ s4.needs = {Has("pages", w)},
         NEW s5, s5.do = "insert", s5.row.table = "workspace_members", s5.row.id = i,
         s5.needs = {Has("workspaces", w)},
         \A S : /\ There(S, "workspaces", w) /\ There(S, "users", u)
                /\ Entry("pages", w, [owner_id |-> u], {"live"}) \in S /\ DefaultOf("workspace", w, r) \in S
                => Sound(S, s5.row, n + Room),
         NEW o1, o1 = Perform(o0, s1), NEW o2, o2 = Perform(o1, s2), NEW o3, o3 = Perform(o2, s3),
         NEW o4, o4 = Perform(o3, s4), NEW o5, o5 = Perform(o4, s5)
  PROVE  /\ Going(o5, R, n + Room, With(With(With(With(With({}, "workspaces", w), "pages", w),
                  "workspace_roles", r), "page_roles", q), "workspace_members", i))
         /\ ~o5.aborted => Complete(o5.rows)
  <1> DEFINE m == n + Room
             page == Entry("pages", w, [owner_id |-> u], {"live"})
             role == DefaultOf("workspace", w, r)
             first == DefaultOf("page", w, q)
             K1 == With({}, "workspaces", w)
             K2 == With(K1, "pages", w)
             K3 == With(K2, "workspace_roles", r)
             K4 == With(K3, "page_roles", q)
             K5 == With(K4, "workspace_members", i)
  <1>1. page.table = "pages" /\ page.id = w /\ role.table = "workspace_roles" /\ first.table = "page_roles"
    BY Kinds, EntryIs, DefaultOfIs DEF ScopeKinds
  <1>2. m \in Int /\ Complete(R) /\ Number(w, m) /\ ~There(R, "workspaces", w) /\ ~There(R, "pages", w)
        /\ ~There(R, "workspace_members", i)
    BY Begins, OwnNumber
  <1>3. /\ K1 = With({}, "workspaces", w) /\ K2 = With(K1, "pages", w) /\ K3 = With(K2, "workspace_roles", r)
        /\ K4 = With(K3, "page_roles", q) /\ K5 = With(K4, "workspace_members", i)
    OBVIOUS
  <1>4. s2.row = page /\ s3.row = role /\ s4.row = first
    OBVIOUS
  <1>5. /\ ScopeTable["workspace"] = "workspaces" /\ RoleTable["workspace"] = "workspace_roles"
        /\ ScopeTable["page"] = "pages" /\ RoleTable["page"] = "page_roles"
        /\ "workspace" \in ScopeKinds /\ "page" \in ScopeKinds
    BY Kinds DEF ScopeKinds
  <1> HIDE DEF page, role, first, K1, K2, K3, K4, K5
  <1>11. Going(o1, R, m, K1) /\ Grown(o0.rows, o1.rows, s1.row)
    <2>1. Unused({}, "workspaces", w)
      BY UnusedWith
    <2> QED BY <1>2, <1>3, <2>1, PutNew DEF Put1, m
  <1>12. There(o1.rows, "workspaces", w) => There(o1.rows, "users", u)
    <2>1. ~There(o0.rows, "workspaces", w)
      <3>1. <<"workspaces", w>> \notin {}
        OBVIOUS
      <3> QED BY <1>2, <3>1, NewHere
    <2>2. There(o1.rows, "workspaces", w) => Asked(o0, s1)
      BY <2>1, SkipSame
    <2> QED BY <1>11, <2>2, GrownKeeps
  <1>13. /\ Going(o2, R, m, K2) /\ Grown(o1.rows, o2.rows, page)
         /\ ~o2.aborted /\ There(o1.rows, "workspaces", w) => page \in o2.rows
    <2>1. Unused(K1, "pages", w)
      BY <1>3, UnusedWith
    <2>2. Met(o1.rows, s2.needs) <=> There(o1.rows, "workspaces", w)
      BY HasThere
    <2>3. Asked(o1, s2) => Sound(o1.rows, s2.row, m)
      BY <1>2, <1>12, <2>2, PageSound DEF Asked
    <2>4. s2.row.table = "pages" /\ s2.row.id = w /\ s2.row = page /\ Put1(s2)
      BY <1>1, <1>4 DEF Put1
    <2>5. /\ Going(o2, R, m, K2) /\ Grown(o1.rows, o2.rows, s2.row)
          /\ ~o2.aborted /\ Met(o1.rows, s2.needs) => s2.row \in o2.rows
      <3> HIDE DEF m
      <3> QED BY <1>2, <1>3, <1>11, <2>1, <2>3, <2>4, PutNew
    <2> QED BY <2>2, <2>4, <2>5
  <1>14. /\ Going(o3, R, m, K3) /\ Grown(o2.rows, o3.rows, role) /\ (~o3.aborted => ~o2.aborted)
         /\ ~o3.aborted /\ There(o2.rows, "workspaces", w) => role \in o3.rows
    <2>1. \A j : Unused(K2, "workspace_roles", j)
      BY <1>3, UnusedWith
    <2>2. Met(o2.rows, s3.needs) <=> There(o2.rows, "workspaces", w)
      BY HasThere
    <2>3. Asked(o2, s3) => There(o2.rows, "workspaces", w)
      BY <2>2 DEF Asked
    <2>4. Going(o2, R, n + Room, K2) /\ s3.row = DefaultOf("workspace", w, r) /\ role = DefaultOf("workspace", w, r)
      BY <1>13 DEF role
    <2>5. /\ ~There(R, ScopeTable["workspace"], w) /\ \A j : Unused(K2, RoleTable["workspace"], j)
          /\ Asked(o2, s3) => There(o2.rows, ScopeTable["workspace"], w)
      BY <1>2, <1>5, <2>1, <2>3
    <2>6. /\ Going(o3, R, n + Room, With(K2, RoleTable["workspace"], r)) /\ Grown(o2.rows, o3.rows, role)
          /\ ~o3.aborted => ~o2.aborted
          /\ ~o3.aborted /\ Met(o2.rows, s3.needs) => role \in o3.rows
      BY <1>5, <2>4, <2>5, DefaultGoes, SMTT(60)
    <2> QED BY <1>3, <1>5, <2>2, <2>6
  <1>15. /\ There(o3.rows, "workspaces", w) => There(o2.rows, "workspaces", w) /\ There(o1.rows, "workspaces", w)
         /\ There(o3.rows, "workspaces", w) => There(o3.rows, "users", u)
         /\ There(o3.rows, "workspaces", w) /\ ~o3.aborted => page \in o3.rows /\ role \in o3.rows
    <2>1. There(o3.rows, "workspaces", w) => There(o2.rows, "workspaces", w) /\ There(o1.rows, "workspaces", w)
      BY <1>1, <1>13, <1>14, GrownThere
    <2> QED BY <2>1, <1>12, <1>13, <1>14, GrownHas, GrownKeeps
  <1>16. /\ Going(o4, R, m, K4) /\ Grown(o3.rows, o4.rows, first) /\ (~o4.aborted => ~o3.aborted)
    <2>1. \A j : Unused(K3, "page_roles", j)
      BY <1>3, UnusedWith
    <2>2. Asked(o3, s4) => There(o3.rows, "pages", w)
      <3>1. CASE s4.needs = {Has("workspaces", w)}
        <4>1. Met(o3.rows, s4.needs) <=> There(o3.rows, "workspaces", w)
          BY <3>1, HasThere
        <4>2. page \in o3.rows => There(o3.rows, "pages", w)
          BY <1>1 DEF There, Is
        <4> QED BY <1>15, <4>1, <4>2 DEF Asked
      <3>2. CASE s4.needs = {Has("pages", w)}
        BY <3>2, HasThere DEF Asked
      <3> QED BY <3>1, <3>2
    <2> QED BY <1>2, <1>3, <1>5, <1>14, <2>1, <2>2, DefaultGoes DEF m, first
  <1>17. /\ There(o4.rows, "workspaces", w) => There(o4.rows, "users", u)
         /\ There(o4.rows, "workspaces", w) /\ ~o4.aborted => page \in o4.rows /\ role \in o4.rows
    <2>1. There(o4.rows, "workspaces", w) => There(o3.rows, "workspaces", w)
      BY <1>1, <1>16, GrownThere
    <2> QED BY <2>1, <1>15, <1>16, GrownHas, GrownKeeps
  <1>18. /\ Going(o5, R, m, K5) /\ Grown(o4.rows, o5.rows, s5.row) /\ (~o5.aborted => ~o4.aborted)
    <2>1. Unused(K4, "workspace_members", i)
      BY <1>3, UnusedWith
    <2>2. ASSUME Asked(o4, s5) PROVE Sound(o4.rows, s5.row, m)
      <3>1. There(o4.rows, "workspaces", w) /\ ~o4.aborted
        BY <2>2, HasThere DEF Asked
      <3> QED BY <1>17, <3>1 DEF page, role
    <2> HIDE DEF m
    <2> QED BY <1>2, <1>3, <1>16, <2>1, <2>2, PutNew DEF Put1
  <1>19. There(o5.rows, "workspaces", w) /\ ~o5.aborted => role \in o5.rows
    BY <1>17, <1>18, GrownThere, GrownHas
  <1>20. ASSUME ~o5.aborted PROVE Complete(o5.rows)
    <2>1. role \in o5.rows => GivesDefault(o5.rows, "workspace", w)
      BY <1>5, DefaultGives DEF role
    <2>2. \A id : ~Unused(K5, "workspaces", id) => id = w
      BY <1>3, UnusedWith
    <2>3. \A id : Unused(K5, "organizations", id) /\ Unused(K5, "schedule_pin_requests", id)
      BY <1>3, UnusedWith
    <2> QED BY <1>2, <1>18, <1>19, <1>20, <2>1, <2>2, <2>3, CompleteWith
  <1> QED BY <1>18, <1>20 DEF K1, K2, K3, K4, K5, m

\* A workspace of an organization.
LEMMA InnerWorkspace ==
  ASSUME NEW R, NEW n, Begun(R, n), NEW u, There(R, "users", u), NEW o, There(R, "organizations", o),
         NEW w, Own(n, w), NEW r, Own(n, r), NEW q, Own(n, q), NEW i, Own(n, i)
  PROVE  Safe(R, <<Put("workspaces", w, [organization_id |-> o, created_by_user_id |-> u]),
                   If({Has("workspaces", w)}, Put("pages", w, [owner_id |-> u])),
                   DefaultRole("workspace", w, r, {Has("workspaces", w)}),
                   DefaultRole("page", w, q, {Has("workspaces", w)}),
                   If({Has("workspaces", w)}, Put("workspace_members", i,
                         [workspace_id |-> w, user_id |-> u, page_root_id |-> w]))>>, n + Room)
  <1> DEFINE m == n + Room
             has == {Has("workspaces", w)}
             s1 == Put("workspaces", w, [organization_id |-> o, created_by_user_id |-> u])
             s2 == If(has, Put("pages", w, [owner_id |-> u]))
             s3 == DefaultRole("workspace", w, r, has)
             s4 == DefaultRole("page", w, q, has)
             s5 == If(has, Put("workspace_members", i, [workspace_id |-> w, user_id |-> u, page_root_id |-> w]))
             o0 == Holding(R)
             o1 == Perform(o0, s1)
             o2 == Perform(o1, s2)
             o3 == Perform(o2, s3)
             o4 == Perform(o3, s4)
             o5 == Perform(o4, s5)
  <1>1. s1.do = "insert" /\ s1.row = Entry("workspaces", w, [organization_id |-> o, created_by_user_id |-> u], {"live"})
    BY DEF Put, Statement
  <1>2. s2.do = "insert" /\ s2.row = Entry("pages", w, [owner_id |-> u], {"live"}) /\ s2.needs = has
    BY DEF If, Put, Statement
  <1>3. s3.do = "ignore" /\ s3.row = DefaultOf("workspace", w, r) /\ s3.needs = has
    BY DEF DefaultRole, DefaultOf, As, OrIgnore, If, Put, Statement, Entry
  <1>4. s4.do = "ignore" /\ s4.row = DefaultOf("page", w, q) /\ s4.needs = has
    BY DEF DefaultRole, DefaultOf, As, OrIgnore, If, Put, Statement, Entry
  <1>5. s5.do = "insert" /\ s5.needs = has
        /\ s5.row = Entry("workspace_members", i, [workspace_id |-> w, user_id |-> u, page_root_id |-> w], {"live"})
    BY DEF If, Put, Statement
  <1>6. /\ o1 = Perform(o0, s1) /\ o2 = Perform(o1, s2) /\ o3 = Perform(o2, s3) /\ o4 = Perform(o3, s4)
        /\ o5 = Perform(o4, s5) /\ Continue(o0, <<s1, s2, s3, s4, s5>>) = o5
    BY ContinueFive
  <1>7. Going(o0, R, n + Room, {}) /\ o0.rows = R /\ m \in Int /\ Fit(R, m) /\ Complete(R)
    BY Begins
  <1>8. Number(w, m) /\ Number(i, m)
    BY OwnNumber
  <1>9. has = {Has("workspaces", w)} /\ m = n + Room
    OBVIOUS
  <1> HIDE DEF s1, s2, s3, s4, s5, o0, o1, o2, o3, o4, o5, has, m
  <1>10. s1.row.table = "workspaces" /\ s1.row.id = w /\ Sound(o0.rows, s1.row, m) /\ There(o0.rows, "users", u)
    BY <1>1, <1>7, <1>8, EntryIs, InnerWorkspaceSound
  <1>11. s5.row.table = "workspace_members" /\ s5.row.id = i
    BY <1>5, EntryIs
  <1>12. ASSUME NEW S, There(S, "workspaces", w), There(S, "users", u),
                Entry("pages", w, [owner_id |-> u], {"live"}) \in S
         PROVE  Sound(S, s5.row, m)
    <2> DEFINE page == Entry("pages", w, [owner_id |-> u], {"live"})
    <2>1. Is(page, "pages", w) /\ page.val.owner_id = u
      BY DEF Is, Entry
    <2> HIDE DEF page
    <2>2. There(S, "pages", w) /\ \E p \in S : Is(p, "pages", w) /\ p.val.owner_id = u
      BY <1>12, <2>1 DEF There, page
    <2> QED BY <1>5, <1>8, <1>12, <2>2, FirstMemberSound
  <1> DEFINE K == With(With(With(With(With({}, "workspaces", w), "pages", w),
                       "workspace_roles", r), "page_roles", q), "workspace_members", i)
  <1>13. Going(o5, R, m, K) /\ (~o5.aborted => Complete(o5.rows))
    BY <1>1, <1>2, <1>3, <1>4, <1>5, <1>6, <1>7, <1>9, <1>10, <1>11, <1>12, NewWorkspace, SMTT(60)
  <1> HIDE DEF K
  <1>14. Safe(R, <<s1, s2, s3, s4, s5>>, m)
    BY <1>6, <1>7, <1>13, SafeEnd DEF o0
  <1> QED BY <1>14 DEF s1, s2, s3, s4, s5, has, m

\* CreateWorkspace keeps the invariant.
LEMMA CreateWorkspaceKeeps ==
  ASSUME RecordsInd, NEW o \in IdsOf("organizations"), NEW u \in Accounts, CreateWorkspace(o, u)
  PROVE  RecordsInd'
  <1>1. /\ Own(Room * batches, Id(1)) /\ Own(Room * batches, Id(2)) /\ Own(Room * batches, Id(3))
        /\ Own(Room * batches, Id(4))
    BY IdIs
  <1>2. There(stored, "users", u) /\ There(stored, "organizations", o)
    BY AccountThere, IdThere
  <1> QED BY <1>1, <1>2, IndBegun, InnerWorkspace, SafeKeeps DEF CreateWorkspace

-----------------------------------------------------------------------------
(* Accounts.                                                                *)

\* A mark that changes only the flags.
LEMMA FlagsGo ==
  ASSUME NEW R, NEW m \in Int, NEW K, NEW o, Going(o, R, m, K), NEW s, s.do = "mark", s.row.table \notin Static,
         s.row.val = <<>>, s.row.flags \subseteq Flags, NEW P, P = Perform(o, s)
  PROVE  Going(P, R, m, K) /\ Kept(o.rows, P.rows)
  <1>1. ASSUME NEW old \in o.rows, Is(old, s.row.table, s.row.id)
        PROVE  Sound(o.rows, Merged(old, s), m) /\ Heir(old, Merged(old, s))
    <2>1. Sound(o.rows, old, m) /\ old.table \notin Static
      BY <1>1 DEF Going, Fit, Is
    <2> QED BY <2>1, FlagsSound
  <1> QED BY <1>1, MarkGoes

\* What an activation inserts: the first workspace of an account, once the account is verified.
LEMMA Activated ==
  ASSUME NEW R, NEW n, Begun(R, n), NEW v
  PROVE  Safe(R, Activation(n, v), n + Room)
  <1> DEFINE m == n + Room
             u == v.val.user_id
             w == n + 1
             has == {Has("workspaces", w)}
             s0 == If({<<"account_verifications", v.id, {"live", "pending"}>>},
                      Mark("users", u, <<>>, {"live", "verified"}))
             s1 == If({Verified(u)}, Put("workspaces", w, [created_by_user_id |-> u]))
             s2 == If(has, Put("pages", w, [owner_id |-> u]))
             s3 == DefaultRole("workspace", w, n + 2, has)
             s4 == DefaultRole("page", w, n + 3, {Has("pages", w)})
             s5 == If(has, Put("workspace_members", n + 4,
                       [workspace_id |-> w, user_id |-> u, workspace_member_role_id |-> n + 2, page_root_id |-> w]))
             s6 == If({Verified(u)}, Mark("account_verifications", v.id, <<>>, {"live"}))
             a == Holding(R)
             o0 == Perform(a, s0)
             o1 == Perform(o0, s1)
             o2 == Perform(o1, s2)
             o3 == Perform(o2, s3)
             o4 == Perform(o3, s4)
             o5 == Perform(o4, s5)
             o6 == Perform(o5, s6)
  <1>1. s1.do = "insert" /\ s1.row = Entry("workspaces", w, [created_by_user_id |-> u], {"live"})
        /\ s1.needs = {Verified(u)}
    BY DEF If, Put, Statement
  <1>2. s2.do = "insert" /\ s2.row = Entry("pages", w, [owner_id |-> u], {"live"}) /\ s2.needs = has
    BY DEF If, Put, Statement
  <1>3. s3.do = "ignore" /\ s3.row = DefaultOf("workspace", w, n + 2) /\ s3.needs = has
    BY DEF DefaultRole, DefaultOf, As, OrIgnore, If, Put, Statement, Entry
  <1>4. s4.do = "ignore" /\ s4.row = DefaultOf("page", w, n + 3) /\ s4.needs = {Has("pages", w)}
    BY DEF DefaultRole, DefaultOf, As, OrIgnore, If, Put, Statement, Entry
  <1>5. s5.do = "insert" /\ s5.needs = has
        /\ s5.row = Entry("workspace_members", n + 4,
              [workspace_id |-> w, user_id |-> u, workspace_member_role_id |-> n + 2, page_root_id |-> w], {"live"})
    BY DEF If, Put, Statement
  <1>6. /\ o1 = Perform(o0, s1) /\ o2 = Perform(o1, s2) /\ o3 = Perform(o2, s3) /\ o4 = Perform(o3, s4)
        /\ o5 = Perform(o4, s5) /\ o6 = Perform(o5, s6) /\ o0 = Perform(a, s0)
        /\ Continue(a, <<s0, s1, s2, s3, s4, s5, s6>>) = o6
    BY ContinueSeven
  <1>7. Going(a, R, m, {}) /\ m \in Int /\ Fit(R, m) /\ Complete(R) /\ n \in Int
    BY Begins
  <1>8. s0.do = "mark" /\ s0.row.table = "users" /\ s0.row.val = <<>> /\ s0.row.flags = {"live", "verified"}
    BY DEF If, Mark, Statement, Entry
  <1>9. s6.do = "mark" /\ s6.row.table = "account_verifications" /\ s6.row.val = <<>> /\ s6.row.flags = {"live"}
    BY DEF If, Mark, Statement, Entry
  <1>10. Own(n, w) /\ Own(n, n + 2) /\ Own(n, n + 3) /\ Own(n, n + 4)
    BY DEF Begun, Own, Room
  <1>11. has = {Has("workspaces", w)} /\ m = n + Room /\ Activation(n, v) = <<s0, s1, s2, s3, s4, s5, s6>>
    BY DEF Activation
  <1>12. Number(w, m) /\ Number(n + 4, m)
    BY <1>10, OwnNumber
  <1> HIDE DEF s0, s1, s2, s3, s4, s5, s6, a, o0, o1, o2, o3, o4, o5, o6, has, m, u, w
  <1>13. Going(o0, R, m, {})
    BY <1>6, <1>7, <1>8, FlagsGo DEF Static, RoleTables, Flags
  <1>14. s1.row.table = "workspaces" /\ s1.row.id = w /\ s5.row.table = "workspace_members" /\ s5.row.id = n + 4
    BY <1>1, <1>5, EntryIs
  <1>15. Asked(o0, s1) => Sound(o0.rows, s1.row, m) /\ There(o0.rows, "users", u)
    BY <1>1, <1>12, VerifiedThere, WorkspaceSound DEF Asked
  <1>16. ASSUME NEW S, There(S, "workspaces", w), There(S, "users", u),
                Entry("pages", w, [owner_id |-> u], {"live"}) \in S, DefaultOf("workspace", w, n + 2) \in S
         PROVE  Sound(S, s5.row, m)
    <2> DEFINE page == Entry("pages", w, [owner_id |-> u], {"live"})
    <2>1. Is(page, "pages", w) /\ page.val.owner_id = u
      BY DEF Is, Entry
    <2> HIDE DEF page
    <2>2. There(S, "pages", w) /\ \E p \in S : Is(p, "pages", w) /\ p.val.owner_id = u
      BY <1>16, <2>1 DEF There, page
    <2>3. Fills(S, "workspace_roles", n + 2, "workspace_id", w)
      BY <1>16, DefaultGives, Kinds DEF ScopeKinds
    <2> QED BY <1>5, <1>12, <1>16, <2>2, <2>3, WorkspaceMemberSound
  <1> DEFINE K == With(With(With(With(With({}, "workspaces", w), "pages", w),
                       "workspace_roles", n + 2), "page_roles", n + 3), "workspace_members", n + 4)
  <1>17. Going(o5, R, m, K) /\ (~o5.aborted => Complete(o5.rows))
    BY <1>1, <1>2, <1>3, <1>4, <1>5, <1>6, <1>10, <1>11, <1>13, <1>14, <1>15, <1>16, NewWorkspace, SMTT(60)
  <1> HIDE DEF K
  <1>18. Going(o6, R, m, K) /\ Kept(o5.rows, o6.rows)
    BY <1>6, <1>7, <1>9, <1>17, FlagsGo DEF Static, RoleTables, Flags
  <1>19. ~o6.aborted => Complete(o6.rows)
    <2>1. o5.aborted => o6 = o5
      BY <1>6, AbortedStops
    <2>2. Complete(o5.rows) => Complete(o6.rows)
      BY <1>6, <1>9, <1>18, CompleteMark
    <2> QED BY <1>17, <2>1, <2>2
  <1>20. Safe(R, <<s0, s1, s2, s3, s4, s5, s6>>, m)
    BY <1>6, <1>7, <1>18, <1>19, SafeEnd DEF a
  <1> QED BY <1>11, <1>20

\* Activate keeps the invariant.
LEMMA ActivateKeeps ==
  ASSUME RecordsInd, Activate
  PROVE  RecordsInd'
  <1>1. Id(0) = Room * batches
    BY DEF Id, RecordsInd, Room
  <1> QED BY <1>1, IndBegun, Activated, SafeKeeps DEF Activate

\* The image of a finite set is finite.
LEMMA ImageFinite ==
  ASSUME NEW S, IsFiniteSet(S), NEW f
  PROVE  IsFiniteSet({f[x] : x \in S})
  <1> DEFINE g == [x \in S |-> f[x]]
             T == {f[x] : x \in S}
  <1>1. g \in Surjection(S, T)
    BY DEF Surjection
  <1> QED BY <1>1, FS_Surjection

\* The marks of a set of rows, one after another.
LEMMA FlagsEach ==
  ASSUME NEW R, NEW m \in Int, NEW K, NEW o, Going(o, R, m, K), NEW S, IsFiniteSet(S),
         \A s \in S : s.do = "mark" /\ s.row.table \notin Static /\ s.row.val = <<>> /\ s.row.flags \subseteq Flags,
         NEW P, P = Continue(o, Ext!SetToSeq(S))
  PROVE  /\ Going(P, R, m, K) /\ Stays(o.rows, P.rows) /\ (~P.aborted => ~o.aborted)
         /\ Ext!SetToSeq(S) \in Seq(S)
  <1> DEFINE M == Ext!SetToSeq(S)
  <1>1. M \in Seq(S) /\ \A i \in 1..Len(M) : M[i] \in S
    BY EnumIs
  <1> HIDE DEF M
  <1>2. Len(M) \in Nat
    BY <1>1
  <1>3. ASSUME NEW i \in 1..Len(M), NEW p, Going(p, R, m, K), Stays(o.rows, p.rows)
        PROVE  Going(Perform(p, M[i]), R, m, K) /\ Stays(p.rows, Perform(p, M[i]).rows)
    <2>1. M[i] \in S
      BY <1>1
    <2>2. Going(Perform(p, M[i]), R, m, K) /\ Kept(p.rows, Perform(p, M[i]).rows)
      BY <1>3, <2>1, FlagsGo
    <2>3. Later(p.rows, Perform(p, M[i]).rows)
      BY <2>2, KeptLater
    <2>4. \A t, id : There(p.rows, t, id) => There(Perform(p, M[i]).rows, t, id)
      BY <2>2, KeptThere
    <2> QED BY <2>2, <2>3, <2>4 DEF Stays
  <1>4. P = Continue(o, M)
    BY DEF M
  <1>5. Going(P, R, m, K) /\ Stays(o.rows, P.rows)
    BY <1>2, <1>3, <1>4, EachGoes
  <1>6. o.aborted => P = o
    BY <1>2, <1>4, AbortedStays
  <1> QED BY <1>1, <1>5, <1>6 DEF M

\* What a registration inserts.
LEMMA Registered ==
  ASSUME NEW R, NEW n, Begun(R, n), NEW e
  PROVE  Safe(R, Registration(R, n, e), n + Room)
  <1> DEFINE m == n + Room
             known == {r \in R : r.table = "users" /\ r.val.email = e}
             u == IF known = {} THEN n + 1 ELSE (CHOOSE r \in known : TRUE).id
             open == {r \in R : r.table = "account_verifications" /\ r.val.user_id = u
                                /\ {"live", "pending"} \subseteq r.flags}
             S == {Mark("account_verifications", r.id, <<>>, {"pending"}) : r \in open}
             s == Put("users", u, [email |-> e])
             t == As({"pending"}, Put("account_verifications", n + 2, [user_id |-> u, token_hash |-> n + 2]))
             A == IF known = {} THEN <<s>> ELSE <<>>
             M == Ext!SetToSeq(S)
             C == <<t>>
             a == Holding(R)
             oA == Continue(a, A)
             oM == Continue(oA, M)
             oC == Perform(oM, t)
             KA == With({}, "users", u)
             K == With(KA, "account_verifications", n + 2)
  <1>1. Registration(R, n, e) = A \o M \o C
    BY DEF Registration
  <1>2. Going(a, R, m, {}) /\ m \in Int /\ Fit(R, m) /\ Complete(R) /\ n \in Int /\ ~a.aborted
        /\ a.rows = R
    BY Begins
  <1>3. Own(n, n + 1) /\ Own(n, n + 2)
    BY DEF Begun, Own, Room
  <1>4. s.do = "insert" /\ s.row = Entry("users", u, [email |-> e], {"live"}) /\ s.needs = {}
    BY DEF Put, Statement
  <1>5. t.do = "insert" /\ t.needs = {}
        /\ t.row = Entry("account_verifications", n + 2, [user_id |-> u, token_hash |-> n + 2], {"live", "pending"})
    BY DEF As, Put, Statement, Entry
  <1>6. known # {} => There(R, "users", u)
    BY DEF There, Is
  <1>7. known = {} => u = n + 1
    OBVIOUS
  <1>8. IsFiniteSet(S)
    <2>1. IsFiniteSet(open)
      BY <1>2, FS_Subset DEF Fit
    <2> DEFINE f == [r \in open |-> Mark("account_verifications", r.id, <<>>, {"pending"})]
    <2>2. S = {f[r] : r \in open}
      OBVIOUS
    <2> HIDE DEF f, S, open
    <2> QED BY <2>1, <2>2, ImageFinite
  <1>9. \A x \in S : /\ x.do = "mark" /\ x.row.table \notin Static /\ x.row.val = <<>>
                     /\ x.row.flags \subseteq Flags
    BY DEF Mark, Statement, Entry, Static, RoleTables, Flags
  <1>10. oM = Continue(oA, Ext!SetToSeq(S)) /\ oC = Perform(oM, t) /\ oA = Continue(a, A)
    OBVIOUS
  <1>11. /\ known = {} => A = <<s>>
         /\ known # {} => A = <<>>
    OBVIOUS
  <1>12. KA = With({}, "users", u) /\ K = With(KA, "account_verifications", n + 2) /\ m = n + Room
    OBVIOUS
  <1> HIDE DEF m, known, u, open, S, s, t, A, C, a, oA, oM, oC, KA, K
  <1>13. A \in Seq({s}) /\ C \in Seq({t})
    <2>1. <<s>> \in Seq({s}) /\ <<t>> \in Seq({t}) /\ <<>> \in Seq({s})
      OBVIOUS
    <2> QED BY <1>11, <2>1 DEF C
  <1>14. Going(oA, R, m, KA) /\ (~oA.aborted => There(oA.rows, "users", u))
    <2>1. CASE known # {}
      <3>1. oA = a
        BY <1>10, <1>11, <2>1, ContinueNone
      <3> QED BY <1>2, <1>6, <1>12, <2>1, <3>1, GoingWith
    <2>2. CASE known = {}
      <3>1. oA = Perform(a, s)
        BY <1>10, <1>11, <2>2, ContinueOne
      <3>2. u = n + 1 /\ Number(u, m) /\ ~There(R, "users", u)
        BY <1>3, <1>7, <1>12, <2>2, OwnNumber
      <3>3. s.row.table = "users" /\ s.row.id = u /\ Put1(s) /\ Unused({}, "users", u) /\ Sound(a.rows, s.row, m)
        BY <1>4, <3>2, EntryIs, UnusedWith, UserSound DEF Put1
      <3>4. Met(a.rows, s.needs)
        BY <1>4, NothingAsked
      <3>5. Going(oA, R, m, KA) /\ (~oA.aborted => s.row \in oA.rows)
        BY <1>2, <1>4, <1>12, <3>1, <3>2, <3>3, <3>4, PutNew
      <3> QED BY <3>3, <3>5 DEF There, Is
    <2> QED BY <2>1, <2>2
  <1>15. /\ Going(oM, R, m, KA) /\ Stays(oA.rows, oM.rows) /\ (~oM.aborted => ~oA.aborted)
         /\ M \in Seq(S)
    <2>1. /\ Going(oM, R, m, KA) /\ Stays(oA.rows, oM.rows) /\ (~oM.aborted => ~oA.aborted)
          /\ Ext!SetToSeq(S) \in Seq(S)
      BY <1>2, <1>8, <1>9, <1>10, <1>14, FlagsEach
    <2> QED BY <2>1
  <1>16. Asked(oM, t) => Sound(oM.rows, t.row, m)
    <2>1. Asked(oM, t) => There(oM.rows, "users", u)
      BY <1>14, <1>15 DEF Asked, Stays
    <2>2. Number(n + 2, m)
      BY <1>3, <1>12, OwnNumber
    <2> QED BY <1>5, <2>1, <2>2, VerificationSound
  <1>17. Going(oC, R, m, K)
    <2>1. t.row.table = "account_verifications" /\ t.row.id = n + 2 /\ Put1(t)
      BY <1>5, EntryIs DEF Put1
    <2>2. ~There(R, "account_verifications", n + 2) /\ Unused(KA, "account_verifications", n + 2)
      BY <1>3, <1>12, OwnNumber, UnusedWith
    <2> QED BY <1>2, <1>10, <1>12, <1>15, <1>16, <2>1, <2>2, PutNew
  <1>18. Continue(a, A \o M \o C) = oC
    <2> HIDE DEF M
    <2>1. A \o M \in Seq({s} \cup S)
      BY <1>13, <1>15
    <2>2. Continue(a, A \o M) = Continue(oA, M)
      BY <1>10, <1>13, <1>15, ContinueBoth
    <2>3. Continue(a, A \o M \o C) = Continue(Continue(a, A \o M), C)
      <3> DEFINE both == A \o M
                 all == {s} \cup S
      <3>1. both \in Seq(all)
        BY <2>1
      <3> HIDE DEF both, all
      <3>2. Continue(a, both \o C) = Continue(Continue(a, both), C)
        BY <1>13, <3>1, ContinueBoth
      <3> QED BY <3>2 DEF both
    <2>4. Continue(oM, C) = oC
      BY <1>10, ContinueOne DEF C
    <2>5. oM = Continue(oA, M)
      BY <1>10 DEF M
    <2> QED BY <2>2, <2>3, <2>4, <2>5
  <1>19. \A x \in Founding : \A id : Unused(K, x, id)
    BY <1>12, UnusedWith DEF Founding
  <1>20. Safe(R, A \o M \o C, m)
    <2> HIDE DEF M
    <2>1. Going(Continue(Holding(R), A \o M \o C), R, m, K)
      BY <1>17, <1>18 DEF a
    <2> QED BY <1>2, <1>19, <2>1, SafeSmall
  <1> QED BY <1>1, <1>12, <1>20

\* Register keeps the invariant.
LEMMA RegisterKeeps ==
  ASSUME RecordsInd, NEW e, Register(e)
  PROVE  RecordsInd'
  <1>1. Id(0) = Room * batches
    BY DEF Id, RecordsInd, Room
  <1> QED BY <1>1, IndBegun, Registered, SafeKeeps DEF Register

-----------------------------------------------------------------------------
(* Those who enter.                                                         *)

Batch(b) == \E S : b \in Seq(S)

\* The batches of up to two statements.
LEMMA BatchIs ==
  /\ Batch(<<>>)
  /\ \A s : Batch(<<s>>)
  /\ \A s, t : Batch(<<s, t>>)
  <1>1. <<>> \in Seq({})
    OBVIOUS
  <1>2. ASSUME NEW s PROVE Batch(<<s>>)
    <2>1. <<s>> \in Seq({s})
      OBVIOUS
    <2> QED BY <2>1 DEF Batch
  <1>3. ASSUME NEW s, NEW t PROVE Batch(<<s, t>>)
    <2>1. <<s, t>> \in Seq({s, t})
      OBVIOUS
    <2> QED BY <2>1 DEF Batch
  <1> QED BY <1>1, <1>2, <1>3 DEF Batch

\* Two batches, whatever their statements are.
LEMMA BatchBoth ==
  ASSUME NEW out, NEW a, Batch(a), NEW b, Batch(b)
  PROVE  Continue(out, a \o b) = Continue(Continue(out, a), b) /\ Batch(a \o b)
  <1>1. PICK S : a \in Seq(S)
    BY DEF Batch
  <1>2. PICK T : b \in Seq(T)
    BY DEF Batch
  <1>3. Continue(out, a \o b) = Continue(Continue(out, a), b)
    BY <1>1, <1>2, ContinueBoth
  <1>4. a \o b \in Seq(S \cup T)
    BY <1>1, <1>2
  <1> QED BY <1>3, <1>4 DEF Batch

\* One row more leaves every row.
LEMMA GrownLater ==
  ASSUME NEW R, NEW S, NEW row, Grown(R, S, row)
  PROVE  Later(R, S) /\ R \subseteq S
  <1>1. R \subseteq S
    BY DEF Grown
  <1>2. \A r \in R : Heir(r, r)
    BY DEF Heir
  <1> QED BY <1>1, <1>2 DEF Later

\* A role that may be named goes on being one.
LEMMA FillsLater ==
  ASSUME NEW R, NEW S, Later(R, S), NEW s \in ScopeKinds, NEW id, NEW x,
         Fills(R, RoleTable[s], id, ScopeColumn[s], x)
  PROVE  Fills(S, RoleTable[s], id, ScopeColumn[s], x)
  <1>1. RoleTable[s] \in Static
    BY Kinds DEF Static, RoleTables
  <1>2. CASE id = Null
    BY <1>2 DEF Fills
  <1>3. CASE id # Null
    <2>1. PICK q \in R : Is(q, RoleTable[s], id) /\ Col(q, ScopeColumn[s]) = x
      BY <1>3 DEF Fills
    <2>2. q \in S
      BY <1>1, <2>1, LaterStatic DEF Is
    <2> QED BY <2>1, <2>2 DEF Fills
  <1> QED BY <1>2, <1>3

\* The keys of a member that enters.
Entered(K, s, id) == With(With(K, "pages", id), MemberTable[s], id)

\* Whoever enters: with a page of their own in a workspace.
LEMMA EnteringGoes ==
  ASSUME NEW R, NEW n, Begun(R, n), NEW K, NEW o, Going(o, R, n + Room, K), NEW s \in ScopeKinds,
         NEW x, There(R, ScopeTable[s], x), NEW u, There(R, "users", u), NEW role,
         ~o.aborted => Fills(o.rows, RoleTable[s], role, ScopeColumn[s], x),
         NEW id, Own(n, id), Unused(K, "pages", id), Unused(K, MemberTable[s], id),
         NEW P, P = Continue(o, Entering(s, x, u, role, id))
  PROVE  /\ Going(P, R, n + Room, Entered(K, s, id))
         /\ Later(o.rows, P.rows) /\ o.rows \subseteq P.rows /\ (~P.aborted => ~o.aborted)
         /\ Batch(Entering(s, x, u, role, id))
  <1> DEFINE m == n + Room
             K1 == With(K, "pages", id)
             K2 == With(K1, MemberTable[s], id)
  <1>1. /\ Number(id, m) /\ m \in Int /\ ~There(R, "pages", id) /\ ~There(R, MemberTable[s], id)
        /\ MemberTable[s] # "pages"
    <2>1. MemberTable[s] # "page_columns_values" /\ MemberTable[s] # "pages"
      BY Kinds
    <2> QED BY <2>1, Begins, OwnNumber
  <1>2. There(o.rows, ScopeTable[s], x) /\ There(o.rows, "users", u)
    <2>1. ScopeTable[s] \notin Erasable /\ "users" \notin Erasable
      BY Kinds DEF Erasable
    <2> QED BY <2>1, StillThere
  <1>3. K1 = With(K, "pages", id) /\ K2 = With(K1, MemberTable[s], id) /\ Entered(K, s, id) = K2 /\ m = n + Room
    BY DEF Entered
  <1>4. Unused(K1, MemberTable[s], id)
    BY <1>1, UnusedWith
  <1> HIDE DEF m, K1, K2
  <1>5. CASE s # "workspace"
    <2> DEFINE t == Member(s, x, u, role, id)
    <2>1. t.do = "insert" /\ t.row = MemberOf(s, x, u, role, id) /\ t.needs = {}
      BY DEF Member, MemberOf, Put, Statement, Entry
    <2>2. Entering(s, x, u, role, id) = <<t>>
      BY <1>5 DEF Entering
    <2> HIDE DEF t
    <2>3. t.row.table = MemberTable[s] /\ t.row.id = id /\ Put1(t)
      BY <2>1, EntryIs DEF MemberOf, Put1
    <2>4. Asked(o, t) => Sound(o.rows, t.row, m)
      <3>1. ASSUME ~o.aborted PROVE Sound(o.rows, MemberOf(s, x, u, role, id), m)
        <4>1. Fills(o.rows, RoleTable[s], role, ScopeColumn[s], x)
          BY <3>1
        <4> QED BY <1>1, <1>2, <1>5, <4>1, MemberSound DEF MemberOf
      <3> QED BY <2>1, <3>1 DEF Asked
    <2>5. P = Perform(o, t)
      BY <2>2, ContinueOne
    <2>6. Going(o, R, m, K1)
      BY <1>3, GoingWith
    <2>7. Going(P, R, m, K2) /\ Grown(o.rows, P.rows, t.row) /\ (~P.aborted => ~o.aborted)
      BY <1>1, <1>3, <1>4, <2>3, <2>4, <2>5, <2>6, PutNew
    <2> QED BY <1>3, <2>2, <2>7, GrownLater, BatchIs
  <1>6. CASE s = "workspace"
    <2> DEFINE t1 == Put("pages", id, [owner_id |-> u])
               t2 == Put("workspace_members", id,
                       [workspace_id |-> x, user_id |-> u, workspace_member_role_id |-> role, page_root_id |-> id])
               page == Entry("pages", id, [owner_id |-> u], {"live"})
               p == Perform(o, t1)
    <2>1. t1.do = "insert" /\ t1.row = page /\ t1.needs = {} /\ t2.do = "insert"
          /\ t2.row = Entry("workspace_members", id,
                       [workspace_id |-> x, user_id |-> u, workspace_member_role_id |-> role, page_root_id |-> id], {"live"})
      BY DEF Put, Statement
    <2>2. Entering(s, x, u, role, id) = <<t1, t2>>
      BY <1>6 DEF Entering
    <2>3. Is(page, "pages", id) /\ page.val.owner_id = u /\ page.table = "pages" /\ page.id = id
      BY DEF Is, Entry
    <2>4. P = Perform(p, t2) /\ p = Perform(o, t1)
      BY <2>2, ContinueTwo
    <2>5. Sound(o.rows, page, m)
      BY <1>1, <1>2, PageSound
    <2> HIDE DEF t1, t2, page, p
    <2>6. Met(o.rows, t1.needs) /\ Put1(t1) /\ Put1(t2)
      BY <2>1, NothingAsked DEF Put1
    <2>7. /\ Going(p, R, m, K1) /\ Grown(o.rows, p.rows, page) /\ (~p.aborted => ~o.aborted)
          /\ ~p.aborted => page \in p.rows
      BY <1>1, <1>3, <2>1, <2>3, <2>4, <2>5, <2>6, PutNew
    <2>8. MemberTable[s] = "workspace_members" /\ ScopeTable[s] = "workspaces" /\ RoleTable[s] = "workspace_roles"
          /\ ScopeColumn[s] = "workspace_id"
      BY <1>6, Kinds
    <2>9. Later(o.rows, p.rows) /\ o.rows \subseteq p.rows
      BY <2>7, GrownLater
    <2>10. Asked(p, t2) => Sound(p.rows, t2.row, m)
      <3>1. ASSUME ~p.aborted PROVE Sound(p.rows, t2.row, m)
        <4>1. Fills(p.rows, "workspace_roles", role, "workspace_id", x)
          BY <2>7, <2>8, <2>9, <3>1, FillsLater
        <4>2. There(p.rows, "workspaces", x) /\ There(p.rows, "users", u)
          BY <1>2, <2>7, <2>8, GrownKeeps
        <4>3. There(p.rows, "pages", id) /\ \E q \in p.rows : Is(q, "pages", id) /\ q.val.owner_id = u
          BY <2>3, <2>7, <3>1 DEF There
        <4> QED BY <1>1, <2>1, <4>1, <4>2, <4>3, WorkspaceMemberSound
      <3> QED BY <3>1 DEF Asked
    <2>11. t2.row.table = MemberTable[s] /\ t2.row.id = id
      BY <2>1, <2>8, EntryIs
    <2>12. Going(P, R, m, K2) /\ Grown(p.rows, P.rows, t2.row) /\ (~P.aborted => ~p.aborted)
      BY <1>1, <1>3, <1>4, <2>4, <2>6, <2>7, <2>10, <2>11, PutNew
    <2>13. Later(p.rows, P.rows) /\ p.rows \subseteq P.rows
      BY <2>12, GrownLater
    <2>14. Later(o.rows, P.rows) /\ o.rows \subseteq P.rows
      BY <2>9, <2>13, LaterTrans
    <2> QED BY <1>3, <2>2, <2>7, <2>12, <2>14, BatchIs
  <1> QED BY <1>5, <1>6

\* What is known of a request to enter.
LEMMA RequestSays ==
  ASSUME NEW R, NEW n, NEW s \in ScopeKinds, NEW r, r.table = RequestTable[s], Sound(R, r, n)
  PROVE  /\ {ScopeColumn[s], "requester_id"} \subseteq DOMAIN r.val
         /\ {ScopeColumn[s], "requester_id"} \subseteq Filled[r.table]
         /\ Filled[r.table] \subseteq {ScopeColumn[s], "requester_id"}
         /\ Col(r, ScopeColumn[s]) = r.val[ScopeColumn[s]] /\ Col(r, "requester_id") = r.val.requester_id
         /\ There(R, ScopeTable[s], r.val[ScopeColumn[s]]) /\ There(R, "users", r.val.requester_id)
         /\ r.table \notin Static /\ r.table # "page_form_publications"
  <1>1. Filled[r.table] = {ScopeColumn[s], "requester_id"}
    BY Kinds DEF Filled
  <1>2. Filled[r.table] \subseteq DOMAIN r.val /\ ~Dangling(R, r)
    BY DEF Sound, Typed
  <1>3. Col(r, ScopeColumn[s]) = r.val[ScopeColumn[s]] /\ Col(r, "requester_id") = r.val.requester_id
    BY <1>1, <1>2 DEF Col
  <1>4. There(R, ScopeTable[s], Col(r, ScopeColumn[s])) /\ There(R, "users", Col(r, "requester_id"))
    BY <1>2, ScopeRefersTo
  <1>5. r.table \notin Static /\ r.table # "page_form_publications"
    BY Kinds DEF Static, RoleTables
  <1> QED BY <1>1, <1>2, <1>3, <1>4, <1>5

\* A request that is decided.
LEMMA DecidedSound ==
  ASSUME NEW R, NEW n, NEW s \in ScopeKinds, NEW old, old.table = RequestTable[s], Sound(R, old, n),
         NEW by, There(R, "users", by), NEW role,
         Fills(R, RoleTable[s], role, ScopeColumn[s], old.val[ScopeColumn[s]]),
         NEW t, t.row.val = [accepted_by |-> by, decided_by |-> by, role_id |-> role], t.row.flags = {"live"}
  PROVE  Sound(R, Merged(old, t), n) /\ Heir(old, Merged(old, t))
  <1> DEFINE new == Merged(old, t)
  <1>1. DOMAIN t.row.val = {"accepted_by", "decided_by", "role_id"}
        /\ t.row.val["accepted_by"] = by /\ t.row.val["decided_by"] = by /\ t.row.val["role_id"] = role
    OBVIOUS
  <1>2. ScopeColumn[s] \notin {"accepted_by", "decided_by", "role_id", "requester_id"}
    BY Kinds
  <1>3. /\ Col(new, "accepted_by") = by /\ Col(new, "decided_by") = by /\ Col(new, "role_id") = role
        /\ Col(new, "requester_id") = Col(old, "requester_id")
        /\ Col(new, ScopeColumn[s]) = Col(old, ScopeColumn[s])
    BY <1>1, <1>2, MergedCol
  <1>4. new.table = RequestTable[s]
    BY MergedIs
  <1> HIDE DEF new
  <1>5. ~Dangling(R, new)
    BY <1>3, <1>4, RequestSays, ScopeRefersTo
  <1>6. \A c \in DOMAIN t.row.val : c \notin Lasting(old.table)
    BY <1>1, <1>2, RequestSays DEF Lasting
  <1>7. t.row.flags \subseteq Flags /\ old.table \notin Static /\ old.table # "page_form_publications"
    BY RequestSays DEF Flags
  <1> QED BY <1>5, <1>6, <1>7, MergedSound DEF new

\* The member and the decided request.
LEMMA Admitted ==
  ASSUME NEW R, NEW n, Begun(R, n), NEW s \in ScopeKinds, NEW request \in R, request.table = RequestTable[s],
         NEW x, x = request.val[ScopeColumn[s]], NEW u, u = request.val.requester_id,
         NEW role, Fills(R, RoleTable[s], role, ScopeColumn[s], x), NEW by, There(R, "users", by),
         NEW id, Own(n, id)
  PROVE  Safe(R, Entering(s, x, u, role, id) \o
                 <<Mark(RequestTable[s], request.id,
                        [accepted_by |-> by, decided_by |-> by, role_id |-> role], {"live"})>>, n + Room)
  <1> DEFINE m == n + Room
             t == Mark(RequestTable[s], request.id,
                       [accepted_by |-> by, decided_by |-> by, role_id |-> role], {"live"})
             a == Entering(s, x, u, role, id)
             b == <<t>>
             o == Holding(R)
             p == Continue(o, a)
             q == Perform(p, t)
             K == Entered({}, s, id)
  <1>1. t.do = "mark" /\ Is(t.row, RequestTable[s], request.id) /\ t.row.flags = {"live"}
        /\ t.row.val = [accepted_by |-> by, decided_by |-> by, role_id |-> role]
    BY DEF Mark, Statement, Entry, Is
  <1>2. Going(o, R, m, {}) /\ o.rows = R /\ ~o.aborted /\ m \in Int /\ Fit(R, m) /\ Complete(R) /\ m = n + Room
    BY Begins
  <1>3. Sound(R, request, m)
    BY <1>2 DEF Fit
  <1>4. There(R, ScopeTable[s], x) /\ There(R, "users", u)
    BY <1>3, RequestSays
  <1>5. p = Continue(o, a) /\ q = Perform(p, t) /\ b = <<t>> /\ Batch(b)
    BY BatchIs
  <1>6. Unused({}, "pages", id) /\ Unused({}, MemberTable[s], id)
    BY UnusedWith
  <1> HIDE DEF m, t, p, q, b
  <1>7. Going(p, R, m, K) /\ Later(R, p.rows) /\ R \subseteq p.rows /\ Batch(a)
    <2> HIDE DEF o
    <2> QED BY <1>2, <1>4, <1>5, <1>6, EnteringGoes
  <1> HIDE DEF a, o, K
  <1>8. Fit(p.rows, m)
    BY <1>7 DEF Going
  <1>9. ASSUME NEW old \in p.rows, Is(old, t.row.table, t.row.id)
        PROVE  Sound(p.rows, Merged(old, t), m) /\ Heir(old, Merged(old, t))
    <2>1. old = request
      BY <1>1, <1>7, <1>8, <1>9 DEF Fit, Is
    <2>2. Sound(p.rows, old, m)
      BY <1>8 DEF Fit
    <2>3. Fills(p.rows, RoleTable[s], role, ScopeColumn[s], x)
      BY <1>7, FillsLater
    <2>4. There(p.rows, "users", by)
      BY <1>7, StillThere DEF Erasable
    <2> QED BY <1>1, <2>1, <2>2, <2>3, <2>4, DecidedSound
  <1>10. Going(q, R, m, K)
    BY <1>1, <1>2, <1>5, <1>7, <1>9, MarkGoes
  <1>11. Continue(o, a \o b) = q
    BY <1>5, <1>7, BatchBoth, ContinueOne
  <1>12. \A x2 \in Founding : \A id2 : Unused(K, x2, id2)
    <2>1. MemberTable[s] \notin Founding
      BY Kinds DEF Founding
    <2> QED BY <2>1, UnusedWith DEF K, Entered, Founding
  <1>13. Safe(R, a \o b, m)
    BY <1>2, <1>10, <1>11, <1>12, SafeSmall DEF o
  <1> QED BY <1>13 DEF a, b, m, t

\* A role of a scope there is, for whoever is given it.
LEMMA RoleThere ==
  ASSUME RecordsInd, NEW s \in ScopeKinds, NEW role \in RowsOf(RoleTable[s])
  PROVE  LET x == role.val[ScopeColumn[s]]
         IN /\ Fills(stored, RoleTable[s], role.id, ScopeColumn[s], x) /\ Col(role, ScopeColumn[s]) = x
            /\ There(stored, ScopeTable[s], x)
  <1>1. ScopeColumn[s] \in Filled[RoleTable[s]]
    BY Kinds DEF Filled
  <1>2. Col(role, ScopeColumn[s]) = role.val[ScopeColumn[s]] /\ role \in stored /\ role.table = RoleTable[s]
        /\ Sound(stored, role, Room * batches)
    BY <1>1, RowSound
  <1>3. There(stored, ScopeTable[s], Col(role, ScopeColumn[s]))
    BY <1>2, ScopeRefersTo DEF Sound
  <1>4. Is(role, RoleTable[s], role.id)
    BY <1>2 DEF Is
  <1> QED BY <1>2, <1>3, <1>4, RoleFills

\* AdmitRequester keeps the invariant.
LEMMA AdmitRequesterKeeps ==
  ASSUME RecordsInd, NEW s \in ScopeKinds, NEW request \in LiveOf(RequestTable[s]), NEW role \in LiveOf(RoleTable[s]),
         NEW by \in Accounts, AdmitRequester(s, request, role, by)
  PROVE  RecordsInd'
  <1> DEFINE x == request.val[ScopeColumn[s]]
             u == request.val.requester_id
             b == Entering(s, x, u, role.id, Id(1)) \o
                  <<Mark(RequestTable[s], request.id,
                         [accepted_by |-> by, decided_by |-> by, role_id |-> role.id], {"live"})>>
  <1>1. role \in RowsOf(RoleTable[s]) /\ request \in stored /\ request.table = RequestTable[s]
    BY DEF LiveOf, RowsOf
  <1>2. role.val[ScopeColumn[s]] = x /\ Execute(b)
    BY DEF AdmitRequester
  <1>3. Fills(stored, RoleTable[s], role.id, ScopeColumn[s], x)
    BY <1>1, <1>2, RoleThere
  <1>4. Own(Room * batches, Id(1)) /\ There(stored, "users", by) /\ Begun(stored, Room * batches)
    BY IdIs, AccountThere, IndBegun
  <1>5. Safe(stored, b, Room * batches + Room)
    BY <1>1, <1>3, <1>4, Admitted
  <1> HIDE DEF b
  <1> QED BY <1>2, <1>5, SafeKeeps

\* The fields of the statement of a keyed role.
LEMMA KeyedRoleIs ==
  ASSUME NEW s, NEW x, NEW id, NEW key
  PROVE  LET t == KeyedRole(s, x, id, key)
         IN t.do = "ignore" /\ t.row = KeyedOf(s, x, id, key) /\ t.needs = {} /\ ~t.checked
  BY DEF KeyedRole, KeyedOf, OrIgnore, Put, Statement, Entry

InviteOf(s, x, role, u, id) ==
    As({"pending"}, Put("access_invites", id,
          [author_id |-> u, token_hash |-> id, scope |-> s, scope_id |-> x, role_id |-> role]))

\* The fields of the statement of an invite.
LEMMA InviteIs ==
  ASSUME NEW s, NEW x, NEW role, NEW u, NEW id
  PROVE  LET t == InviteOf(s, x, role, u, id)
         IN /\ t.do = "insert" /\ t.needs = {} /\ t.row.table = "access_invites" /\ t.row.id = id
            /\ t.row = Entry("access_invites", id,
                   [author_id |-> u, token_hash |-> id, scope |-> s, scope_id |-> x, role_id |-> role], {"live", "pending"})
  BY DEF InviteOf, As, Put, Statement, Entry

\* The invite after what it needs.
LEMMA InviteGoes ==
  ASSUME NEW R, NEW n, Begun(R, n), NEW K, NEW o, Going(o, R, n + Room, K), NEW s \in ScopeKinds, NEW x, NEW role,
         NEW u, There(R, "users", u), NEW id, Own(n, id), Unused(K, "access_invites", id),
         ~o.aborted => \E q \in o.rows : Is(q, RoleTable[s], role) /\ q.val[ScopeColumn[s]] = x
  PROVE  Going(Perform(o, InviteOf(s, x, role, u, id)), R, n + Room, With(K, "access_invites", id))
  <1> DEFINE t == InviteOf(s, x, role, u, id)
  <1>1. /\ t.do = "insert" /\ t.needs = {} /\ t.row.table = "access_invites" /\ t.row.id = id
        /\ t.row = Entry("access_invites", id,
             [author_id |-> u, token_hash |-> id, scope |-> s, scope_id |-> x, role_id |-> role], {"live", "pending"})
    BY InviteIs
  <1> HIDE DEF t
  <1>2. Number(id, n + Room) /\ ~There(R, "access_invites", id) /\ n + Room \in Int
    BY Begins, OwnNumber
  <1>3. There(o.rows, "users", u)
    BY StillThere DEF Erasable
  <1>4. Asked(o, t) => Sound(o.rows, t.row, n + Room)
    BY <1>1, <1>2, <1>3, InviteSound DEF Asked
  <1> DEFINE P == Perform(o, t)
  <1>5. P = Perform(o, t) /\ Put1(t)
    BY <1>1 DEF Put1
  <1> HIDE DEF P
  <1>6. Going(P, R, n + Room, With(K, "access_invites", id))
    BY <1>1, <1>2, <1>4, <1>5, PutNew
  <1> QED BY <1>6 DEF P, t

\* An invite with the copy of its role.
LEMMA Invited ==
  ASSUME NEW R, NEW n, Begun(R, n), n >= 0, NEW s \in ScopeKinds, NEW x, There(R, ScopeTable[s], x),
         NEW role, \E q \in R : Is(q, RoleTable[s], role) /\ q.val[ScopeColumn[s]] = x,
         NEW u, There(R, "users", u), NEW id, Own(n, id), id # n, NEW own, Own(n, own)
  PROVE  Safe(R, (IF s = "organization" THEN <<>> ELSE <<KeyedRole(s, x, own, id)>>) \o
                 <<InviteOf(s, x, IF s = "organization" THEN role ELSE own, u, id)>>, n + Room)
  <1> DEFINE m == n + Room
             k == KeyedRole(s, x, own, id)
             a == IF s = "organization" THEN <<>> ELSE <<k>>
             given == IF s = "organization" THEN role ELSE own
             t == InviteOf(s, x, given, u, id)
             b == <<t>>
             o == Holding(R)
             p == Continue(o, a)
             K1 == With({}, RoleTable[s], own)
             K2 == With(K1, "access_invites", id)
  <1>1. Going(o, R, m, {}) /\ o.rows = R /\ ~o.aborted /\ m \in Int /\ Fit(R, m) /\ Fit(R, n) /\ Complete(R)
        /\ m = n + Room /\ n \in Int
    BY Begins DEF Begun
  <1>2. p = Continue(o, a) /\ b = <<t>> /\ t = InviteOf(s, x, given, u, id)
    OBVIOUS
  <1>3. /\ s = "organization" => a = <<>> /\ given = role
        /\ s # "organization" => a = <<k>> /\ given = own
    OBVIOUS
  <1>4. Unused({}, RoleTable[s], own) /\ Unused(K1, "access_invites", id)
    <2>1. RoleTable[s] # "access_invites"
      BY Kinds
    <2> QED BY <2>1, UnusedWith
  <1>5. k.do = "ignore" /\ k.row = KeyedOf(s, x, own, id) /\ k.needs = {}
    BY KeyedRoleIs
  <1>6. K1 = With({}, RoleTable[s], own) /\ K2 = With(K1, "access_invites", id)
    OBVIOUS
  <1> HIDE DEF m, k, a, given, t, b, o, p, K1, K2
  <1>7. Batch(a) /\ Batch(b)
    BY <1>2, <1>3, BatchIs
  <1>8. /\ Going(p, R, m, K1)
        /\ ~p.aborted => \E q \in p.rows : Is(q, RoleTable[s], given) /\ q.val[ScopeColumn[s]] = x
    <2>1. CASE s = "organization"
      <3>1. p = o
        BY <1>2, <1>3, <2>1, ContinueNone
      <3> QED BY <1>1, <1>3, <1>6, <2>1, <3>1, GoingWith
    <2>2. CASE s # "organization"
      <3>1. p = Perform(o, k)
        BY <1>2, <1>3, <2>2, ContinueOne
      <3>2. Met(o.rows, k.needs)
        BY <1>5, NothingAsked
      <3>3. Key(id, m) /\ id \in Int /\ n < id
        BY <1>1, OwnNumber DEF Own
      <3>4. Unclashed(o, k)
        <4>1. SUFFICES ASSUME NEW q \in Clashing(R, k.row) PROVE FALSE
          BY <1>1 DEF Unclashed
        <4>2. k.row.table = RoleTable[s] /\ Col(k.row, "system_key") = id /\ "default" \notin k.row.flags
          BY <1>5, KeyedOfIs
        <4>3. q \in R /\ q.table = RoleTable[s] /\ Col(q, "system_key") = id
          BY <4>2, RoleClash
        <4>4. RoleTable[s] \in RoleTables /\ "system_key" \in Filled[RoleTable[s]]
          BY Kinds DEF RoleTables, Filled
        <4>5. Key(q.val.system_key, n) /\ Col(q, "system_key") = q.val.system_key
          BY <1>1, <4>3, <4>4 DEF Fit, Sound, Numbered, Typed, Col
        <4> QED BY <1>1, <3>3, <4>3, <4>5 DEF Key
      <3>5. Going(p, R, n + Room, With({}, RoleTable[s], own)) /\ (~p.aborted => KeyedOf(s, x, own, id) \in p.rows)
        BY <1>1, <1>4, <1>5, <3>1, <3>2, <3>3, <3>4, KeyedGoes
      <3>6. LET q == KeyedOf(s, x, own, id) IN Is(q, RoleTable[s], own) /\ q.val[ScopeColumn[s]] = x
        BY KeyedOfIs
      <3> QED BY <1>1, <1>3, <1>6, <2>2, <3>5, <3>6
    <2> QED BY <2>1, <2>2
  <1>9. Going(Perform(p, t), R, m, K2)
    BY <1>1, <1>2, <1>4, <1>6, <1>8, InviteGoes
  <1>10. Continue(o, a \o b) = Perform(p, t)
    BY <1>2, <1>7, BatchBoth, ContinueOne
  <1>11. \A y \in Founding : \A j : Unused(K2, y, j)
    <2>1. RoleTable[s] \notin Founding
      BY Kinds DEF Founding
    <2> QED BY <1>6, <2>1, UnusedWith DEF Founding
  <1>12. Safe(R, a \o b, m)
    BY <1>1, <1>9, <1>10, <1>11, SafeSmall DEF o
  <1> QED BY <1>12 DEF a, b, m, t, k, given

\* Invite keeps the invariant.
LEMMA InviteKeeps ==
  ASSUME RecordsInd, NEW s \in ScopeKinds, NEW role \in LiveOf(RoleTable[s]), NEW u \in Accounts, Invite(s, role, u)
  PROVE  RecordsInd'
  <1> DEFINE x == role.val[ScopeColumn[s]]
             b == (IF s = "organization" THEN <<>> ELSE <<KeyedRole(s, x, Id(2), Id(1))>>) \o
                  <<InviteOf(s, x, IF s = "organization" THEN role.id ELSE Id(2), u, Id(1))>>
  <1>1. role \in RowsOf(RoleTable[s]) /\ role \in stored /\ Is(role, RoleTable[s], role.id)
    BY DEF LiveOf, RowsOf, Is
  <1>2. Execute(b)
    BY DEF Invite, InviteOf
  <1>3. There(stored, ScopeTable[s], x)
    BY <1>1, RoleThere
  <1>4. Own(Room * batches, Id(1)) /\ Own(Room * batches, Id(2)) /\ There(stored, "users", u)
        /\ Begun(stored, Room * batches)
    BY IdIs, AccountThere, IndBegun
  <1>5. Room * batches >= 0 /\ Id(1) # Room * batches
    BY IndBegun DEF Room
  <1>6. \E q \in stored : Is(q, RoleTable[s], role.id) /\ q.val[ScopeColumn[s]] = x
    BY <1>1
  <1>7. Safe(stored, b, Room * batches + Room)
    BY <1>3, <1>4, <1>5, <1>6, Invited
  <1> HIDE DEF b
  <1> QED BY <1>2, <1>7, SafeKeeps

-----------------------------------------------------------------------------
(* Who accepts an invite.                                                   *)

\* role is the live role with this key, or the one with the id if there is none.
Given(R, s, x, key, id, role) ==
    \/ \E r \in R : /\ r.table = RoleTable[s] /\ "live" \in r.flags /\ r.val[ScopeColumn[s]] = x
                    /\ Col(r, "system_key") = key /\ role = r.id
    \/ /\ role = id
       /\ ~\E r \in R : /\ r.table = RoleTable[s] /\ "live" \in r.flags /\ r.val[ScopeColumn[s]] = x
                        /\ Col(r, "system_key") = key

\* The scope of a role is never NULL.
LEMMA RoleColumn ==
  ASSUME NEW R, NEW n, Fit(R, n), NEW s \in ScopeKinds, NEW r \in R, r.table = RoleTable[s]
  PROVE  Col(r, ScopeColumn[s]) = r.val[ScopeColumn[s]]
  <1>1. ScopeColumn[s] \in Filled[RoleTable[s]]
    BY Kinds DEF Filled
  <1> QED BY <1>1 DEF Fit, Sound, Typed, Col

\* Once a keyed role is ensured, the one that was found, or the new one, is there.
LEMMA KeyedThere ==
  ASSUME NEW R, NEW n, Begun(R, n), NEW K, NEW o, Going(o, R, n + Room, K), NEW s \in ScopeKinds,
         NEW x, There(R, ScopeTable[s], x), \A j : Unused(K, RoleTable[s], j), NEW id, Own(n, id),
         NEW key, Key(key, n + Room), NEW role, Given(R, s, x, key, id, role),
         NEW P, P = Perform(o, KeyedRole(s, x, id, key))
  PROVE  /\ Going(P, R, n + Room, With(K, RoleTable[s], id))
         /\ Later(o.rows, P.rows) /\ (~P.aborted => ~o.aborted)
         /\ ~P.aborted => Fills(P.rows, RoleTable[s], role, ScopeColumn[s], x)
  <1> DEFINE t == KeyedRole(s, x, id, key)
             row == KeyedOf(s, x, id, key)
  <1>1. t.do = "ignore" /\ t.row = row /\ t.needs = {}
    BY KeyedRoleIs
  <1>2. P = Perform(o, t)
    OBVIOUS
  <1>3. row.table = RoleTable[s] /\ row.id = id /\ Col(row, ScopeColumn[s]) = x /\ Col(row, "system_key") = key
        /\ "default" \notin row.flags /\ Is(row, RoleTable[s], id)
    BY KeyedOfIs
  <1> HIDE DEF t
  <1>4. There(o.rows, ScopeTable[s], x)
    <2>1. ScopeTable[s] \notin Erasable
      BY Kinds DEF Erasable
    <2> QED BY <2>1, StillThere
  <1>5. Unused(K, RoleTable[s], id) /\ Met(o.rows, t.needs)
    BY <1>1, NothingAsked
  <1>6. /\ Going(P, R, n + Room, With(K, RoleTable[s], id)) /\ Grown(o.rows, P.rows, row)
        /\ ~P.aborted => ~o.aborted
        /\ ~P.aborted /\ Unclashed(o, t) => row \in P.rows
    BY <1>1, <1>2, <1>4, <1>5, KeyedGoes
  <1> HIDE DEF row
  <1>7. Later(o.rows, P.rows)
    BY <1>6, GrownLater
  <1>8. Later(R, P.rows)
    BY <1>6 DEF Going
  <1>9. ASSUME ~P.aborted PROVE Fills(P.rows, RoleTable[s], role, ScopeColumn[s], x)
    <2>1. CASE \E r \in R : /\ r.table = RoleTable[s] /\ "live" \in r.flags /\ r.val[ScopeColumn[s]] = x
                            /\ Col(r, "system_key") = key /\ role = r.id
      <3>1. PICK r \in R : r.table = RoleTable[s] /\ r.val[ScopeColumn[s]] = x /\ role = r.id
        BY <2>1
      <3>2. Is(r, RoleTable[s], role) /\ Col(r, ScopeColumn[s]) = x
        BY <3>1, RoleColumn DEF Begun, Is
      <3>3. Fills(R, RoleTable[s], role, ScopeColumn[s], x)
        BY <3>2, RoleFills
      <3> QED BY <1>8, <3>3, FillsLater
    <2>2. CASE /\ role = id
               /\ ~\E r \in R : /\ r.table = RoleTable[s] /\ "live" \in r.flags /\ r.val[ScopeColumn[s]] = x
                                /\ Col(r, "system_key") = key
      <3>1. Unclashed(o, t)
        <4>1. SUFFICES ASSUME NEW q \in Clashing(o.rows, row) PROVE FALSE
          BY <1>1 DEF Unclashed
        <4>2. q \in o.rows /\ q.table = RoleTable[s] /\ "live" \in q.flags /\ Col(q, ScopeColumn[s]) = x
              /\ Col(q, "system_key") = key
          BY <1>3, RoleClash
        <4>3. RoleTable[s] \in Static
          BY Kinds DEF Static, RoleTables
        <4>4. q \in R
          BY <4>2, <4>3, StaticOld
        <4>5. q.val[ScopeColumn[s]] = x
          BY <4>2, <4>4, RoleColumn DEF Begun
        <4> QED BY <2>2, <4>2, <4>4, <4>5
      <3>2. row \in P.rows
        BY <1>6, <1>9, <3>1
      <3> QED BY <1>3, <2>2, <3>2, RoleFills
    <2> QED BY <2>1, <2>2 DEF Given
  <1> QED BY <1>6, <1>7, <1>9

\* Whoever is a member already does not enter again.
LEMMA MayEnter ==
  ASSUME NEW R, NEW n, Begun(R, n), NEW K, NEW o, Going(o, R, n + Room, K), NEW s \in ScopeKinds,
         NEW x, NEW u, NEW role, NEW id, NEW b,
         b = <<>> \/ (/\ b = Entering(s, x, u, role, id) /\ There(R, ScopeTable[s], x) /\ There(R, "users", u)
                      /\ ~o.aborted => Fills(o.rows, RoleTable[s], role, ScopeColumn[s], x)),
         Own(n, id), Unused(K, "pages", id), Unused(K, MemberTable[s], id),
         NEW P, P = Continue(o, b)
  PROVE  /\ Going(P, R, n + Room, Entered(K, s, id))
         /\ Later(o.rows, P.rows) /\ (~P.aborted => ~o.aborted) /\ Batch(b)
  <1>1. CASE b = <<>>
    <2>1. P = o
      BY <1>1, ContinueNone
    <2>2. Going(o, R, n + Room, With(K, "pages", id))
      BY GoingWith
    <2> DEFINE K1 == With(K, "pages", id)
    <2>3. Entered(K, s, id) = With(K1, MemberTable[s], id) /\ Going(o, R, n + Room, K1)
      BY <2>2 DEF Entered
    <2> HIDE DEF K1
    <2> QED BY <1>1, <2>1, <2>3, GoingWith, LaterSelf, BatchIs
  <1>2. CASE b # <<>>
    BY <1>2, EnteringGoes
  <1> QED BY <1>1, <1>2

\* The organization of the workspace.
LEMMA OrganizationPart ==
  ASSUME NEW R, NEW n, Begun(R, n), NEW K, NEW o, Going(o, R, n + Room, K), NEW x, NEW u, There(R, "users", u),
         NEW key, Key(key, n + Room), NEW id, Own(n, id), NEW role, NEW j, Own(n, j), NEW b, NEW c,
         c = <<>> \/ (/\ c = <<KeyedRole("organization", x, id, key)>> \o b
                      /\ There(R, "organizations", x) /\ Given(R, "organization", x, key, id, role)
                      /\ b = <<>> \/ b = Entering("organization", x, u, role, j)),
         \A y : Unused(K, "organization_roles", y), Unused(K, "pages", j), Unused(K, "organization_members", j),
         NEW P, P = Continue(o, c)
  PROVE  /\ Going(P, R, n + Room, Entered(With(K, "organization_roles", id), "organization", j))
         /\ Later(o.rows, P.rows) /\ (~P.aborted => ~o.aborted) /\ Batch(c)
  <1> DEFINE K1 == With(K, "organization_roles", id)
  <1>1. /\ "organization" \in ScopeKinds /\ ScopeTable["organization"] = "organizations"
        /\ RoleTable["organization"] = "organization_roles" /\ MemberTable["organization"] = "organization_members"
    BY Kinds DEF ScopeKinds
  <1>2. K1 = With(K, "organization_roles", id) /\ Unused(K1, "pages", j) /\ Unused(K1, "organization_members", j)
    BY UnusedWith
  <1> HIDE DEF K1
  <1>3. CASE c = <<>>
    <2>1. P = o /\ P = Continue(o, c)
      BY <1>3, ContinueNone
    <2>2. Going(P, R, n + Room, K1)
      BY <1>2, <2>1, GoingWith
    <2>3. Going(P, R, n + Room, Entered(K1, "organization", j))
      <3>1. P = Continue(P, c)
        BY <1>3, <2>1
      <3> QED BY <1>1, <1>2, <1>3, <2>2, <3>1, MayEnter
    <2> QED BY <1>2, <1>3, <2>1, <2>3, LaterSelf, BatchIs
  <1>4. CASE c # <<>>
    <2> DEFINE t == KeyedRole("organization", x, id, key)
               a == <<t>>
               p == Perform(o, t)
    <2>1. p = Perform(o, t) /\ p = Continue(o, a) /\ Batch(a)
      BY ContinueOne, BatchIs
    <2>2. c = a \o b /\ There(R, "organizations", x) /\ Given(R, "organization", x, key, id, role)
          /\ (b = <<>> \/ b = Entering("organization", x, u, role, j))
      BY <1>4
    <2> HIDE DEF t, a, p
    <2>3. p = Perform(o, KeyedRole("organization", x, id, key))
      BY <2>1 DEF t
    <2>4. /\ Going(p, R, n + Room, K1) /\ Later(o.rows, p.rows) /\ (~p.aborted => ~o.aborted)
          /\ ~p.aborted => Fills(p.rows, RoleTable["organization"], role, ScopeColumn["organization"], x)
      BY <1>1, <1>2, <2>2, <2>3, KeyedThere
    <2> DEFINE q == Continue(p, b)
    <2>5. q = Continue(p, b)
      OBVIOUS
    <2> HIDE DEF q
    <2>6. /\ Going(q, R, n + Room, Entered(K1, "organization", j)) /\ Later(p.rows, q.rows)
          /\ (~q.aborted => ~p.aborted) /\ Batch(b)
      <3>1. b = <<>> \/ (/\ b = Entering("organization", x, u, role, j) /\ There(R, ScopeTable["organization"], x)
                         /\ There(R, "users", u)
                         /\ ~p.aborted => Fills(p.rows, RoleTable["organization"], role, ScopeColumn["organization"], x))
        BY <1>1, <2>2, <2>4
      <3>2. Unused(K1, "pages", j) /\ Unused(K1, MemberTable["organization"], j) /\ Going(p, R, n + Room, K1)
        BY <1>1, <1>2, <2>4
      <3> QED BY <1>1, <2>5, <3>1, <3>2, MayEnter
    <2>7. P = q /\ Batch(c)
      BY <2>1, <2>2, <2>5, <2>6, BatchBoth
    <2>8. Later(o.rows, q.rows)
      BY <2>4, <2>6, LaterTrans
    <2> QED BY <1>2, <2>4, <2>6, <2>7, <2>8
  <1> QED BY <1>3, <1>4

\* Which keys are unused after someone entered.
LEMMA UnusedEntered ==
  \A K, s, id, t, id2 :
     Unused(Entered(K, s, id), t, id2) <=>
        Unused(K, t, id2) /\ ~(t = "pages" /\ id2 = id) /\ ~(t = MemberTable[s] /\ id2 = id)
  BY UnusedWith DEF Entered

\* What an acceptance inserts, in the order of its statements.
LEMMA Accepted ==
  ASSUME NEW R, NEW n, Begun(R, n), NEW u, There(R, "users", u), NEW i, There(R, "access_invites", i),
         Key(i, n + Room), NEW s \in ScopeKinds, NEW x, NEW role,
         NEW k1, Own(n, k1), NEW k2, Own(n, k2), NEW k3, Own(n, k3), NEW k4, Own(n, k4), NEW k5, Own(n, k5),
         NEW k6, Own(n, k6), k3 # k4, k3 # k5, k4 # k5,
         NEW w, NEW rw, NEW a, NEW d,
         \/ a = <<>> /\ d = <<>>
         \/ /\ a = <<KeyedRole("workspace", w, k1, i)>> /\ There(R, "workspaces", w)
            /\ Given(R, "workspace", w, i, k1, rw) /\ (d = <<>> \/ d = Entering("workspace", w, u, rw, k4)),
         NEW y, NEW ry, NEW b, NEW c,
         c = <<>> \/ (/\ c = <<KeyedRole("organization", y, k2, i)>> \o b
                      /\ There(R, "organizations", y) /\ Given(R, "organization", y, i, k2, ry)
                      /\ b = <<>> \/ b = Entering("organization", y, u, ry, k3)),
         NEW e, e = <<>> \/ (/\ e = Entering(s, x, u, role, k5) /\ There(R, ScopeTable[s], x)
                             /\ Fills(R, RoleTable[s], role, ScopeColumn[s], x))
  PROVE  Safe(R, a \o c \o d \o e \o <<Put("access_invite_acceptances", k6, [invite_id |-> i, user_id |-> u])>>,
              n + Room)
  <1> DEFINE m == n + Room
             t == Put("access_invite_acceptances", k6, [invite_id |-> i, user_id |-> u])
             f == <<t>>
             o0 == Holding(R)
             o1 == Continue(o0, a)
             o2 == Continue(o1, c)
             o3 == Continue(o2, d)
             o4 == Continue(o3, e)
             o5 == Perform(o4, t)
             K1 == With({}, "workspace_roles", k1)
             K2 == Entered(With(K1, "organization_roles", k2), "organization", k3)
             K3 == Entered(K2, "workspace", k4)
             K4 == Entered(K3, s, k5)
             K5 == With(K4, "access_invite_acceptances", k6)
  <1>1. Going(o0, R, m, {}) /\ o0.rows = R /\ ~o0.aborted /\ m \in Int /\ Fit(R, m) /\ Complete(R) /\ m = n + Room
    BY Begins
  <1>2. /\ o1 = Continue(o0, a) /\ o2 = Continue(o1, c) /\ o3 = Continue(o2, d) /\ o4 = Continue(o3, e)
        /\ o5 = Perform(o4, t) /\ f = <<t>> /\ Batch(f)
    BY BatchIs
  <1>3. /\ K1 = With({}, "workspace_roles", k1)
        /\ K2 = Entered(With(K1, "organization_roles", k2), "organization", k3)
        /\ K3 = Entered(K2, "workspace", k4) /\ K4 = Entered(K3, s, k5)
        /\ K5 = With(K4, "access_invite_acceptances", k6)
    OBVIOUS
  <1>4. t.do = "insert" /\ t.row = Entry("access_invite_acceptances", k6, [invite_id |-> i, user_id |-> u], {"live"})
    BY DEF Put, Statement
  <1>5. /\ "workspace" \in ScopeKinds /\ ScopeTable["workspace"] = "workspaces"
        /\ RoleTable["workspace"] = "workspace_roles" /\ MemberTable["workspace"] = "workspace_members"
        /\ MemberTable["organization"] = "organization_members"
        /\ MemberTable[s] \in {"organization_members", "workspace_members", "page_collaborators"}
    BY Kinds DEF ScopeKinds
  <1> HIDE DEF m, t, f, o0, o1, o2, o3, o4, o5, K1, K2, K3, K4, K5
  <1>6. /\ \A j : Unused({}, "workspace_roles", j)
        /\ \A j : Unused(K1, "organization_roles", j)
        /\ Unused(K1, "pages", k3) /\ Unused(K1, "organization_members", k3)
    BY <1>3, UnusedWith
  <1>7. Unused(K2, "pages", k4) /\ Unused(K2, "workspace_members", k4)
    BY <1>3, <1>5, UnusedWith, UnusedEntered
  <1>8. Unused(K3, "pages", k5) /\ Unused(K3, MemberTable[s], k5)
    BY <1>3, <1>5, UnusedWith, UnusedEntered
  <1>9. Unused(K4, "access_invite_acceptances", k6)
    BY <1>3, <1>5, UnusedWith, UnusedEntered
  <1>10. /\ Going(o1, R, m, K1) /\ Batch(a) /\ (~o1.aborted => ~o0.aborted)
         /\ ~o1.aborted /\ d # <<>> => Fills(o1.rows, RoleTable["workspace"], rw, ScopeColumn["workspace"], w)
    <2>1. CASE a = <<>> /\ d = <<>>
      <3>1. o1 = o0
        BY <1>2, <2>1, ContinueNone
      <3> QED BY <1>1, <1>3, <2>1, <3>1, GoingWith, BatchIs
    <2>2. CASE /\ a = <<KeyedRole("workspace", w, k1, i)>> /\ There(R, "workspaces", w)
               /\ Given(R, "workspace", w, i, k1, rw)
      <3>1. o1 = Perform(o0, KeyedRole("workspace", w, k1, i)) /\ Batch(a)
        BY <1>2, <2>2, ContinueOne, BatchIs
      <3> QED BY <1>1, <1>3, <1>5, <1>6, <2>2, <3>1, KeyedThere
    <2> QED BY <2>1, <2>2
  <1>11. Going(o2, R, m, K2) /\ Later(o1.rows, o2.rows) /\ (~o2.aborted => ~o1.aborted) /\ Batch(c)
    BY <1>1, <1>2, <1>3, <1>6, <1>10, OrganizationPart
  <1>12. Going(o3, R, m, K3) /\ (~o3.aborted => ~o2.aborted) /\ Batch(d)
    <2>1. d = <<>> \/ (/\ d = Entering("workspace", w, u, rw, k4) /\ There(R, ScopeTable["workspace"], w)
                       /\ There(R, "users", u)
                       /\ ~o2.aborted => Fills(o2.rows, RoleTable["workspace"], rw, ScopeColumn["workspace"], w))
      <3>1. CASE d = <<>>
        BY <3>1
      <3>2. CASE d # <<>>
        <4>1. d = Entering("workspace", w, u, rw, k4) /\ There(R, ScopeTable["workspace"], w)
          BY <1>5, <3>2
        <4>2. ~o2.aborted => Fills(o2.rows, RoleTable["workspace"], rw, ScopeColumn["workspace"], w)
          BY <1>5, <1>10, <1>11, <3>2, FillsLater
        <4> QED BY <4>1, <4>2
      <3> QED BY <3>1, <3>2
    <2>2. Unused(K2, "pages", k4) /\ Unused(K2, MemberTable["workspace"], k4) /\ Going(o2, R, n + Room, K2)
      BY <1>1, <1>5, <1>7, <1>11
    <2>3. Going(o3, R, n + Room, Entered(K2, "workspace", k4)) /\ (~o3.aborted => ~o2.aborted) /\ Batch(d)
      BY <1>2, <1>5, <2>1, <2>2, MayEnter
    <2> QED BY <1>1, <1>3, <2>3
  <1>13. Going(o4, R, m, K4) /\ (~o4.aborted => ~o3.aborted) /\ Batch(e)
    <2>1. Later(R, o3.rows)
      BY <1>12 DEF Going
    <2>2. e = <<>> \/ (/\ e = Entering(s, x, u, role, k5) /\ There(R, ScopeTable[s], x)
                       /\ There(R, "users", u)
                       /\ ~o3.aborted => Fills(o3.rows, RoleTable[s], role, ScopeColumn[s], x))
      BY <2>1, FillsLater
    <2>3. Unused(K3, "pages", k5) /\ Unused(K3, MemberTable[s], k5) /\ Going(o3, R, n + Room, K3)
      BY <1>1, <1>8, <1>12
    <2>4. Going(o4, R, n + Room, Entered(K3, s, k5)) /\ (~o4.aborted => ~o3.aborted) /\ Batch(e)
      BY <1>2, <2>2, <2>3, MayEnter
    <2> QED BY <1>1, <1>3, <2>4
  <1>14. Going(o5, R, m, K5)
    <2>1. t.row.table = "access_invite_acceptances" /\ t.row.id = k6 /\ Put1(t)
      BY <1>4, EntryIs DEF Put1
    <2>2. Number(k6, m) /\ ~There(R, "access_invite_acceptances", k6)
      BY <1>1, OwnNumber
    <2>3. There(o4.rows, "users", u) /\ There(o4.rows, "access_invites", i)
      BY <1>13, StillThere DEF Erasable
    <2>4. Sound(o4.rows, t.row, m)
      BY <1>4, <2>2, <2>3, AcceptanceSound
    <2> QED BY <1>1, <1>2, <1>3, <1>9, <1>13, <2>1, <2>2, <2>4, PutNew
  <1>15. Continue(o0, a \o c \o d \o e \o f) = o5
    <2>1. Continue(o0, a \o c) = o2 /\ Batch(a \o c)
      BY <1>2, <1>10, <1>11, BatchBoth
    <2> DEFINE g == a \o c
    <2>2. Continue(o0, g) = o2 /\ Batch(g)
      BY <2>1
    <2> HIDE DEF g
    <2>3. Continue(o0, g \o d) = o3 /\ Batch(g \o d)
      BY <1>2, <1>12, <2>2, BatchBoth
    <2> DEFINE h == g \o d
    <2>4. Continue(o0, h) = o3 /\ Batch(h)
      BY <2>3
    <2> HIDE DEF h
    <2>5. Continue(o0, h \o e) = o4 /\ Batch(h \o e)
      BY <1>2, <1>13, <2>4, BatchBoth
    <2> DEFINE z == h \o e
    <2>6. Continue(o0, z) = o4 /\ Batch(z)
      BY <2>5
    <2> HIDE DEF z
    <2>7. Continue(o0, z \o f) = Continue(o4, f)
      BY <1>2, <2>6, BatchBoth
    <2>8. Continue(o4, f) = o5
      BY <1>2, ContinueOne
    <2> QED BY <2>7, <2>8 DEF g, h, z
  <1>16. \A z \in Founding : \A j : Unused(K5, z, j)
    BY <1>3, <1>5, UnusedWith, UnusedEntered DEF Founding
  <1>17. Safe(R, a \o c \o d \o e \o f, m)
    BY <1>1, <1>14, <1>15, <1>16, SafeSmall DEF o0
  <1> QED BY <1>17 DEF f, t, m

\* The role an acceptance finds is the one there is, or the new one.
LEMMA RoleInGiven ==
  ASSUME NEW kind, NEW id, NEW key, NEW fresh, NEW T,
         T = {r \in LiveOf(RoleTable[kind]) : r.val[ScopeColumn[kind]] = id /\ Col(r, "system_key") = key},
         NEW role, role = IF T = {} THEN fresh ELSE (CHOOSE r \in T : TRUE).id
  PROVE  Given(stored, kind, id, key, fresh, role)
  <1>1. \A r : r \in T <=> /\ r \in stored /\ r.table = RoleTable[kind] /\ "live" \in r.flags
                           /\ r.val[ScopeColumn[kind]] = id /\ Col(r, "system_key") = key
    BY DEF LiveOf, RowsOf
  <1>2. CASE T = {}
    BY <1>1, <1>2 DEF Given
  <1>3. CASE T # {}
    <2>1. PICK r \in T : role = r.id
      BY <1>3
    <2> QED BY <1>1, <2>1 DEF Given
  <1> QED BY <1>2, <1>3

\* The organization of a workspace is there.
LEMMA OrganizationThere ==
  ASSUME RecordsInd, NEW w, NEW y \in OrganizationOf(w)
  PROVE  There(stored, "organizations", y)
  <1>1. PICK r \in RowsOf("workspaces") : y = Col(r, "organization_id") /\ y # Null
    BY DEF OrganizationOf
  <1>2. Sound(stored, r, Room * batches) /\ r.table = "workspaces"
    BY RowSound
  <1>3. Maybe("organization_id", "organizations") \in Schema[r.table].refers
    BY <1>2, WorkspacesRefer
  <1>4. Reaches(stored, r, Maybe("organization_id", "organizations"))
    BY <1>2, <1>3, NotDangling DEF Sound
  <1> QED BY <1>1, <1>4, MaybeReaches

\* What is known of an invite.
LEMMA InviteSays ==
  ASSUME RecordsInd, NEW i \in LiveOf("access_invites")
  PROVE  LET s == i.val.scope
             x == i.val.scope_id
         IN /\ s \in ScopeKinds /\ Key(i.id, Room * batches + Room) /\ There(stored, "access_invites", i.id)
            /\ There(stored, ScopeTable[s], x) /\ Fills(stored, RoleTable[s], i.val.role_id, ScopeColumn[s], x)
  <1> DEFINE s == i.val.scope
             x == i.val.scope_id
  <1>1. i \in RowsOf("access_invites")
    BY DEF LiveOf
  <1>2. Sound(stored, i, Room * batches + Room) /\ i.table = "access_invites" /\ There(stored, "access_invites", i.id)
    BY <1>1, RowSound
  <1>3. Key(i.id, Room * batches + Room)
    BY <1>2 DEF Sound, Numbered, Number, Key
  <1>4. s \in ScopeKinds /\ \E q \in stored : Is(q, RoleTable[s], i.val.role_id) /\ q.val[ScopeColumn[s]] = x
    BY <1>2 DEF Sound, Whole
  <1>5. PICK q \in stored : Is(q, RoleTable[s], i.val.role_id) /\ q.val[ScopeColumn[s]] = x
    BY <1>4
  <1>6. q \in RowsOf(RoleTable[s]) /\ q.id = i.val.role_id
    BY <1>5 DEF RowsOf, Is
  <1> HIDE DEF s, x
  <1>7. There(stored, ScopeTable[s], x) /\ Fills(stored, RoleTable[s], i.val.role_id, ScopeColumn[s], x)
    BY <1>4, <1>5, <1>6, RoleThere
  <1> QED BY <1>2, <1>3, <1>4, <1>7 DEF s, x

\* AcceptInvite keeps the invariant.
LEMMA AcceptInviteKeeps ==
  ASSUME RecordsInd, NEW i \in LiveOf("access_invites"), NEW u \in Accounts, NEW w \in IdsOf("workspaces") \cup {Null},
         AcceptInvite(i, u, w)
  PROVE  RecordsInd'
  <1> DEFINE s == i.val.scope
             x == i.val.scope_id
             o == IF w = Null THEN {} ELSE OrganizationOf(w)
             y == CHOOSE z \in o : TRUE
             T(kind, id) == {r \in LiveOf(RoleTable[kind]) : r.val[ScopeColumn[kind]] = id /\ Col(r, "system_key") = i.id}
             rw == IF T("workspace", w) = {} THEN Id(1) ELSE (CHOOSE r \in T("workspace", w) : TRUE).id
             ry == IF T("organization", y) = {} THEN Id(2) ELSE (CHOOSE r \in T("organization", y) : TRUE).id
             a == IF w = Null THEN <<>> ELSE <<KeyedRole("workspace", w, Id(1), i.id)>>
             b == IF IsMemberOf("organization", y, u) THEN <<>> ELSE Entering("organization", y, u, ry, Id(3))
             c == IF o = {} THEN <<>> ELSE <<KeyedRole("organization", y, Id(2), i.id)>> \o b
             d == IF w = Null THEN <<>>
                  ELSE IF IsMemberOf("workspace", w, u) THEN <<>> ELSE Entering("workspace", w, u, rw, Id(4))
             e == IF s = "workspace" THEN <<>>
                  ELSE IF IsMemberOf(s, x, u) THEN <<>> ELSE Entering(s, x, u, i.val.role_id, Id(5))
             f == <<Put("access_invite_acceptances", Id(6), [invite_id |-> i.id, user_id |-> u])>>
  <1>1. Execute(a \o c \o d \o e \o f)
    BY DEF AcceptInvite
  <1>2. Given(stored, "workspace", w, i.id, Id(1), rw) /\ Given(stored, "organization", y, i.id, Id(2), ry)
    <2> HIDE DEF y
    <2> QED BY RoleInGiven
  <1>3. \/ a = <<>> /\ d = <<>>
        \/ /\ a = <<KeyedRole("workspace", w, Id(1), i.id)>> /\ w # Null
           /\ (d = <<>> \/ d = Entering("workspace", w, u, rw, Id(4)))
    OBVIOUS
  <1>4. c = <<>> \/ (/\ c = <<KeyedRole("organization", y, Id(2), i.id)>> \o b /\ y \in OrganizationOf(w)
                     /\ (b = <<>> \/ b = Entering("organization", y, u, ry, Id(3))))
    <2>1. o # {} => y \in OrganizationOf(w)
      OBVIOUS
    <2> HIDE DEF y, o, ry
    <2> QED BY <2>1
  <1>5. e = <<>> \/ e = Entering(s, x, u, i.val.role_id, Id(5))
    OBVIOUS
  <1> HIDE DEF s, x, o, y, T, rw, ry, a, b, c, d, e
  <1>6. w # Null => There(stored, "workspaces", w)
    BY IdThere
  <1>7. /\ s \in ScopeKinds /\ Key(i.id, Room * batches + Room) /\ There(stored, "access_invites", i.id)
        /\ There(stored, ScopeTable[s], x) /\ Fills(stored, RoleTable[s], i.val.role_id, ScopeColumn[s], x)
    BY InviteSays DEF s, x
  <1>8. /\ \A k \in 1..6 : Own(Room * batches, Id(k))
        /\ Id(3) # Id(4) /\ Id(3) # Id(5) /\ Id(4) # Id(5)
    <2>1. \A k \in 1..6 : Id(k) = Room * batches + k /\ Own(Room * batches, Id(k))
      BY IdIs
    <2>2. Room * batches \in Int
      BY IndBegun DEF Begun
    <2>3. Id(3) = Room * batches + 3 /\ Id(4) = Room * batches + 4 /\ Id(5) = Room * batches + 5
      BY <2>1
    <2> QED BY <2>1, <2>2, <2>3
  <1>9. Own(Room * batches, Id(1)) /\ Own(Room * batches, Id(2)) /\ Own(Room * batches, Id(3))
        /\ Own(Room * batches, Id(4)) /\ Own(Room * batches, Id(5)) /\ Own(Room * batches, Id(6))
    BY <1>8
  <1>10. There(stored, "users", u) /\ Begun(stored, Room * batches)
    BY AccountThere, IndBegun
  <1>11. \/ a = <<>> /\ d = <<>>
         \/ /\ a = <<KeyedRole("workspace", w, Id(1), i.id)>> /\ There(stored, "workspaces", w)
            /\ Given(stored, "workspace", w, i.id, Id(1), rw)
            /\ (d = <<>> \/ d = Entering("workspace", w, u, rw, Id(4)))
    BY <1>2, <1>3, <1>6
  <1>12. c = <<>> \/ (/\ c = <<KeyedRole("organization", y, Id(2), i.id)>> \o b
                      /\ There(stored, "organizations", y) /\ Given(stored, "organization", y, i.id, Id(2), ry)
                      /\ (b = <<>> \/ b = Entering("organization", y, u, ry, Id(3))))
    BY <1>2, <1>4, OrganizationThere
  <1>13. e = <<>> \/ (/\ e = Entering(s, x, u, i.val.role_id, Id(5)) /\ There(stored, ScopeTable[s], x)
                      /\ Fills(stored, RoleTable[s], i.val.role_id, ScopeColumn[s], x))
    BY <1>5, <1>7
  <1>14. Safe(stored, a \o c \o d \o e \o f, Room * batches + Room)
    BY <1>7, <1>8, <1>9, <1>10, <1>11, <1>12, <1>13, Accepted
  <1> HIDE DEF f
  <1> QED BY <1>1, <1>14, SafeKeeps

-----------------------------------------------------------------------------
(* Pages and their rows.                                                    *)

\* A batch as it is, or with its writes checked.
Form(hard, b) == IF hard THEN Checked(b) ELSE b
Hard(hard, s) == IF hard THEN Must(s) ELSE s

\* A batch of two.
LEMMA FormTwo ==
  ASSUME NEW o, NEW hard \in BOOLEAN, NEW s, NEW t
  PROVE  Continue(o, Form(hard, <<s, t>>)) = Perform(Perform(o, Hard(hard, s)), Hard(hard, t))
  <1> DEFINE z == <<s, t>>
  <1>1. z \in Seq({s, t}) /\ Len(z) = 2 /\ z[1] = s /\ z[2] = t
    OBVIOUS
  <1>2. Len(Checked(z)) = 2 /\ Checked(z)[1] = Must(s) /\ Checked(z)[2] = Must(t)
    <2> HIDE DEF z
    <2>1. Len(Checked(z)) = Len(z) /\ \A i \in 1..Len(z) : Checked(z)[i] = Must(z[i])
      BY <1>1, CheckedIs
    <2> QED BY <1>1, <2>1
  <1>3. Continue(o, <<Must(s), Must(t)>>) = Continue(o, Checked(<<s, t>>))
    BY <1>2, ContinueSame
  <1>4. CASE hard
    BY <1>3, <1>4, ContinueTwo DEF Form, Hard
  <1>5. CASE ~hard
    BY <1>5, ContinueTwo DEF Form, Hard
  <1> QED BY <1>4, <1>5

\* A batch of three.
LEMMA FormThree ==
  ASSUME NEW o, NEW hard \in BOOLEAN, NEW s, NEW t, NEW w
  PROVE  /\ Continue(o, Form(hard, <<s, t, w>>))
               = Perform(Perform(Perform(o, Hard(hard, s)), Hard(hard, t)), Hard(hard, w))
         /\ Batch(<<s, t, w>>)
  <1> DEFINE z == <<s, t, w>>
  <1>1. z \in Seq({s, t, w}) /\ Len(z) = 3 /\ z[1] = s /\ z[2] = t /\ z[3] = w
    OBVIOUS
  <1>2. Len(Checked(z)) = 3 /\ Checked(z)[1] = Must(s) /\ Checked(z)[2] = Must(t) /\ Checked(z)[3] = Must(w)
    <2> HIDE DEF z
    <2>1. Len(Checked(z)) = Len(z) /\ \A i \in 1..Len(z) : Checked(z)[i] = Must(z[i])
      BY <1>1, CheckedIs
    <2> QED BY <1>1, <2>1
  <1>3. Continue(o, <<Must(s), Must(t), Must(w)>>) = Continue(o, Checked(<<s, t, w>>))
    BY <1>2, ContinueSame
  <1>4. Batch(<<s, t, w>>)
    BY <1>1 DEF Batch
  <1>5. CASE hard
    <2>1. Form(hard, <<s, t, w>>) = Checked(<<s, t, w>>) /\ Hard(hard, s) = Must(s) /\ Hard(hard, t) = Must(t)
          /\ Hard(hard, w) = Must(w)
      BY <1>5 DEF Form, Hard
    <2> QED BY <1>3, <1>4, <2>1, ContinueThree
  <1>6. CASE ~hard
    <2>1. Form(hard, <<s, t, w>>) = <<s, t, w>> /\ Hard(hard, s) = s /\ Hard(hard, t) = t /\ Hard(hard, w) = w
      BY <1>6 DEF Form, Hard
    <2> QED BY <1>4, <2>1, ContinueThree
  <1> QED BY <1>5, <1>6

\* A batch of one.
LEMMA FormOne ==
  ASSUME NEW o, NEW hard \in BOOLEAN, NEW s
  PROVE  Continue(o, Form(hard, <<s>>)) = Perform(o, Hard(hard, s))
  BY CheckedOne, ContinueOne DEF Form, Hard, Must

\* A batch of none.
LEMMA FormNone ==
  ASSUME NEW o, NEW hard \in BOOLEAN
  PROVE  Continue(o, Form(hard, <<>>)) = o
  <1> DEFINE z == <<>>
  <1>1. z \in Seq({}) /\ Len(z) = 0
    OBVIOUS
  <1>2. Len(Checked(z)) = 0
    <2> HIDE DEF z
    <2> QED BY <1>1, CheckedIs
  <1>3. Continue(o, <<>>) = Continue(o, Checked(<<>>))
    BY <1>2, ContinueSame
  <1> QED BY <1>3, ContinueNone DEF Form

\* Two batches, one after the other.
LEMMA FormBoth ==
  ASSUME NEW o, NEW hard \in BOOLEAN, NEW a, Batch(a), NEW b, Batch(b)
  PROVE  /\ Continue(o, Form(hard, a \o b)) = Continue(Continue(o, Form(hard, a)), Form(hard, b))
         /\ Batch(a \o b)
  <1>1. PICK S : a \in Seq(S)
    BY DEF Batch
  <1>2. PICK T : b \in Seq(T)
    BY DEF Batch
  <1>3. Continue(o, Checked(a \o b)) = Continue(Continue(o, Checked(a)), Checked(b))
    BY <1>1, <1>2, CheckedBoth
  <1> QED BY <1>3, BatchBoth DEF Form

\* The statement has these fields, checked or not.
Says(s, do, row, needs) == s.do = do /\ s.row = row /\ s.needs = needs

\* The fields of an insert.
LEMMA PutSays ==
  ASSUME NEW hard \in BOOLEAN, NEW t, NEW id, NEW val
  PROVE  /\ Says(Hard(hard, Put(t, id, val)), "insert", Entry(t, id, val, {"live"}), {})
         /\ Hard(hard, Put(t, id, val)).checked = hard
  <1> DEFINE s == Put(t, id, val)
             row == Entry(t, id, val, {"live"})
  <1>1. s.do = "insert" /\ s.row = row /\ s.needs = {} /\ s.checked = FALSE
    BY DEF Put, Statement
  <1>2. Must(s).do = "insert" /\ Must(s).row = row /\ Must(s).needs = {} /\ Must(s).checked = TRUE
    BY DEF Must, Put, Statement
  <1>3. Says(s, "insert", row, {}) /\ Says(Must(s), "insert", row, {})
    BY <1>1, <1>2 DEF Says
  <1> HIDE DEF s, row
  <1>4. Says(Hard(hard, s), "insert", row, {}) /\ Hard(hard, s).checked = hard
    <2>1. CASE hard
      <3>1. Hard(hard, s) = Must(s)
        BY <2>1 DEF Hard
      <3> QED BY <1>2, <1>3, <2>1, <3>1
    <2>2. CASE ~hard
      <3>1. Hard(hard, s) = s
        BY <2>2 DEF Hard
      <3> QED BY <1>1, <1>3, <2>2, <3>1
    <2> QED BY <2>1, <2>2
  <1> QED BY <1>4 DEF s, row

\* The fields of an insert with a condition.
LEMMA PutIfSays ==
  ASSUME NEW hard \in BOOLEAN, NEW needs, NEW t, NEW id, NEW val
  PROVE  /\ Says(Hard(hard, If(needs, Put(t, id, val))), "insert", Entry(t, id, val, {"live"}), needs)
         /\ Hard(hard, If(needs, Put(t, id, val))).checked = hard
  <1> DEFINE s == If(needs, Put(t, id, val))
             row == Entry(t, id, val, {"live"})
  <1>1. s.do = "insert" /\ s.row = row /\ s.needs = needs /\ s.checked = FALSE
    BY DEF If, Put, Statement
  <1>2. Must(s).do = "insert" /\ Must(s).row = row /\ Must(s).needs = needs /\ Must(s).checked = TRUE
    BY DEF Must, If, Put, Statement
  <1>3. Says(s, "insert", row, needs) /\ Says(Must(s), "insert", row, needs)
    BY <1>1, <1>2 DEF Says
  <1> HIDE DEF s, row
  <1>4. Says(Hard(hard, s), "insert", row, needs) /\ Hard(hard, s).checked = hard
    <2>1. CASE hard
      <3>1. Hard(hard, s) = Must(s)
        BY <2>1 DEF Hard
      <3> QED BY <1>2, <1>3, <2>1, <3>1
    <2>2. CASE ~hard
      <3>1. Hard(hard, s) = s
        BY <2>2 DEF Hard
      <3> QED BY <1>1, <1>3, <2>2, <3>1
    <2> QED BY <2>1, <2>2
  <1> QED BY <1>4 DEF s, row

\* The fields of an upsert with a condition.
LEMMA UpdateIfSays ==
  ASSUME NEW hard \in BOOLEAN, NEW needs, NEW t, NEW id, NEW val
  PROVE  /\ Says(Hard(hard, If(needs, OrUpdate(Put(t, id, val)))), "update", Entry(t, id, val, {"live"}), needs)
         /\ Hard(hard, If(needs, OrUpdate(Put(t, id, val)))).checked = hard
  <1> DEFINE s == If(needs, OrUpdate(Put(t, id, val)))
             row == Entry(t, id, val, {"live"})
  <1>1. s.do = "update" /\ s.row = row /\ s.needs = needs /\ s.checked = FALSE
    BY DEF If, OrUpdate, Put, Statement
  <1>2. Must(s).do = "update" /\ Must(s).row = row /\ Must(s).needs = needs /\ Must(s).checked = TRUE
    BY DEF Must, If, OrUpdate, Put, Statement
  <1>3. Says(s, "update", row, needs) /\ Says(Must(s), "update", row, needs)
    BY <1>1, <1>2 DEF Says
  <1> HIDE DEF s, row
  <1>4. Says(Hard(hard, s), "update", row, needs) /\ Hard(hard, s).checked = hard
    <2>1. CASE hard
      <3>1. Hard(hard, s) = Must(s)
        BY <2>1 DEF Hard
      <3> QED BY <1>2, <1>3, <2>1, <3>1
    <2>2. CASE ~hard
      <3>1. Hard(hard, s) = s
        BY <2>2 DEF Hard
      <3> QED BY <1>1, <1>3, <2>2, <3>1
    <2> QED BY <2>1, <2>2
  <1> QED BY <1>4 DEF s, row

\* The fields of the statement of a default role.
LEMMA DefaultSays ==
  ASSUME NEW hard \in BOOLEAN, NEW x0, NEW x, NEW id, NEW needs
  PROVE  LET t == DefaultRole(x0, x, id, needs)
         IN Says(Hard(hard, t), "ignore", DefaultOf(x0, x, id), needs) /\ Hard(hard, t).checked = hard
  <1> DEFINE s == DefaultRole(x0, x, id, needs)
             row == DefaultOf(x0, x, id)
  <1>1. s.do = "ignore" /\ s.row = row /\ s.needs = needs /\ s.checked = FALSE
    BY DEF DefaultRole, DefaultOf, As, OrIgnore, If, Put, Statement, Entry
  <1>2. Must(s).do = "ignore" /\ Must(s).row = row /\ Must(s).needs = needs /\ Must(s).checked = TRUE
    BY DEF Must, DefaultRole, DefaultOf, As, OrIgnore, If, Put, Statement, Entry
  <1>3. Says(s, "ignore", row, needs) /\ Says(Must(s), "ignore", row, needs)
    BY <1>1, <1>2 DEF Says
  <1> HIDE DEF s, row
  <1>4. Says(Hard(hard, s), "ignore", row, needs) /\ Hard(hard, s).checked = hard
    <2>1. CASE hard
      <3>1. Hard(hard, s) = Must(s)
        BY <2>1 DEF Hard
      <3> QED BY <1>2, <1>3, <2>1, <3>1
    <2>2. CASE ~hard
      <3>1. Hard(hard, s) = s
        BY <2>2 DEF Hard
      <3> QED BY <1>1, <1>3, <2>2, <3>1
    <2> QED BY <2>1, <2>2
  <1> QED BY <1>4 DEF s, row

\* A page with its role.
LEMMA PageGoes ==
  ASSUME NEW R, NEW n, Begun(R, n), NEW u, There(R, "users", u), NEW id, Own(n, id), NEW r, Own(n, r),
         NEW s1, s1.do = "insert", s1.row = Entry("pages", id, [owner_id |-> u], {"live"}),
         s1.needs = {} \/ s1.checked,
         NEW s2, s2.do = "ignore", s2.row = DefaultOf("page", id, r), s2.needs = {},
         NEW o0, o0 = Holding(R), NEW o1, o1 = Perform(o0, s1), NEW o2, o2 = Perform(o1, s2)
  PROVE  /\ Going(o2, R, n + Room, With(With({}, "pages", id), "page_roles", r))
         /\ ~o2.aborted => There(o2.rows, "pages", id) /\ DefaultOf("page", id, r) \in o2.rows
  <1> DEFINE m == n + Room
             page == Entry("pages", id, [owner_id |-> u], {"live"})
             role == DefaultOf("page", id, r)
             K1 == With({}, "pages", id)
             K2 == With(K1, "page_roles", r)
  <1>1. m \in Int /\ Number(id, m) /\ ~There(R, "pages", id) /\ Going(o0, R, m, {}) /\ o0.rows = R
    BY Begins, OwnNumber
  <1>2. page.table = "pages" /\ page.id = id /\ Is(page, "pages", id) /\ s1.row = page /\ s2.row = role
    BY EntryIs
  <1>3. Sound(R, page, m)
    BY <1>1, PageSound
  <1>4. K1 = With({}, "pages", id) /\ K2 = With(K1, "page_roles", r) /\ m = n + Room
    OBVIOUS
  <1>5. Unused({}, "pages", id) /\ \A j : Unused(K1, "page_roles", j)
    BY UnusedWith
  <1>6. "page" \in ScopeKinds /\ RoleTable["page"] = "page_roles" /\ ScopeTable["page"] = "pages"
    BY Kinds DEF ScopeKinds
  <1> HIDE DEF page, role, K1, K2
  <1>7. /\ Going(o1, R, m, K1) /\ (~o1.aborted => Met(R, s1.needs)) /\ (~o1.aborted => page \in o1.rows)
    <2> HIDE DEF m
    <2>1. Put1(s1) /\ s1.row.table = "pages" /\ s1.row.id = id /\ Sound(o0.rows, s1.row, m)
      BY <1>1, <1>2, <1>3 DEF Put1
    <2>2. /\ Going(o1, R, m, K1)
          /\ ~o1.aborted /\ Met(o0.rows, s1.needs) => s1.row \in o1.rows
          /\ ~o1.aborted /\ s1.checked => Met(o0.rows, s1.needs)
      BY <1>1, <1>4, <1>5, <2>1, PutNew
    <2> QED BY <1>1, <1>2, <2>2, NothingAsked
  <1>8. ~o1.aborted => There(o1.rows, "pages", id)
    BY <1>2, <1>7 DEF There
  <1>9. /\ Going(o1, R, n + Room, K1) /\ ~There(R, ScopeTable["page"], id)
        /\ \A j : Unused(K1, RoleTable["page"], j)
        /\ s2.row = DefaultOf("page", id, r)
        /\ Asked(o1, s2) => There(o1.rows, ScopeTable["page"], id)
    BY <1>1, <1>4, <1>5, <1>6, <1>7, <1>8 DEF Asked
  <1>10. /\ Going(o2, R, n + Room, With(K1, RoleTable["page"], r))
         /\ Grown(o1.rows, o2.rows, DefaultOf("page", id, r))
         /\ ~o2.aborted => ~o1.aborted
         /\ ~o2.aborted /\ Met(o1.rows, s2.needs) => DefaultOf("page", id, r) \in o2.rows
    BY <1>6, <1>9, DefaultGoes
  <1>11. ~o2.aborted => There(o2.rows, "pages", id)
    BY <1>8, <1>10, GrownKeeps
  <1> QED BY <1>4, <1>6, <1>10, <1>11, NothingAsked DEF K1

\* CreatePage keeps the invariant.
LEMMA CreatePageKeeps ==
  ASSUME RecordsInd, NEW u \in Accounts, CreatePage(u)
  PROVE  RecordsInd'
  <1>0. PICK hard \in BOOLEAN : hard
    OBVIOUS
  <1> DEFINE n == Room * batches
             s == Put("pages", Id(1), [owner_id |-> u])
             t == DefaultRole("page", Id(1), Id(2), {})
             s1 == Hard(hard, s)
             s2 == Hard(hard, t)
             o0 == Holding(stored)
             o1 == Perform(o0, s1)
             o2 == Perform(o1, s2)
             batch == Checked(<<s, t>>)
             K == With(With({}, "pages", Id(1)), "page_roles", Id(2))
  <1>1. Execute(batch) /\ batch = Form(hard, <<s, t>>)
    BY <1>0 DEF CreatePage, Form
  <1>2. Begun(stored, n) /\ There(stored, "users", u) /\ Own(n, Id(1)) /\ Own(n, Id(2))
    BY IndBegun, IdIs, AccountThere
  <1>3. s1.do = "insert" /\ s1.row = Entry("pages", Id(1), [owner_id |-> u], {"live"}) /\ s1.needs = {}
    BY PutSays DEF Says
  <1>4. s2.do = "ignore" /\ s2.row = DefaultOf("page", Id(1), Id(2)) /\ s2.needs = {}
    BY DefaultSays DEF Says
  <1>5. Continue(o0, batch) = o2 /\ o0 = Holding(stored) /\ o1 = Perform(o0, s1) /\ o2 = Perform(o1, s2)
    BY <1>1, FormTwo
  <1> HIDE DEF s, t, s1, s2, o0, o1, o2, batch, n
  <1>6. Going(o2, stored, n + Room, K)
    BY <1>2, <1>3, <1>4, <1>5, PageGoes
  <1>7. \A f \in Founding : \A id : Unused(K, f, id)
    BY UnusedWith DEF Founding
  <1> HIDE DEF K
  <1>8. Safe(stored, batch, n + Room)
    <2>1. Fit(stored, n + Room) /\ Complete(stored)
      BY <1>2, Begins
    <2> QED BY <1>5, <1>6, <1>7, <2>1, SafeSmall
  <1> QED BY <1>1, <1>8, SafeKeeps DEF n

\* INSERT of a row of its own.
LEMMA PutOwn ==
  ASSUME NEW R, NEW n, Begun(R, n), NEW K, NEW o, Going(o, R, n + Room, K), NEW s, s.do = "insert",
         NEW t, t # "page_columns_values", NEW id, Own(n, id), s.row.table = t, s.row.id = id, Unused(K, t, id),
         Asked(o, s) => Sound(o.rows, s.row, n + Room), NEW P, P = Perform(o, s)
  PROVE  /\ Going(P, R, n + Room, With(K, t, id))
         /\ Grown(o.rows, P.rows, s.row)
         /\ ~P.aborted => ~o.aborted
         /\ ~P.aborted /\ Met(o.rows, s.needs) => s.row \in P.rows
         /\ ~P.aborted /\ s.checked => Met(o.rows, s.needs)
  <1> DEFINE m == n + Room
  <1>1. m \in Int /\ ~There(R, t, id) /\ Put1(s) /\ Going(o, R, m, K) /\ (Asked(o, s) => Sound(o.rows, s.row, m))
    BY Begins, OwnNumber DEF Put1
  <1>2. m = n + Room
    OBVIOUS
  <1> HIDE DEF m
  <1>3. Going(P, R, m, With(K, t, id))
    BY <1>1, PutNew
  <1>4. /\ Grown(o.rows, P.rows, s.row) /\ (~P.aborted => ~o.aborted)
        /\ ~P.aborted /\ Met(o.rows, s.needs) => s.row \in P.rows
        /\ ~P.aborted /\ s.checked => Met(o.rows, s.needs)
    BY <1>1, PutNew
  <1> QED BY <1>2, <1>3, <1>4

\* The parts of a row of a database.
EdgeOf(p, id) == Entry("page_edges", id, [parent_id |-> p, child_id |-> id], {"live"})
Placing(p, u, id, needs) ==
    <<If(needs, Put("pages", id, [owner_id |-> u])), DefaultRole("page", id, id, {}),
      If({Alive("pages", p)}, Put("page_edges", id, [parent_id |-> p, child_id |-> id]))>>
Ranking(id, v) ==
    If({Has("page_edges", id)}, OrUpdate(Put("page_view_row_order", id + 1, [edge_id |-> id, view_id |-> v])))

\* A row of a database by its parts.
LEMMA ChildPageIs ==
  ASSUME NEW p, NEW u, NEW id, NEW needs
  PROVE  /\ ChildPage(p, u, id, needs, <<>>) = Placing(p, u, id, needs) \o <<>>
         /\ \A v : ChildPage(p, u, id, needs, <<v>>) = Placing(p, u, id, needs) \o <<Ranking(id, v)>>
  <1> DEFINE tail(ranks) == [i \in 1..Len(ranks) |-> If({Has("page_edges", id)},
            OrUpdate(Put("page_view_row_order", id + i, [edge_id |-> id, view_id |-> ranks[i]])))]
  <1>1. \A ranks : ChildPage(p, u, id, needs, ranks) = Placing(p, u, id, needs) \o tail(ranks)
    BY DEF ChildPage, Placing
  <1>2. tail(<<>>) = <<>>
    OBVIOUS
  <1>3. ASSUME NEW v
        PROVE  tail(<<v>>) = <<Ranking(id, v)>>
    <2> DEFINE one == <<v>>
               f == Ranking(id, v)
    <2>1. Len(one) = 1 /\ one[1] = v
      OBVIOUS
    <2>2. tail(one) = [i \in 1..Len(one) |-> f]
      <3>1. \A i \in 1..Len(one) : i = 1
        BY <2>1
      <3>2. If({Has("page_edges", id)},
               OrUpdate(Put("page_view_row_order", id + 1, [edge_id |-> id, view_id |-> one[1]]))) = f
        BY <2>1 DEF Ranking
      <3> HIDE DEF one, f
      <3> QED BY <3>1, <3>2
    <2>3. [i \in 1..Len(one) |-> f] = <<f>>
      <3> HIDE DEF f
      <3> QED OBVIOUS
    <2> QED BY <2>2, <2>3
  <1> HIDE DEF tail
  <1> QED BY <1>1, <1>2, <1>3

\* The edge, while the parent is there.
LEMMA EdgeGoes ==
  ASSUME NEW R, NEW n, Begun(R, n), NEW p \in Int, NEW id, Own(n, id), p < id,
         NEW K, NEW o, Going(o, R, n + Room, K), Unused(K, "page_edges", id),
         ~o.aborted => There(o.rows, "pages", id) /\ DefaultOf("page", id, id) \in o.rows,
         NEW s, Says(s, "insert", EdgeOf(p, id), {Alive("pages", p)}),
         NEW P, P = Perform(o, s)
  PROVE  /\ Going(P, R, n + Room, With(K, "page_edges", id))
         /\ ~P.aborted => There(P.rows, "pages", id)
         /\ ~P.aborted /\ s.checked => EdgeOf(p, id) \in P.rows
  <1> DEFINE m == n + Room
             edge == EdgeOf(p, id)
  <1>1. m \in Int /\ Number(id, m) /\ ~There(R, "page_edges", id) /\ id \in Int /\ m = n + Room
    BY Begins, OwnNumber DEF Own
  <1>2. edge.table = "page_edges" /\ edge.id = id /\ s.row = edge /\ s.do = "insert"
    BY EntryIs DEF EdgeOf, Says
  <1>3. Asked(o, s) => Sound(o.rows, edge, m)
    <2> SUFFICES ASSUME Asked(o, s)
                 PROVE  Sound(o.rows, edge, m)
      OBVIOUS
    <2>1. There(o.rows, "pages", p) /\ There(o.rows, "pages", id) /\ DefaultOf("page", id, id) \in o.rows
      BY AliveThere DEF Asked, Says
    <2>2. DefaultOf("page", id, id).table = "page_roles" /\ DefaultOf("page", id, id).val.page_id = id
      <3>1. RoleTable["page"] = "page_roles" /\ ScopeColumn["page"] = "page_id" /\ "page" \in ScopeKinds
        BY Kinds DEF ScopeKinds
      <3>2. DefaultOf("page", id, id).table = RoleTable["page"]
            /\ DefaultOf("page", id, id).val[ScopeColumn["page"]] = id
        BY <3>1, DefaultOfIs
      <3> QED BY <3>1, <3>2
    <2>3. \E q \in o.rows : q.table = "page_roles" /\ q.val.page_id = id
      BY <2>1, <2>2
    <2> QED BY <1>1, <2>1, <2>3, EdgeSound DEF EdgeOf
  <1> HIDE DEF m, edge
  <1>4. /\ s.do = "insert" /\ s.row.table = "page_edges" /\ s.row.id = id /\ (Asked(o, s) => Sound(o.rows, s.row, n + Room))
    BY <1>1, <1>2, <1>3
  <1>5. /\ Going(P, R, n + Room, With(K, "page_edges", id))
        /\ Grown(o.rows, P.rows, s.row)
        /\ ~P.aborted => ~o.aborted
        /\ ~P.aborted /\ Met(o.rows, s.needs) => s.row \in P.rows
        /\ ~P.aborted /\ s.checked => Met(o.rows, s.needs)
    BY <1>4, PutOwn
  <1>6. ~P.aborted => There(P.rows, "pages", id)
    BY <1>5, GrownKeeps
  <1> QED BY <1>1, <1>2, <1>5, <1>6 DEF edge

\* Its rank.
LEMMA RankGoes ==
  ASSUME NEW R, NEW n, Begun(R, n), NEW id, Own(n, id), Own(n, id + 1),
         NEW K, NEW o, Going(o, R, n + Room, K), Unused(K, "page_view_row_order", id + 1),
         NEW v, NEW s, s.do = "update", s.needs = {Has("page_edges", id)},
         s.row = Entry("page_view_row_order", id + 1, [edge_id |-> id, view_id |-> v], {"live"}),
         NEW P, P = Perform(o, s)
  PROVE  /\ Going(P, R, n + Room, With(K, "page_view_row_order", id + 1))
         /\ Kept(o.rows, P.rows) /\ (~P.aborted => ~o.aborted)
  <1> DEFINE m == n + Room
             j == id + 1
             row == Entry("page_view_row_order", j, [edge_id |-> id, view_id |-> v], {"live"})
  <1>1. m \in Int /\ Number(j, m) /\ ~There(R, "page_view_row_order", j) /\ m = n + Room
    BY Begins, OwnNumber
  <1>2. row.table = "page_view_row_order" /\ row.id = j /\ s.row = row
    BY EntryIs
  <1>3. ~There(o.rows, "page_view_row_order", j)
    BY <1>1, NewHere DEF Unused
  <1>4. Asked(o, s) => There(o.rows, "page_edges", id)
    BY HasThere DEF Asked
  <1>5. Asked(o, s) => Sound(o.rows, row, m)
    BY <1>1, <1>4, RankSound
  <1>6. Asked(o, s) => \A old \in Clashing(o.rows, row) : Sound(o.rows, Merged(old, s), m) /\ Heir(old, Merged(old, s))
    <2> SUFFICES ASSUME Asked(o, s), NEW old \in Clashing(o.rows, row)
                 PROVE  Sound(o.rows, Merged(old, s), m) /\ Heir(old, Merged(old, s))
      OBVIOUS
    <2>1. old \in o.rows /\ old.table = row.table
      BY DEF Clashing
    <2>2. Sound(o.rows, old, m)
      BY <1>1, <2>1 DEF Going, Fit
    <2> QED BY <1>2, <1>4, <2>1, <2>2, RankMerged
  <1>7. Fresh(o.rows, row)
    BY <1>2, <1>3 DEF Fresh
  <1> HIDE DEF m, j, row
  <1>8. /\ Going(o, R, m, K)
        /\ Asked(o, s) /\ Unclashed(o, s) => Sound(o.rows, s.row, m) /\ Fresh(o.rows, s.row)
        /\ Asked(o, s) => \A old \in Clashing(o.rows, s.row) :
                             Sound(o.rows, Merged(old, s), m) /\ Heir(old, Merged(old, s))
    BY <1>1, <1>2, <1>5, <1>6, <1>7
  <1>9. /\ Going(P, R, m, K \cup {<<s.row.table, s.row.id>>}) /\ Kept(o.rows, P.rows) /\ (o.aborted => P = o)
    BY <1>1, <1>8, UpdateGoes
  <1> QED BY <1>1, <1>2, <1>9 DEF With, j

\* The keys of a row of a database.
Child(id) == With(With(With(With({}, "pages", id), "page_roles", id), "page_edges", id), "page_view_row_order", id + 1)

\* Its page, its role and its edge.
LEMMA PlacingGoes ==
  ASSUME NEW R, NEW n, Begun(R, n), NEW p \in Int, NEW u, There(R, "users", u), NEW id, Own(n, id), p < id,
         NEW needs, NEW hard \in BOOLEAN, needs = {} \/ hard,
         NEW P, P = Continue(Holding(R), Form(hard, Placing(p, u, id, needs)))
  PROVE  /\ Going(P, R, n + Room, With(With(With({}, "pages", id), "page_roles", id), "page_edges", id))
         /\ ~P.aborted => There(P.rows, "pages", id)
         /\ ~P.aborted /\ hard => EdgeOf(p, id) \in P.rows
         /\ Batch(Placing(p, u, id, needs))
  <1> DEFINE s == If(needs, Put("pages", id, [owner_id |-> u]))
             t == DefaultRole("page", id, id, {})
             w == If({Alive("pages", p)}, Put("page_edges", id, [parent_id |-> p, child_id |-> id]))
             s1 == Hard(hard, s)
             s2 == Hard(hard, t)
             s3 == Hard(hard, w)
             o0 == Holding(R)
             o1 == Perform(o0, s1)
             o2 == Perform(o1, s2)
             o3 == Perform(o2, s3)
             K2 == With(With({}, "pages", id), "page_roles", id)
             page == Entry("pages", id, [owner_id |-> u], {"live"})
             alive == {Alive("pages", p)}
  <1>1. Says(s1, "insert", page, needs) /\ s1.checked = hard
    BY PutIfSays
  <1>2. Says(s2, "ignore", DefaultOf("page", id, id), {})
    BY DefaultSays
  <1>3. Says(s3, "insert", EdgeOf(p, id), alive) /\ s3.checked = hard
    BY PutIfSays DEF EdgeOf
  <1>4. Continue(o0, Form(hard, <<s, t, w>>)) = o3 /\ Batch(<<s, t, w>>)
    BY FormThree
  <1>5. Placing(p, u, id, needs) = <<s, t, w>>
    BY DEF Placing
  <1>6. P = o3 /\ Batch(Placing(p, u, id, needs))
    BY <1>4, <1>5
  <1>7. o0 = Holding(R) /\ o1 = Perform(o0, s1) /\ o2 = Perform(o1, s2) /\ o3 = Perform(o2, s3)
    OBVIOUS
  <1> HIDE DEF s, t, w, s1, s2, s3, o0, o1, o2, o3
  <1>8. /\ Going(o2, R, n + Room, K2)
        /\ ~o2.aborted => There(o2.rows, "pages", id) /\ DefaultOf("page", id, id) \in o2.rows
    <2>1. s1.do = "insert" /\ s1.row = page /\ s1.needs = needs
      BY <1>1 DEF Says
    <2>2. s2.do = "ignore" /\ s2.row = DefaultOf("page", id, id) /\ s2.needs = {}
      BY <1>2 DEF Says
    <2>3. s1.needs = {} \/ s1.checked
      BY <1>1, <2>1
    <2> QED BY <1>7, <2>1, <2>2, <2>3, PageGoes
  <1>9. Unused(K2, "page_edges", id) /\ K2 = With(With({}, "pages", id), "page_roles", id)
    BY UnusedWith
  <1> HIDE DEF K2, page
  <1>10. /\ Going(o3, R, n + Room, With(K2, "page_edges", id))
         /\ ~o3.aborted => There(o3.rows, "pages", id)
         /\ ~o3.aborted /\ s3.checked => EdgeOf(p, id) \in o3.rows
    <2>1. Says(s3, "insert", EdgeOf(p, id), {Alive("pages", p)})
      BY <1>3
    <2> QED BY <1>7, <1>8, <1>9, <2>1, EdgeGoes
  <1> QED BY <1>3, <1>6, <1>9, <1>10

\* With its rank.
LEMMA ChildGoes ==
  ASSUME NEW R, NEW n, Begun(R, n), NEW p \in Int, NEW u, There(R, "users", u), NEW id, Own(n, id), p < id,
         Own(n, id + 1), NEW needs, NEW hard \in BOOLEAN, needs = {} \/ hard,
         NEW ranks, ranks = <<>> \/ \E v : ranks = <<v>>,
         NEW P, P = Continue(Holding(R), Form(hard, ChildPage(p, u, id, needs, ranks)))
  PROVE  /\ Going(P, R, n + Room, Child(id))
         /\ ~P.aborted => There(P.rows, "pages", id)
         /\ ~P.aborted /\ hard => EdgeOf(p, id) \in P.rows
         /\ Batch(ChildPage(p, u, id, needs, ranks))
  <1> DEFINE a == Placing(p, u, id, needs)
             oA == Continue(Holding(R), Form(hard, a))
             K == With(With(With({}, "pages", id), "page_roles", id), "page_edges", id)
             j == id + 1
  <1>1. /\ Going(oA, R, n + Room, K)
        /\ ~oA.aborted => There(oA.rows, "pages", id)
        /\ ~oA.aborted /\ hard => EdgeOf(p, id) \in oA.rows
        /\ Batch(a)
    BY PlacingGoes
  <1>2. Child(id) = With(K, "page_view_row_order", j) /\ Unused(K, "page_view_row_order", j)
    BY UnusedWith DEF Child
  <1>3. CASE ranks = <<>>
    <2> DEFINE none == <<>>
    <2>1. ChildPage(p, u, id, needs, ranks) = a \o none /\ Batch(none)
      BY <1>3, ChildPageIs, BatchIs
    <2>2. Continue(oA, Form(hard, none)) = oA
      BY FormNone
    <2> HIDE DEF none, a
    <2>3. Continue(Holding(R), Form(hard, a \o none)) = Continue(oA, Form(hard, none)) /\ Batch(a \o none)
      BY <1>1, <2>1, FormBoth DEF oA
    <2>4. P = oA /\ Batch(ChildPage(p, u, id, needs, ranks))
      BY <2>1, <2>2, <2>3
    <2> HIDE DEF K, oA
    <2> QED BY <1>1, <1>2, <2>4, GoingWith
  <1>4. CASE \E v : ranks = <<v>>
    <2>1. PICK v : ranks = <<v>>
      BY <1>4
    <2> DEFINE one == <<Ranking(id, v)>>
               s == Ranking(id, v)
               s4 == Hard(hard, s)
               has == {Has("page_edges", id)}
               row == Entry("page_view_row_order", j, [edge_id |-> id, view_id |-> v], {"live"})
               oB == Perform(oA, s4)
    <2>2. ChildPage(p, u, id, needs, ranks) = a \o one /\ Batch(one)
      BY <2>1, ChildPageIs, BatchIs
    <2>3. Continue(oA, Form(hard, one)) = oB
      BY FormOne
    <2>4. Says(s4, "update", row, has)
      BY UpdateIfSays DEF Ranking
    <2> HIDE DEF one, a, s, s4, has
    <2>5. Continue(Holding(R), Form(hard, a \o one)) = Continue(oA, Form(hard, one)) /\ Batch(a \o one)
      BY <1>1, <2>2, FormBoth DEF oA
    <2>6. P = oB /\ Batch(ChildPage(p, u, id, needs, ranks)) /\ oB = Perform(oA, s4)
      BY <2>2, <2>3, <2>5
    <2> HIDE DEF oA, K, oB
    <2>7. /\ Going(oB, R, n + Room, With(K, "page_view_row_order", id + 1))
          /\ Kept(oA.rows, oB.rows) /\ (~oB.aborted => ~oA.aborted)
      <3>1. s4.do = "update" /\ s4.needs = {Has("page_edges", id)}
            /\ s4.row = Entry("page_view_row_order", id + 1, [edge_id |-> id, view_id |-> v], {"live"})
        BY <2>4 DEF Says, has
      <3> QED BY <1>1, <1>2, <2>6, <3>1, RankGoes
    <2>8. ~oB.aborted => There(oB.rows, "pages", id)
      BY <1>1, <2>7, KeptThere
    <2>9. ~oB.aborted /\ hard => EdgeOf(p, id) \in oB.rows
      <3>1. EdgeOf(p, id).table \in Static
        BY EntryIs DEF EdgeOf, Static
      <3> QED BY <1>1, <2>7, <3>1, KeptLater, LaterStatic
    <2> QED BY <1>2, <2>6, <2>7, <2>8, <2>9
  <1> QED BY <1>3, <1>4

\* None of these keys founds anything.
LEMMA ChildSmall ==
  ASSUME NEW id
  PROVE  \A t \in Founding : \A j : Unused(Child(id), t, j)
  BY UnusedWith DEF Founding, Child

\* A page that is there has a smaller id than the next transaction takes.
LEMMA PageNumber ==
  ASSUME RecordsInd, NEW t, t # "page_columns_values", NEW p \in IdsOf(t)
  PROVE  Number(p, Room * batches) /\ p \in Int /\ \A k \in 1..9 : p < Id(k)
  <1>1. PICK r \in RowsOf(t) : r.id = p
    BY DEF IdsOf
  <1>2. Sound(stored, r, Room * batches) /\ r.table = t
    BY <1>1, RowSound
  <1>3. Number(p, Room * batches)
    BY <1>1, <1>2 DEF Sound, Numbered
  <1>4. \A k \in 1..9 : Id(k) \in Int /\ Room * batches <= Id(k)
    BY IndBegun
  <1>5. Room * batches \in Int
    BY DEF RecordsInd, Room
  <1> QED BY <1>3, <1>4, <1>5 DEF Number

\* CreateChild keeps the invariant.
LEMMA CreateChildKeeps ==
  ASSUME RecordsInd, NEW p \in IdsOf("pages"), NEW u \in Accounts,
         NEW ranks \in {<<>>} \cup {<<view>> : view \in Views}, CreateChild(p, u, ranks)
  PROVE  RecordsInd'
  <1>0. PICK hard \in BOOLEAN : hard
    OBVIOUS
  <1> DEFINE n == Room * batches
             none == {}
             id == Id(1)
             b == ChildPage(p, u, id, none, ranks)
             batch == Checked(b)
             P == Continue(Holding(stored), batch)
  <1>1. Execute(batch) /\ batch = Form(hard, b)
    BY <1>0 DEF CreateChild, Form
  <1>2. Id(1) = n + 1 /\ Id(2) = n + 2 /\ Own(n, Id(1)) /\ Own(n, Id(2))
    BY IdIs
  <1>3. Begun(stored, n) /\ There(stored, "users", u) /\ Own(n, id) /\ Own(n, id + 1) /\ p \in Int /\ p < id
    <2>1. n \in Int
      BY DEF RecordsInd, Room
    <2> HIDE DEF n
    <2>2. Id(2) = Id(1) + 1
      BY <1>2, <2>1
    <2> QED BY <1>2, <2>2, IndBegun, AccountThere, PageNumber DEF n
  <1>4. ranks = <<>> \/ \E v : ranks = <<v>>
    OBVIOUS
  <1>5. P = Continue(Holding(stored), Form(hard, b)) /\ none = {}
    BY <1>1
  <1>6. b = ChildPage(p, u, id, none, ranks)
    OBVIOUS
  <1> HIDE DEF n, id, b, batch, P, none
  <1>7. Going(P, stored, n + Room, Child(id))
    <2>1. P = Continue(Holding(stored), Form(hard, ChildPage(p, u, id, none, ranks))) /\ (none = {} \/ hard)
      BY <1>5, <1>6
    <2> QED BY <1>3, <1>4, <2>1, ChildGoes
  <1>8. Safe(stored, batch, n + Room)
    <2>1. Fit(stored, n + Room) /\ Complete(stored)
      BY <1>3, Begins
    <2> QED BY <1>7, <2>1, ChildSmall, SafeSmall DEF P
  <1> QED BY <1>1, <1>8, SafeKeeps DEF n

-----------------------------------------------------------------------------
(* Notices.                                                                 *)

\* The fields of statements whose writes are not checked.
LEMMA PutSaysPlain ==
  ASSUME NEW t, NEW id, NEW val, NEW needs
  PROVE  /\ Says(Put(t, id, val), "insert", Entry(t, id, val, {"live"}), {})
         /\ Says(OrIgnore(Put(t, id, val)), "ignore", Entry(t, id, val, {"live"}), {})
         /\ Says(If(needs, Put(t, id, val)), "insert", Entry(t, id, val, {"live"}), needs)
         /\ Says(If(needs, OrIgnore(Put(t, id, val))), "ignore", Entry(t, id, val, {"live"}), needs)
         /\ Says(If(needs, As({"pending"}, OrIgnore(Put(t, id, val)))), "ignore",
                 Entry(t, id, val, {"live", "pending"}), needs)
  <1>1. Says(Put(t, id, val), "insert", Entry(t, id, val, {"live"}), {})
    BY DEF Says, Put, Statement
  <1>2. Says(OrIgnore(Put(t, id, val)), "ignore", Entry(t, id, val, {"live"}), {})
    BY DEF Says, OrIgnore, Put, Statement
  <1>3. Says(If(needs, Put(t, id, val)), "insert", Entry(t, id, val, {"live"}), needs)
    BY DEF Says, If, Put, Statement
  <1>4. Says(If(needs, OrIgnore(Put(t, id, val))), "ignore", Entry(t, id, val, {"live"}), needs)
    BY DEF Says, If, OrIgnore, Put, Statement
  <1>5. Says(If(needs, As({"pending"}, OrIgnore(Put(t, id, val)))), "ignore",
             Entry(t, id, val, {"live", "pending"}), needs)
    BY DEF Says, If, As, OrIgnore, Put, Statement, Entry
  <1> QED BY <1>1, <1>2, <1>3, <1>4, <1>5

\* A statement of a row of its own, ignored where a unique index has another.
LEMMA AddOwn ==
  ASSUME NEW R, NEW n, Begun(R, n), NEW K, NEW o, Going(o, R, n + Room, K),
         NEW t, t # "page_columns_values", NEW id, Own(n, id), Unused(K, t, id),
         NEW s, NEW do, do \in {"insert", "ignore"}, NEW row, row.table = t, row.id = id,
         NEW needs, Says(s, do, row, needs),
         ~o.aborted /\ Met(o.rows, needs) => Sound(o.rows, row, n + Room), NEW P, P = Perform(o, s)
  PROVE  /\ Going(P, R, n + Room, With(K, t, id))
         /\ Grown(o.rows, P.rows, row) /\ (~P.aborted => ~o.aborted)
         /\ ~P.aborted /\ Met(o.rows, needs) /\ (do = "insert" \/ Unclashed(o, s)) => row \in P.rows
  <1> DEFINE m == n + Room
  <1>1. m \in Int /\ ~There(R, t, id) /\ Going(o, R, m, K) /\ m = n + Room
    BY Begins, OwnNumber
  <1>2. s.do = do /\ s.row = row /\ s.needs = needs /\ Put1(s)
    BY DEF Says, Put1
  <1> HIDE DEF m
  <1>3. (Asked(o, s) => Sound(o.rows, s.row, m)) /\ s.row.table = t /\ s.row.id = id
    BY <1>1, <1>2 DEF Asked
  <1>4. Going(P, R, m, With(K, t, id))
    BY <1>1, <1>2, <1>3, PutNew
  <1>5. /\ Grown(o.rows, P.rows, s.row) /\ (~P.aborted => ~o.aborted)
        /\ ~P.aborted /\ Met(o.rows, s.needs) /\ (s.do = "insert" \/ Unclashed(o, s)) => s.row \in P.rows
    BY <1>1, <1>2, <1>3, PutNew
  <1> QED BY <1>1, <1>2, <1>4, <1>5

\* Enqueue keeps the invariant.
LEMMA EnqueueKeeps ==
  ASSUME RecordsInd, NEW w \in IdsOf("workspaces"), NEW u \in Accounts, NEW key, Enqueue(w, u, key)
  PROVE  RecordsInd'
  <1> DEFINE n == Room * batches
             id == Id(1)
             known == {r \in RowsOf("notifications") : r.val.dedupe_key = -key}
             notice == IF known = {} THEN id ELSE (CHOOSE r \in known : TRUE).id
             row1 == Entry("notifications", id, [workspace_id |-> w, recipient_user_id |-> u,
                            actor_user_id |-> Null, dedupe_key |-> -key], {"live"})
             row2 == Entry("notification_deliveries", id, [notification_id |-> notice, channel |-> 1], {"live"})
             has == {Has("notifications", notice)}
             none == {}
             s == OrIgnore(Notice(w, u, Null, -key, id))
             t == If(has, OrIgnore(Delivery(notice, id)))
             o0 == Holding(stored)
             o1 == Perform(o0, s)
             o2 == Perform(o1, t)
             batch == <<s, t>>
             K1 == With({}, "notifications", id)
             K2 == With(K1, "notification_deliveries", id)
  <1>1. Execute(batch)
    BY DEF Enqueue
  <1>2. Says(s, "ignore", row1, none)
    BY PutSaysPlain DEF Notice
  <1>3. Says(t, "ignore", row2, has)
    BY PutSaysPlain DEF Delivery
  <1>4. Continue(o0, batch) = o2 /\ o0 = Holding(stored) /\ o1 = Perform(o0, s) /\ o2 = Perform(o1, t)
    BY ContinueTwo
  <1>5. Begun(stored, n) /\ There(stored, "workspaces", w) /\ There(stored, "users", u) /\ Own(n, id)
    BY IndBegun, IdIs, IdThere, AccountThere
  <1>6. Number(id, n + Room) /\ Going(o0, stored, n + Room, {}) /\ o0.rows = stored
        /\ Fit(stored, n + Room) /\ Complete(stored)
    BY <1>5, Begins, OwnNumber
  <1>7. row1.table = "notifications" /\ row1.id = id /\ row2.table = "notification_deliveries" /\ row2.id = id
    BY EntryIs
  <1>8. Sound(stored, row1, n + Room)
    BY <1>5, <1>6, NoticeSound
  <1>9. \A S : Met(S, has) => Sound(S, row2, n + Room)
    <2> SUFFICES ASSUME NEW S, Met(S, has)
                 PROVE  Sound(S, row2, n + Room)
      OBVIOUS
    <2>1. There(S, "notifications", notice)
      BY HasThere
    <2> HIDE DEF notice, id, n
    <2> QED BY <1>6, <2>1, DeliverySound
  <1>10. Unused({}, "notifications", id) /\ Unused(K1, "notification_deliveries", id)
         /\ \A f \in Founding : \A j : Unused(K2, f, j)
    BY UnusedWith DEF Founding
  <1>11. K1 = With({}, "notifications", id) /\ K2 = With(K1, "notification_deliveries", id)
    OBVIOUS
  <1> HIDE DEF n, id, known, notice, row1, row2, has, none, s, t, o0, o1, o2, batch, K1, K2
  <1>12. Going(o1, stored, n + Room, K1)
    <2>1. ~o0.aborted /\ Met(o0.rows, none) => Sound(o0.rows, row1, n + Room)
      BY <1>6, <1>8
    <2> QED BY <1>2, <1>4, <1>5, <1>6, <1>7, <1>10, <1>11, <2>1, AddOwn
  <1>13. Going(o2, stored, n + Room, K2)
    <2>1. ~o1.aborted /\ Met(o1.rows, has) => Sound(o1.rows, row2, n + Room)
      BY <1>9
    <2> QED BY <1>3, <1>4, <1>5, <1>7, <1>10, <1>11, <1>12, <2>1, AddOwn
  <1>14. Safe(stored, batch, n + Room)
    <2>1. Going(Continue(Holding(stored), batch), stored, n + Room, K2)
      BY <1>4, <1>13
    <2> QED BY <1>6, <1>10, <2>1, SafeSmall
  <1> QED BY <1>1, <1>14, SafeKeeps DEF n

\* A request for a pin, with its notice and the delivery of that.
LEMMA PinRequested ==
  ASSUME NEW R, NEW n, Begun(R, n), NEW id, Own(n, id),
         NEW row1, row1.table = "schedule_pin_requests", row1.id = id, NEW asks,
         Sound(R, row1, n + Room),
         NEW row2, row2.table = "notifications", row2.id = id, row2.val.dedupe_key = id,
         \A S : Later(R, S) => Sound(S, row2, n + Room),
         NEW row3, row3.table = "notification_deliveries", row3.id = id, row3.val.notification_id = id,
         \A S : There(S, "notifications", id) => Sound(S, row3, n + Room),
         NEW s1, Says(s1, "ignore", row1, asks),
         NEW s2, Says(s2, "insert", row2, {Has("schedule_pin_requests", id)}),
         NEW s3, Says(s3, "insert", row3, {Has("notifications", id)})
  PROVE  Safe(R, <<s1, s2, s3>>, n + Room)
  <1> DEFINE o0 == Holding(R)
             o1 == Perform(o0, s1)
             o2 == Perform(o1, s2)
             o3 == Perform(o2, s3)
             K1 == With({}, "schedule_pin_requests", id)
             K2 == With(K1, "notifications", id)
             K3 == With(K2, "notification_deliveries", id)
             batch == <<s1, s2, s3>>
             has2 == {Has("schedule_pin_requests", id)}
             has3 == {Has("notifications", id)}
  <1>1. /\ Continue(o0, batch) = o3 /\ o0 = Holding(R) /\ o1 = Perform(o0, s1) /\ o2 = Perform(o1, s2)
        /\ o3 = Perform(o2, s3)
    BY ContinueThree
  <1>2. Going(o0, R, n + Room, {}) /\ o0.rows = R /\ Fit(R, n + Room) /\ Complete(R)
        /\ ~There(R, "schedule_pin_requests", id)
    BY Begins, OwnNumber
  <1>3. /\ K1 = With({}, "schedule_pin_requests", id) /\ K2 = With(K1, "notifications", id)
        /\ K3 = With(K2, "notification_deliveries", id)
        /\ Says(s2, "insert", row2, has2) /\ Says(s3, "insert", row3, has3)
        /\ \A S : Met(S, has2) <=> There(S, "schedule_pin_requests", id)
        /\ \A S : Met(S, has3) <=> There(S, "notifications", id)
    BY HasThere
  <1>4. /\ Unused({}, "schedule_pin_requests", id) /\ Unused(K1, "notifications", id)
        /\ Unused(K2, "notification_deliveries", id)
        /\ \A j : Unused(K3, "organizations", j) /\ Unused(K3, "workspaces", j)
        /\ \A j : ~Unused(K3, "schedule_pin_requests", j) => j = id
    BY UnusedWith
  <1> HIDE DEF o0, o1, o2, o3, K1, K2, K3, batch, has2, has3
  <1>5. /\ Going(o1, R, n + Room, K1) /\ Grown(o0.rows, o1.rows, row1)
    <2>1. ~o0.aborted /\ Met(o0.rows, asks) => Sound(o0.rows, row1, n + Room)
      BY <1>2
    <2> DEFINE none == {}
    <2>2. Going(o0, R, n + Room, none) /\ Unused(none, "schedule_pin_requests", id)
          /\ K1 = With(none, "schedule_pin_requests", id) /\ o1 = Perform(o0, s1)
      BY <1>1, <1>2, <1>3, <1>4
    <2> HIDE DEF none
    <2>3. "ignore" \in {"insert", "ignore"} /\ "schedule_pin_requests" # "page_columns_values"
      OBVIOUS
    <2>4. /\ Going(o1, R, n + Room, With(none, "schedule_pin_requests", id)) /\ Grown(o0.rows, o1.rows, row1)
      BY <2>1, <2>2, <2>3, AddOwn
    <2> QED BY <2>2, <2>4
  <1>6. /\ Going(o2, R, n + Room, K2) /\ Grown(o1.rows, o2.rows, row2)
        /\ ~o2.aborted /\ Met(o1.rows, has2) => row2 \in o2.rows
    <2>1. Later(R, o1.rows)
      BY <1>2, <1>5, GrownLater
    <2>2. ~o1.aborted /\ Met(o1.rows, has2) => Sound(o1.rows, row2, n + Room)
      BY <2>1
    <2> QED BY <1>1, <1>3, <1>4, <1>5, <2>2, AddOwn
  <1>7. /\ Going(o3, R, n + Room, K3) /\ Grown(o2.rows, o3.rows, row3) /\ (~o3.aborted => ~o2.aborted)
        /\ ~o3.aborted /\ Met(o2.rows, has3) => row3 \in o3.rows
    <2>1. ~o2.aborted /\ Met(o2.rows, has3) => Sound(o2.rows, row3, n + Room)
      BY <1>3
    <2> QED BY <1>1, <1>3, <1>4, <1>6, <2>1, AddOwn
  <1>8. ~o3.aborted => Complete(o3.rows)
    <2> SUFFICES ASSUME ~o3.aborted
                 PROVE  Complete(o3.rows)
      OBVIOUS
    <2>1. There(o3.rows, "schedule_pin_requests", id) => Noticed(o3.rows, id)
      <3> SUFFICES ASSUME There(o3.rows, "schedule_pin_requests", id)
                   PROVE  Noticed(o3.rows, id)
        OBVIOUS
      <3>1. There(o1.rows, "schedule_pin_requests", id)
        BY <1>6, <1>7, GrownThere
      <3>2. row2 \in o2.rows
        BY <1>3, <1>6, <1>7, <3>1
      <3>3. There(o2.rows, "notifications", id)
        BY <3>2 DEF There, Is
      <3>4. row3 \in o3.rows /\ row2 \in o3.rows
        BY <1>3, <1>7, <3>2, <3>3, GrownHas
      <3> QED BY <3>4 DEF Noticed
    <2>2. \A j : ~Unused(K3, "schedule_pin_requests", j) /\ There(o3.rows, "schedule_pin_requests", j)
                   => Noticed(o3.rows, j)
      BY <1>4, <2>1
    <2> QED BY <1>2, <1>4, <1>7, <2>2, CompleteWith
  <1> QED BY <1>1, <1>2, <1>7, <1>8, SafeEnd DEF batch

\* RequestPin keeps the invariant.
LEMMA RequestPinKeeps ==
  ASSUME RecordsInd, NEW w \in IdsOf("workspaces"), NEW u \in Accounts, NEW v \in Accounts,
         NEW e \in RowsOf("page_edges"), NEW c \in RowsOf("page_columns"), RequestPin(w, u, v, e, c)
  PROVE  RecordsInd'
  <1> DEFINE n == Room * batches
             id == Id(1)
             p == e.val.child_id
             d == c.id
             asks == {Alive("pages", p), Alive("page_columns", d)}
             row1 == Entry("schedule_pin_requests", id, [workspace_id |-> w, page_id |-> p,
                        requested_by_user_id |-> u, recipient_user_id |-> v, date_column_id |-> d],
                        {"live", "pending"})
             row2 == Entry("notifications", id, [workspace_id |-> w, recipient_user_id |-> v,
                            actor_user_id |-> u, dedupe_key |-> id], {"live"})
             row3 == Entry("notification_deliveries", id, [notification_id |-> id, channel |-> 1], {"live"})
             has2 == {Has("schedule_pin_requests", id)}
             has3 == {Has("notifications", id)}
             s1 == If(asks, As({"pending"}, OrIgnore(Put("schedule_pin_requests", id,
                        [workspace_id |-> w, page_id |-> p, requested_by_user_id |-> u,
                         recipient_user_id |-> v, date_column_id |-> d]))))
             s2 == If(has2, Notice(w, v, u, id, id))
             s3 == If(has3, Delivery(id, id))
             batch == <<s1, s2, s3>>
  <1>1. Execute(batch)
    BY DEF RequestPin
  <1>2. Says(s1, "ignore", row1, asks)
    BY PutSaysPlain
  <1>3. Says(s2, "insert", row2, has2)
    BY PutSaysPlain DEF Notice
  <1>4. Says(s3, "insert", row3, has3)
    BY PutSaysPlain DEF Delivery
  <1>5. /\ Begun(stored, n) /\ There(stored, "workspaces", w) /\ There(stored, "users", u)
        /\ There(stored, "users", v) /\ There(stored, "pages", p) /\ There(stored, "page_columns", d) /\ Own(n, id)
    BY IndBegun, IdIs, IdThere, AccountThere, EdgeEnds, RowSound
  <1>6. Number(id, n + Room)
    BY <1>5, OwnNumber
  <1>7. /\ row1.table = "schedule_pin_requests" /\ row1.id = id
        /\ row2.table = "notifications" /\ row2.id = id /\ row2.val.dedupe_key = id
        /\ row3.table = "notification_deliveries" /\ row3.id = id /\ row3.val.notification_id = id
    BY EntryIs
  <1> HIDE DEF n, id, p, d
  <1>8. Sound(stored, row1, n + Room)
    BY <1>5, <1>6, PinRequestSound
  <1>9. \A S : Later(stored, S) => Sound(S, row2, n + Room)
    <2> SUFFICES ASSUME NEW S, Later(stored, S)
                 PROVE  Sound(S, row2, n + Room)
      OBVIOUS
    <2>1. There(S, "workspaces", w) /\ There(S, "users", u) /\ There(S, "users", v)
      BY <1>5, LaterThere DEF Erasable
    <2> QED BY <1>6, <2>1, NoticeSound
  <1>10. \A S : There(S, "notifications", id) => Sound(S, row3, n + Room)
    BY <1>6, DeliverySound
  <1> HIDE DEF asks, row1, row2, row3, s1, s2, s3
  <1>11. Safe(stored, <<s1, s2, s3>>, n + Room)
    <2>1. Says(s2, "insert", row2, {Has("schedule_pin_requests", id)})
          /\ Says(s3, "insert", row3, {Has("notifications", id)})
      BY <1>3, <1>4
    <2> QED BY <1>2, <1>5, <1>7, <1>8, <1>9, <1>10, <2>1, PinRequested
  <1> QED BY <1>1, <1>11, SafeKeeps DEF n

-----------------------------------------------------------------------------
(* Cells.                                                                   *)

CellRow(p, d) == Entry("page_columns_values", CellId(p, [id |-> d]), [page_id |-> p, page_column_id |-> d], {"live"})

\* A column of the parent crosses the page.
Crosses(R, p, d) ==
    \E e, g \in R : /\ e.table = "page_edges" /\ e.val.child_id = p
                    /\ Is(g, "page_columns", d) /\ g.val.parent_id = e.val.parent_id

\* The fields of the statement of a cell.
LEMMA CellIs ==
  ASSUME NEW p, NEW c, NEW d, d = c.id
  PROVE  /\ CellId(p, c) = CellId(p, [id |-> d])
         /\ Says(Cell(p, c), "insert", CellRow(p, d), {})
         /\ Says(OrUpdate(Cell(p, c)), "update", CellRow(p, d), {})
  <1>1. CellId(p, c) = CellId(p, [id |-> d])
    BY DEF CellId
  <1>2. Cell(p, c) = Put("page_columns_values", CellId(p, [id |-> d]), [page_id |-> p, page_column_id |-> d])
    BY <1>1 DEF Cell
  <1>3. Says(Cell(p, c), "insert", CellRow(p, d), {})
    BY <1>2 DEF Says, CellRow, Put, Statement
  <1>4. Says(OrUpdate(Cell(p, c)), "update", CellRow(p, d), {})
    BY <1>2 DEF Says, CellRow, OrUpdate, Put, Statement
  <1> QED BY <1>1, <1>3, <1>4

\* The fields of a cell.
LEMMA CellRowIs ==
  ASSUME NEW p, NEW d
  PROVE  LET r == CellRow(p, d)
         IN /\ r.table = "page_columns_values" /\ r.id = CellId(p, [id |-> d]) /\ r.flags = {"live"}
            /\ Col(r, "page_id") = p /\ Col(r, "page_column_id") = d
            /\ r.val.page_id = p /\ r.val.page_column_id = d /\ DOMAIN r.val = {"page_id", "page_column_id"}
  BY DEF CellRow, Entry, Col

\* Such a row is sound where a column of the parent crosses the page.
LEMMA CellRowSound ==
  ASSUME NEW R, NEW n, NEW p, NEW d, Number(p, n), Number(d, n), There(R, "pages", p), There(R, "page_columns", d),
         Crosses(R, p, d)
  PROVE  Sound(R, CellRow(p, d), n)
  BY CellSound DEF CellRow, Crosses

\* Which cells the unique index has against one.
LEMMA CellClash ==
  ASSUME NEW R, NEW p, NEW d, p # 0, d # 0
  PROVE  /\ \A old \in Clashing(R, CellRow(p, d)) :
              /\ old \in R /\ old.table = "page_columns_values"
              /\ Col(old, "page_id") = p /\ Col(old, "page_column_id") = d
         /\ \A old \in R : /\ old.table = "page_columns_values"
                           /\ Col(old, "page_id") = p /\ Col(old, "page_column_id") = d
              => old \in Clashing(R, CellRow(p, d))
  <1> DEFINE row == CellRow(p, d)
             C == {"page_id", "page_column_id"}
  <1>1. row.table = "page_columns_values" /\ Col(row, "page_id") = p /\ Col(row, "page_column_id") = d
    BY CellRowIs
  <1>2. Schema[row.table].unique = {Unique(C)}
    <2>1. PageColumnsValues.unique = {Unique(C)}
      BY DEF PageColumnsValues, Table
    <2> QED BY <1>1, <2>1, SchemaIs
  <1>3. \A c \in C : Col(row, c) # Null
    BY <1>1 DEF Null
  <1>4. "page_id" \in C /\ "page_column_id" \in C /\ \A c \in C : c = "page_id" \/ c = "page_column_id"
    OBVIOUS
  <1> HIDE DEF row, C
  <1>5. /\ \A old \in Clashing(R, row) :
              old \in R /\ old.table = row.table /\ \A c \in C : Col(old, c) = Col(row, c)
        /\ \A old \in R : old.table = row.table /\ (\A c \in C : Col(old, c) = Col(row, c) /\ Col(row, c) # Null)
              => old \in Clashing(R, row)
    BY <1>2, ClashOn
  <1>6. \A old \in Clashing(R, row) :
              /\ old \in R /\ old.table = "page_columns_values"
              /\ Col(old, "page_id") = p /\ Col(old, "page_column_id") = d
    BY <1>1, <1>4, <1>5
  <1>7. ASSUME NEW old \in R, old.table = "page_columns_values", Col(old, "page_id") = p,
               Col(old, "page_column_id") = d
        PROVE  old \in Clashing(R, row)
    <2>1. \A c \in C : Col(old, c) = Col(row, c) /\ Col(row, c) # Null
      BY <1>1, <1>3, <1>4, <1>7
    <2> QED BY <1>1, <1>5, <1>7, <2>1
  <1> QED BY <1>6, <1>7 DEF row

\* The columns of a cell that is there.
LEMMA CellSays ==
  ASSUME NEW R, NEW n, NEW r, r.table = "page_columns_values", Sound(R, r, n)
  PROVE  /\ "page_id" \in DOMAIN r.val /\ "page_column_id" \in DOMAIN r.val
         /\ Col(r, "page_id") = r.val.page_id /\ Col(r, "page_column_id") = r.val.page_column_id
         /\ Number(r.val.page_id, n) /\ Number(r.val.page_column_id, n)
         /\ r.id = CellId(r.val.page_id, [id |-> r.val.page_column_id])
  <1>1. Filled["page_columns_values"] = {"page_id", "page_column_id"}
    BY DEF Filled
  <1>2. {"page_id", "page_column_id"} \subseteq DOMAIN r.val
    BY <1>1 DEF Sound, Typed
  <1>3. /\ Number(r.val.page_id, n) /\ Number(r.val.page_column_id, n)
        /\ r.id = CellId(r.val.page_id, [id |-> r.val.page_column_id])
    BY DEF Sound, Numbered
  <1> QED BY <1>2, <1>3 DEF Col

\* The id of a cell is new when no cell has its page and column.
LEMMA CellFresh ==
  ASSUME NEW R, NEW m \in Int, m <= Room * (MaxBatches + 1), Fit(R, m), NEW p, NEW d, Number(p, m), Number(d, m),
         Clashing(R, CellRow(p, d)) = {}
  PROVE  Fresh(R, CellRow(p, d))
  <1> SUFFICES ASSUME There(R, "page_columns_values", CellId(p, [id |-> d]))
               PROVE  FALSE
    BY CellRowIs DEF Fresh
  <1>1. PICK r \in R : r.table = "page_columns_values" /\ r.id = CellId(p, [id |-> d])
    BY DEF There, Is
  <1>2. Sound(R, r, m)
    BY DEF Fit
  <1>3. /\ Col(r, "page_id") = r.val.page_id /\ Col(r, "page_column_id") = r.val.page_column_id
        /\ Number(r.val.page_id, m) /\ Number(r.val.page_column_id, m)
        /\ r.id = CellId(r.val.page_id, [id |-> r.val.page_column_id])
    BY <1>1, <1>2, CellSays
  <1>4. p \in Int /\ d \in Int /\ p # 0 /\ d # 0 /\ r.val.page_id \in Int /\ r.val.page_column_id \in Int
    BY <1>3 DEF Number
  <1>5. p = r.val.page_id /\ d = r.val.page_column_id
    BY <1>1, <1>3, <1>4, CellIdsDiffer
  <1> QED BY <1>1, <1>3, <1>4, <1>5, CellClash

\* A cell that was there already.
LEMMA CellMerged ==
  ASSUME NEW R, NEW n, NEW p, NEW d, There(R, "pages", p), There(R, "page_columns", d),
         NEW old, old.table = "page_columns_values", Sound(R, old, n),
         Col(old, "page_id") = p, Col(old, "page_column_id") = d,
         NEW s, NEW do, NEW needs, Says(s, do, CellRow(p, d), needs)
  PROVE  Sound(R, Merged(old, s), n) /\ Heir(old, Merged(old, s))
  <1>1. Col(old, "page_id") = old.val.page_id /\ Col(old, "page_column_id") = old.val.page_column_id
    BY CellSays
  <1> DEFINE row == CellRow(p, d)
             new == Merged(old, s)
  <1>2. row.flags = {"live"} /\ row.val.page_id = p /\ row.val.page_column_id = d
        /\ DOMAIN row.val = {"page_id", "page_column_id"}
    BY DEF CellRow, Entry
  <1>8. s.row = row
    BY DEF Says
  <1> HIDE DEF row
  <1>3. \A c \in DOMAIN s.row.val : s.row.val[c] = old.val[c]
    BY <1>1, <1>2, <1>8
  <1>4. Col(new, "page_id") = p /\ Col(new, "page_column_id") = d /\ new.table = "page_columns_values"
    BY <1>2, <1>8, MergedCol, MergedIs
  <1> HIDE DEF new
  <1>5. ~Dangling(R, new)
    BY <1>4, CellsPlaced
  <1>6. old.table \notin Static /\ old.table # "page_form_publications"
    BY DEF Static, RoleTables
  <1>7. s.row.flags \subseteq Flags
    BY <1>2, <1>8 DEF Flags
  <1> QED BY <1>3, <1>5, <1>6, <1>7, MergedSound DEF new

\* The statement of a cell.
LEMMA CellGoes ==
  ASSUME NEW R, NEW n, Begun(R, n), NEW K, NEW o, Going(o, R, n + Room, K),
         NEW p, NEW d, Number(p, n + Room), Number(d, n + Room),
         NEW s, NEW do, do \in {"insert", "update"}, Says(s, do, CellRow(p, d), {}),
         ~o.aborted => There(o.rows, "pages", p) /\ There(o.rows, "page_columns", d) /\ Crosses(o.rows, p, d),
         NEW P, P = Perform(o, s)
  PROVE  /\ Going(P, R, n + Room, With(K, "page_columns_values", CellId(p, [id |-> d])))
         /\ Kept(o.rows, P.rows) /\ (~P.aborted => ~o.aborted)
         /\ ~P.aborted /\ do = "update" => There(P.rows, "page_columns_values", CellId(p, [id |-> d]))
  <1> DEFINE m == n + Room
             id == CellId(p, [id |-> d])
             row == CellRow(p, d)
  <1>1. m \in Int /\ m <= Room * (MaxBatches + 1) /\ m = n + Room
    BY Begins DEF Begun
  <1>2. s.do = do /\ s.row = row /\ s.needs = {}
    BY DEF Says
  <1>3. row.table = "page_columns_values" /\ row.id = id
    BY CellRowIs
  <1>4. Asked(o, s) => Sound(o.rows, row, m)
    BY <1>1, CellRowSound DEF Asked
  <1>5. Fit(o.rows, m)
    BY <1>1 DEF Going
  <1>6. Clashing(o.rows, row) = {} => Fresh(o.rows, row)
    BY <1>1, <1>5, CellFresh
  <1>7. p # 0 /\ d # 0
    BY DEF Number
  <1>8. \A old \in Clashing(o.rows, row) : /\ old \in o.rows /\ old.table = "page_columns_values"
                                           /\ Col(old, "page_id") = p /\ Col(old, "page_column_id") = d
    BY <1>7, CellClash
  <1>9. Asked(o, s) => \A old \in Clashing(o.rows, row) : Sound(o.rows, Merged(old, s), m) /\ Heir(old, Merged(old, s))
    <2> SUFFICES ASSUME Asked(o, s), NEW old \in Clashing(o.rows, row)
                 PROVE  Sound(o.rows, Merged(old, s), m) /\ Heir(old, Merged(old, s))
      OBVIOUS
    <2>1. Sound(o.rows, old, m)
      BY <1>5, <1>8 DEF Fit
    <2>2. There(o.rows, "pages", p) /\ There(o.rows, "page_columns", d)
      BY DEF Asked
    <2> QED BY <1>8, <2>1, <2>2, CellMerged
  <1>10. \A old \in Clashing(o.rows, row) : Merged(old, s).table = "page_columns_values" /\ Merged(old, s).id = id
    <2> SUFFICES ASSUME NEW old \in Clashing(o.rows, row)
                 PROVE  Merged(old, s).table = "page_columns_values" /\ Merged(old, s).id = id
      OBVIOUS
    <2>1. Sound(o.rows, old, m)
      BY <1>5, <1>8 DEF Fit
    <2>3. old.table = "page_columns_values" /\ Col(old, "page_id") = p /\ Col(old, "page_column_id") = d
      BY <1>8
    <2>4. /\ Col(old, "page_id") = old.val.page_id /\ Col(old, "page_column_id") = old.val.page_column_id
          /\ old.id = CellId(old.val.page_id, [id |-> old.val.page_column_id])
      BY <2>1, <2>3, CellSays
    <2>2. old.id = id
      BY <2>3, <2>4
    <2> QED BY <1>8, <2>2, MergedIs
  <1>11. Met(o.rows, s.needs)
    BY <1>2, NothingAsked
  <1> HIDE DEF m, row, id
  <1>12. (Asked(o, s) /\ Unclashed(o, s) => Sound(o.rows, s.row, m) /\ Fresh(o.rows, s.row)) /\ Going(o, R, m, K)
    BY <1>1, <1>2, <1>4, <1>6 DEF Unclashed
  <1>13. K \cup {<<s.row.table, s.row.id>>} = With(K, "page_columns_values", id)
    BY <1>2, <1>3 DEF With
  <1>14. CASE do = "update"
    <2>1. Asked(o, s) => \A old \in Clashing(o.rows, s.row) :
                             Sound(o.rows, Merged(old, s), m) /\ Heir(old, Merged(old, s))
      BY <1>2, <1>9
    <2>5. /\ Going(o, R, m, K) /\ s.do = "update"
          /\ Asked(o, s) /\ Unclashed(o, s) => Sound(o.rows, s.row, m) /\ Fresh(o.rows, s.row)
          /\ Asked(o, s) => \A old \in Clashing(o.rows, s.row) :
                             Sound(o.rows, Merged(old, s), m) /\ Heir(old, Merged(old, s))
      BY <1>2, <1>12, <1>14, <2>1
    <2>2. /\ Going(P, R, m, K \cup {<<s.row.table, s.row.id>>}) /\ Kept(o.rows, P.rows) /\ (o.aborted => P = o)
      BY <1>1, <2>5, UpdateGoes
    <2>3. ~P.aborted => row \in P.rows \/ \E old \in Clashing(o.rows, row) : Merged(old, s) \in P.rows
      BY <1>2, <1>11, <1>14, <2>2, UpdateIs
    <2>4. ~P.aborted => There(P.rows, "page_columns_values", id)
      <3> SUFFICES ASSUME ~P.aborted
                   PROVE  \E r \in P.rows : r.table = "page_columns_values" /\ r.id = id
        BY DEF There, Is
      <3> QED BY <1>2, <1>3, <1>10, <2>3
    <2> QED BY <1>1, <1>13, <2>2, <2>4 DEF id
  <1>15. CASE do = "insert"
    <2>1. Put1(s)
      BY <1>2, <1>15 DEF Put1
    <2>2. /\ Going(P, R, m, K \cup {<<s.row.table, s.row.id>>}) /\ Kept(o.rows, P.rows) /\ (o.aborted => P = o)
      BY <1>1, <1>12, <2>1, PutGoes
    <2> QED BY <1>1, <1>13, <1>15, <2>2 DEF id
  <1> QED BY <1>14, <1>15

\* The links of a cell go one after another.
LEMMA LinksGo ==
  ASSUME NEW R, NEW m \in Int, NEW K, NEW o, Going(o, R, m, K), NEW S, IsFiniteSet(S),
         \A s \in S : s.do = "delete" /\ s.row.table = "page_relation_links",
         NEW P, P = Continue(o, Ext!SetToSeq(S))
  PROVE  /\ Going(P, R, m, K) /\ Stays(o.rows, P.rows) /\ (~P.aborted => ~o.aborted)
         /\ Batch(Ext!SetToSeq(S))
  <1> DEFINE M == Ext!SetToSeq(S)
  <1>1. M \in Seq(S) /\ \A i \in 1..Len(M) : M[i] \in S
    BY EnumIs
  <1>4. P = Continue(o, M)
    OBVIOUS
  <1> HIDE DEF M
  <1>2. Len(M) \in Nat
    BY <1>1
  <1>3. ASSUME NEW i \in 1..Len(M), NEW p, Going(p, R, m, K), Stays(o.rows, p.rows)
        PROVE  Going(Perform(p, M[i]), R, m, K) /\ Stays(p.rows, Perform(p, M[i]).rows)
    <2> DEFINE s == M[i]
    <2>1. s.do = "delete" /\ s.row.table = "page_relation_links"
      BY <1>1
    <2>2. s.row.table \notin Static /\ s.row.table \in Erasable
      BY <2>1 DEF Static, RoleTables, Erasable
    <2> HIDE DEF s
    <2>3. Going(Perform(p, s), R, m, K) /\ Later(p.rows, Perform(p, s).rows)
      BY <1>3, <2>1, <2>2, DeleteGoes
    <2>4. \A t, id : t # "page_relation_links" /\ There(p.rows, t, id) => There(Perform(p, s).rows, t, id)
      BY <1>3, <2>1, <2>2, DeleteGoes
    <2> QED BY <2>3, <2>4 DEF Stays, s
  <1>5. Going(P, R, m, K) /\ Stays(o.rows, P.rows)
    BY <1>2, <1>3, <1>4, EachGoes
  <1>6. o.aborted => P = o
    BY <1>2, <1>4, AbortedStays
  <1> QED BY <1>1, <1>5, <1>6 DEF M, Batch

\* A cell, with the links of its targets.
LEMMA CellWritten ==
  ASSUME NEW R, NEW n, Begun(R, n), NEW p, NEW c, NEW d, d = c.id, There(R, "pages", p), There(R, "page_columns", d),
         Number(p, n + Room), Number(d, n + Room), Crosses(R, p, d),
         NEW S, IsFiniteSet(S), \A s \in S : s.do = "delete" /\ s.row.table = "page_relation_links",
         NEW id, Own(n, id), NEW target
  PROVE  Safe(R, <<OrUpdate(Cell(p, c))>> \o Ext!SetToSeq(S)
                 \o <<If({Has("pages", target)}, Put("page_relation_links", id,
                            [source_cell_id |-> CellId(p, c), target_page_id |-> target]))>>, n + Room)
  <1> DEFINE m == n + Room
             cell == CellId(p, [id |-> d])
             row == Entry("page_relation_links", id, [source_cell_id |-> cell, target_page_id |-> target], {"live"})
             has == {Has("pages", target)}
             s == OrUpdate(Cell(p, c))
             t == If(has, Put("page_relation_links", id, [source_cell_id |-> cell, target_page_id |-> target]))
             A == <<s>>
             M == Ext!SetToSeq(S)
             C == <<t>>
             o0 == Holding(R)
             o1 == Perform(o0, s)
             o2 == Continue(o1, M)
             o3 == Perform(o2, t)
             none == {}
             K1 == With(none, "page_columns_values", cell)
             K2 == With(K1, "page_relation_links", id)
  <1>1. CellId(p, c) = cell /\ Says(s, "update", CellRow(p, d), {})
    BY CellIs
  <1>2. Says(t, "insert", row, has)
    BY PutSaysPlain
  <1>3. Going(o0, R, n + Room, none) /\ o0.rows = R /\ Fit(R, n + Room) /\ Complete(R) /\ m \in Int /\ m = n + Room
    BY Begins
  <1>4. Batch(A) /\ Batch(C) /\ Continue(o0, A) = o1 /\ Continue(o2, C) = o3
    BY BatchIs, ContinueOne
  <1>5. /\ o1 = Perform(o0, s) /\ o2 = Continue(o1, M) /\ o3 = Perform(o2, t)
        /\ K1 = With(none, "page_columns_values", cell) /\ K2 = With(K1, "page_relation_links", id)
        /\ o0 = Holding(R) /\ cell = CellId(p, [id |-> d])
    OBVIOUS
  <1>6. Unused(K1, "page_relation_links", id) /\ \A f \in Founding : \A j : Unused(K2, f, j)
    BY UnusedWith DEF Founding
  <1>7. row.table = "page_relation_links" /\ row.id = id
    BY EntryIs
  <1>8. \A T : There(T, "page_columns_values", cell) /\ Met(T, has) => Sound(T, row, n + Room)
    <2> SUFFICES ASSUME NEW T, There(T, "page_columns_values", cell), Met(T, has)
                 PROVE  Sound(T, row, n + Room)
      OBVIOUS
    <2>1. There(T, "pages", target) /\ Number(id, n + Room)
      BY HasThere, OwnNumber
    <2> HIDE DEF cell
    <2> QED BY <2>1, LinkSound
  <1>9. A \o M \o C = <<OrUpdate(Cell(p, c))>> \o Ext!SetToSeq(S)
                 \o <<If({Has("pages", target)}, Put("page_relation_links", id,
                            [source_cell_id |-> CellId(p, c), target_page_id |-> target]))>>
    BY <1>1
  <1> HIDE DEF cell, row, has, s, t, A, C, o0, o1, o2, o3, none, K1, K2
  <1>10. /\ Going(o1, R, n + Room, K1)
         /\ ~o1.aborted => There(o1.rows, "page_columns_values", cell)
    <2>1. ~o0.aborted => There(o0.rows, "pages", p) /\ There(o0.rows, "page_columns", d) /\ Crosses(o0.rows, p, d)
      BY <1>3
    <2>2. "update" \in {"insert", "update"}
      OBVIOUS
    <2>3. /\ Going(o1, R, n + Room, With(none, "page_columns_values", CellId(p, [id |-> d])))
          /\ ~o1.aborted => There(o1.rows, "page_columns_values", CellId(p, [id |-> d]))
      BY <1>1, <1>3, <1>5, <2>1, <2>2, CellGoes
    <2> QED BY <1>5, <2>3
  <1>11. /\ Going(o2, R, n + Room, K1) /\ Batch(M)
         /\ ~o2.aborted => There(o2.rows, "page_columns_values", cell)
    <2> HIDE DEF m
    <2>1. Going(o1, R, m, K1) /\ o2 = Continue(o1, Ext!SetToSeq(S))
      BY <1>3, <1>5, <1>10
    <2>2. Going(o2, R, m, K1) /\ Stays(o1.rows, o2.rows) /\ (~o2.aborted => ~o1.aborted) /\ Batch(M)
      BY <1>3, <2>1, LinksGo
    <2> QED BY <1>3, <1>10, <2>2 DEF Stays
  <1> HIDE DEF M
  <1>12. Going(o3, R, n + Room, K2)
    <2>1. ~o2.aborted /\ Met(o2.rows, has) => Sound(o2.rows, row, n + Room)
      BY <1>8, <1>11
    <2>2. "insert" \in {"insert", "ignore"} /\ "page_relation_links" # "page_columns_values"
      OBVIOUS
    <2> QED BY <1>2, <1>5, <1>6, <1>7, <1>11, <2>1, <2>2, AddOwn
  <1>13. Continue(o0, A \o M \o C) = o3
    <2>1. Continue(o0, A \o M) = Continue(Continue(o0, A), M) /\ Batch(A \o M)
      BY <1>4, <1>11, BatchBoth
    <2>2. Continue(o0, (A \o M) \o C) = Continue(Continue(o0, A \o M), C)
      BY <1>4, <2>1, BatchBoth
    <2> QED BY <1>4, <1>5, <2>1, <2>2
  <1>14. Safe(R, A \o M \o C, n + Room)
    <2> DEFINE b == A \o M \o C
    <2>1. Going(Continue(Holding(R), b), R, n + Room, K2)
      BY <1>5, <1>12, <1>13
    <2> HIDE DEF b
    <2>2. Safe(R, b, n + Room)
      BY <1>3, <1>6, <2>1, SafeSmall
    <2> QED BY <2>2 DEF b
  <1> QED BY <1>9, <1>14

\* WriteCell keeps the invariant.
LEMMA WriteCellKeeps ==
  ASSUME RecordsInd, NEW e \in RowsOf("page_edges"), NEW c \in LiveOf("page_columns"), NEW target,
         WriteCell(e, c, target)
  PROVE  RecordsInd'
  <1> DEFINE n == Room * batches
             p == e.val.child_id
             d == c.id
             links == {l \in RowsOf("page_relation_links") : l.val.source_cell_id = CellId(p, c)}
             S == {Delete("page_relation_links", l.id) : l \in links}
             id == Id(2)
             batch == <<OrUpdate(Cell(p, c))>> \o Ext!SetToSeq(S)
                      \o <<If({Has("pages", target)}, Put("page_relation_links", id,
                                [source_cell_id |-> CellId(p, c), target_page_id |-> target]))>>
  <1>1. Execute(batch) /\ c.val.parent_id = e.val.parent_id
    BY DEF WriteCell
  <1>2. c \in RowsOf("page_columns") /\ c.table = "page_columns"
    BY DEF LiveOf, RowsOf
  <1>3. /\ Begun(stored, n) /\ Own(n, id) /\ n + Room \in Int /\ n <= n + Room /\ n \in Int
        /\ There(stored, "pages", p) /\ There(stored, "page_columns", d) /\ c \in stored
        /\ Sound(stored, c, n) /\ Number(p, n)
    <2>1. Begun(stored, n) /\ Own(n, id) /\ There(stored, "pages", p) /\ Number(p, n)
      BY IndBegun, IdIs, EdgeEnds
    <2>2. There(stored, "page_columns", d) /\ c \in stored /\ Sound(stored, c, n)
      BY <1>2, RowSound
    <2> HIDE DEF n
    <2> QED BY <2>1, <2>2, Begins
  <1>4. Number(d, n)
    BY <1>2, <1>3 DEF Sound, Numbered
  <1>5. Number(p, n + Room) /\ Number(d, n + Room)
    <2> HIDE DEF n, d, p
    <2> QED BY <1>3, <1>4 DEF Number
  <1>6. Crosses(stored, p, d)
    <2>1. e \in stored /\ e.table = "page_edges"
      BY DEF RowsOf
    <2> QED BY <1>1, <1>2, <1>3, <2>1 DEF Crosses, Is
  <1>7. IsFiniteSet(S)
    <2>1. links \subseteq stored
      BY DEF RowsOf
    <2>2. IsFiniteSet(links)
      BY <1>3, <2>1, FS_Subset DEF Begun, Fit
    <2> DEFINE f == [l \in links |-> Delete("page_relation_links", l.id)]
    <2>3. S = {f[l] : l \in links}
      OBVIOUS
    <2> HIDE DEF f, S, links
    <2> QED BY <2>2, <2>3, ImageFinite
  <1>8. \A s \in S : s.do = "delete" /\ s.row.table = "page_relation_links"
    BY DEF Delete, Statement, Entry
  <1> HIDE DEF n, p, links, S, id
  <1>9. Safe(stored, batch, n + Room)
    BY <1>3, <1>5, <1>6, <1>7, <1>8, CellWritten
  <1> HIDE DEF batch
  <1> QED BY <1>1, <1>9, SafeKeeps DEF n

\* With the keys of any cells.
Cells(K) == K \cup {<<"page_columns_values", j>> : j \in Int}

\* Which keys are unused after any cells.
LEMMA CellsAre ==
  ASSUME NEW K
  PROVE  /\ \A j \in Int : With(Cells(K), "page_columns_values", j) = Cells(K)
         /\ \A t, j : t # "page_columns_values" /\ Unused(K, t, j) => Unused(Cells(K), t, j)
         /\ K \subseteq Cells(K)
  BY DEF Cells, With, Unused

\* A column that crosses a page goes on crossing it.
LEMMA CrossesLater ==
  ASSUME NEW R, NEW S, Later(R, S), \A q \in R : Typed(q), NEW p, NEW d, Crosses(R, p, d)
  PROVE  Crosses(S, p, d)
  <1>1. PICK e \in R, g \in R : /\ e.table = "page_edges" /\ e.val.child_id = p
                                /\ Is(g, "page_columns", d) /\ g.val.parent_id = e.val.parent_id
    BY DEF Crosses
  <1>2. e \in S
    BY <1>1, LaterStatic DEF Static
  <1>3. g.table = "page_columns" /\ g.id = d
    BY <1>1 DEF Is
  <1>4. "parent_id" \in DOMAIN g.val
    <2>1. Filled["page_columns"] = {"parent_id"}
      BY DEF Filled
    <2> QED BY <1>3, <2>1 DEF Typed
  <1>5. PICK h \in S : Heir(g, h)
    BY <1>3 DEF Later, Erasable
  <1>6. h.table = "page_columns" /\ h.id = d /\ h.val.parent_id = g.val.parent_id
    BY <1>3, <1>4, <1>5 DEF Heir
  <1> QED BY <1>1, <1>2, <1>6 DEF Crosses, Is

\* Statements that write cells of p whose columns cross it.
CellsOf(S, p, o, m) ==
    \A s \in S : \E c : /\ s = Cell(p, c) /\ Number(c.id, m)
                        /\ ~o.aborted => There(o.rows, "page_columns", c.id) /\ Crosses(o.rows, p, c.id)

\* The cells of a row that was inserted just before.
LEMMA CellsGo ==
  ASSUME NEW R, NEW n, Begun(R, n), NEW K, NEW o, Going(o, R, n + Room, K), NEW p, Number(p, n + Room),
         ~o.aborted => There(o.rows, "pages", p),
         NEW S, IsFiniteSet(S), CellsOf(S, p, o, n + Room),
         NEW P, P = Continue(o, Checked(Ext!SetToSeq(S)))
  PROVE  /\ Going(P, R, n + Room, Cells(K)) /\ Later(o.rows, P.rows) /\ (~P.aborted => ~o.aborted)
         /\ Batch(Ext!SetToSeq(S))
  <1> DEFINE M == Ext!SetToSeq(S)
             B == Checked(M)
             L == Cells(K)
  <1>1. M \in Seq(S) /\ \A i \in 1..Len(M) : M[i] \in S
    BY EnumIs
  <1>2. P = Continue(o, B)
    OBVIOUS
  <1> HIDE DEF M
  <1>3. Len(B) = Len(M) /\ Len(M) \in Nat /\ \A i \in 1..Len(M) : B[i] = Must(M[i])
    <2>1. Len(Checked(M)) = Len(M) /\ \A i \in 1..Len(M) : Checked(M)[i] = Must(M[i])
      BY <1>1, CheckedIs
    <2>2. Len(M) \in Nat
      BY <1>1
    <2> QED BY <2>1, <2>2
  <1>4. Going(o, R, n + Room, L)
    BY CellsAre, GoingMore
  <1>5. Batch(M)
    BY <1>1 DEF Batch
  <1>6. n + Room \in Int
    BY Begins
  <1> HIDE DEF B, L
  <1>7. CASE o.aborted
    <2>1. P = o
      BY <1>2, <1>3, <1>7, AbortedStays
    <2> QED BY <1>4, <1>5, <1>7, <2>1, LaterSelf DEF M, L
  <1>8. CASE ~o.aborted
    <2>1. ASSUME NEW i \in 1..Len(B), NEW q, Going(q, R, n + Room, L), Stays(o.rows, q.rows)
          PROVE  Going(Perform(q, B[i]), R, n + Room, L) /\ Stays(q.rows, Perform(q, B[i]).rows)
      <3>1. B[i] = Must(M[i]) /\ M[i] \in S
        BY <1>1, <1>3
      <3>2. PICK c : M[i] = Cell(p, c) /\ Number(c.id, n + Room)
                     /\ There(o.rows, "page_columns", c.id) /\ Crosses(o.rows, p, c.id)
        BY <1>8, <3>1 DEF CellsOf
      <3> DEFINE d == c.id
                 s == Must(M[i])
                 Q == Perform(q, s)
                 cell == CellId(p, [id |-> d])
      <3>3. Says(s, "insert", CellRow(p, d), {})
        <4>1. Says(Cell(p, c), "insert", CellRow(p, d), {})
          BY CellIs
        <4>2. Must(Cell(p, c)).do = Cell(p, c).do /\ Must(Cell(p, c)).row = Cell(p, c).row
              /\ Must(Cell(p, c)).needs = Cell(p, c).needs
          BY DEF Must, Cell, Put, Statement
        <4> QED BY <3>2, <4>1, <4>2 DEF Says
      <3>4. There(q.rows, "pages", p) /\ There(q.rows, "page_columns", d) /\ Crosses(q.rows, p, d)
        <4>1. \A r \in o.rows : Typed(r)
          BY DEF Going, Fit, Sound
        <4>2. Later(o.rows, q.rows) /\ \A t, id : t # "page_relation_links" /\ There(o.rows, t, id) => There(q.rows, t, id)
          BY <2>1 DEF Stays
        <4>3. Crosses(q.rows, p, d)
          BY <3>2, <4>1, <4>2, CrossesLater
        <4> QED BY <1>8, <3>2, <4>2, <4>3
      <3>5. cell \in Int
        <4> DEFINE k == Room * (MaxBatches + 11)
        <4>1. k \in Int
          BY RecordsAssumption DEF Room, RecordsAssumption
        <4>2. p \in Int /\ d \in Int
          BY <3>2 DEF Number
        <4>3. cell = p * k + d
          BY DEF CellId
        <4> HIDE DEF k, cell, d
        <4> QED BY <4>1, <4>2, <4>3
      <3>6. B[i] = s /\ Number(d, n + Room) /\ Q = Perform(q, s) /\ cell = CellId(p, [id |-> d])
        BY <3>1, <3>2
      <3> HIDE DEF s, Q, cell, d
      <3>7. /\ Going(Q, R, n + Room, With(L, "page_columns_values", CellId(p, [id |-> d])))
            /\ Kept(q.rows, Q.rows)
        <4>1. "insert" \in {"insert", "update"}
          OBVIOUS
        <4>2. ~q.aborted => There(q.rows, "pages", p) /\ There(q.rows, "page_columns", d) /\ Crosses(q.rows, p, d)
          BY <3>4
        <4> QED BY <2>1, <3>3, <3>6, <4>1, <4>2, CellGoes
      <3>8. With(L, "page_columns_values", cell) = L
        BY <3>5, CellsAre DEF L
      <3>9. Stays(q.rows, Q.rows)
        <4>1. Later(q.rows, Q.rows)
          BY <3>7, KeptLater
        <4>2. \A t, id : There(q.rows, t, id) => There(Q.rows, t, id)
          BY <3>7, KeptThere
        <4> QED BY <4>1, <4>2 DEF Stays
      <3> QED BY <3>6, <3>7, <3>8, <3>9
    <2>2. Len(B) \in Nat
      BY <1>3
    <2>3. Going(P, R, n + Room, L) /\ Stays(o.rows, P.rows)
      BY <1>2, <1>4, <2>1, <2>2, EachGoes
    <2> QED BY <1>5, <1>8, <2>3 DEF Stays, M, L
  <1> QED BY <1>7, <1>8

\* A response: its row, its cells and the row of the ledger.
LEMMA Submitted ==
  ASSUME NEW R, NEW n, Begun(R, n), NEW p \in Int, NEW u, There(R, "users", u), NEW id, Own(n, id), p < id,
         Own(n, id + 1), NEW f \in R, f.table = "page_form_publications", f.val.page_id = p, NEW key,
         NEW S, IsFiniteSet(S),
         \A s \in S : \E c \in R : /\ s = Cell(id, c) /\ c.table = "page_columns" /\ Number(c.id, n + Room)
                                   /\ c.val.parent_id = p
  PROVE  Safe(R, Checked(ChildPage(p, u, id, {Has("page_form_publications", f.id)}, <<>>) \o Ext!SetToSeq(S)
                         \o <<Put("page_form_submissions", id,
                 [publication_id |-> f.id, response_page_id |-> id, client_request_id |-> key])>>), n + Room)
  <1>0. PICK hard \in BOOLEAN : hard
    OBVIOUS
  <1> DEFINE has == {Has("page_form_publications", f.id)}
             noranks == <<>>
             row == Entry("page_form_submissions", id,
                          [publication_id |-> f.id, response_page_id |-> id, client_request_id |-> key], {"live"})
             s == Put("page_form_submissions", id,
                      [publication_id |-> f.id, response_page_id |-> id, client_request_id |-> key])
             A == ChildPage(p, u, id, has, noranks)
             M == Ext!SetToSeq(S)
             C == <<s>>
             s1 == Hard(hard, s)
             oA == Continue(Holding(R), Form(hard, A))
             oM == Continue(oA, Checked(M))
             o3 == Perform(oM, s1)
             KA == Child(id)
             KM == Cells(KA)
             K == With(KM, "page_form_submissions", id)
             b == A \o M \o C
  <1>1. /\ Going(oA, R, n + Room, KA)
        /\ ~oA.aborted => There(oA.rows, "pages", id) /\ EdgeOf(p, id) \in oA.rows
        /\ Batch(A)
    <2>1. /\ noranks = <<>> \/ \E v : noranks = <<v>>
          /\ has = {} \/ hard
          /\ oA = Continue(Holding(R), Form(hard, ChildPage(p, u, id, has, noranks)))
      BY <1>0
    <2> HIDE DEF noranks, has, oA
    <2> QED BY <1>0, <2>1, ChildGoes
  <1>2. Says(s1, "insert", row, {})
    BY PutSays
  <1>3. Fit(R, n + Room) /\ Complete(R) /\ n + Room \in Int
    BY Begins
  <1>4. Number(id, n + Room) /\ id \in Int
    BY OwnNumber DEF Own
  <1>5. Batch(C)
    BY BatchIs
  <1>6. Continue(oM, Form(hard, C)) = o3
    BY FormOne
  <1>7. row.table = "page_form_submissions" /\ row.id = id
    BY EntryIs
  <1>8. Unused(KM, "page_form_submissions", id)
    <2>1. Unused(KA, "page_form_submissions", id)
      BY UnusedWith DEF Child
    <2> HIDE DEF KA
    <2> QED BY <2>1, CellsAre
  <1>9. \A t \in Founding : \A j : Unused(K, t, j)
    <2>1. \A t \in Founding : \A j : Unused(KA, t, j)
      BY ChildSmall
    <2>2. \A t \in Founding : t # "page_columns_values" /\ t # "page_form_submissions"
      BY DEF Founding
    <2> HIDE DEF KA
    <2>3. \A t \in Founding : \A j : Unused(KM, t, j)
      BY <2>1, <2>2, CellsAre
    <2> HIDE DEF KM
    <2> QED BY <2>2, <2>3, UnusedWith
  <1>10. b = ChildPage(p, u, id, {Has("page_form_publications", f.id)}, <<>>) \o Ext!SetToSeq(S)
             \o <<Put("page_form_submissions", id,
                 [publication_id |-> f.id, response_page_id |-> id, client_request_id |-> key])>>
    OBVIOUS
  <1>11. oM = Continue(oA, Checked(Ext!SetToSeq(S))) /\ oM = Continue(oA, Form(hard, M)) /\ o3 = Perform(oM, s1)
         /\ KM = Cells(KA) /\ K = With(KM, "page_form_submissions", id) /\ oA = Continue(Holding(R), Form(hard, A))
    BY <1>0 DEF Form
  <1> HIDE DEF has, noranks, row, s, A, C, s1, oA, oM, o3, KA, KM, K
  <1>12. /\ Going(oM, R, n + Room, KM) /\ Later(oA.rows, oM.rows) /\ (~oM.aborted => ~oA.aborted) /\ Batch(M)
    <2>1. ASSUME NEW x \in S
          PROVE  \E c : /\ x = Cell(id, c) /\ Number(c.id, n + Room)
                        /\ ~oA.aborted => There(oA.rows, "page_columns", c.id) /\ Crosses(oA.rows, id, c.id)
      <3>1. PICK c \in R : x = Cell(id, c) /\ c.table = "page_columns" /\ Number(c.id, n + Room) /\ c.val.parent_id = p
        BY <2>1
      <3>2. PICK h \in oA.rows : Heir(c, h)
        BY <1>1, <3>1 DEF Going, Later, Erasable
      <3>3. "parent_id" \in DOMAIN c.val
        <4>1. Filled["page_columns"] = {"parent_id"}
          BY DEF Filled
        <4> QED BY <1>3, <3>1, <4>1 DEF Fit, Sound, Typed
      <3>4. Is(h, "page_columns", c.id) /\ h.val.parent_id = p
        BY <3>1, <3>2, <3>3 DEF Heir, Is
      <3>5. EdgeOf(p, id).table = "page_edges" /\ EdgeOf(p, id).val.child_id = id /\ EdgeOf(p, id).val.parent_id = p
        BY DEF EdgeOf, Entry
      <3>6. ~oA.aborted => There(oA.rows, "page_columns", c.id) /\ Crosses(oA.rows, id, c.id)
        BY <1>1, <3>4, <3>5 DEF There, Crosses
      <3> QED BY <3>1, <3>6
    <2>2. ~oA.aborted => There(oA.rows, "pages", id)
      BY <1>1
    <2> HIDE DEF M
    <2>3. /\ Going(oM, R, n + Room, Cells(KA)) /\ Later(oA.rows, oM.rows) /\ (~oM.aborted => ~oA.aborted)
          /\ Batch(Ext!SetToSeq(S))
      <3>1. CellsOf(S, id, oA, n + Room)
        BY <2>1 DEF CellsOf
      <3>2. Going(oA, R, n + Room, KA) /\ Number(id, n + Room) /\ oM = Continue(oA, Checked(Ext!SetToSeq(S)))
        BY <1>1, <1>4, <1>11
      <3> QED BY <2>2, <3>1, <3>2, CellsGo
    <2> QED BY <1>11, <2>3 DEF M
  <1> HIDE DEF M
  <1>13. ~oM.aborted => Sound(oM.rows, row, n + Room)
    <2> SUFFICES ASSUME ~oM.aborted
                 PROVE  Sound(oM.rows, row, n + Room)
      OBVIOUS
    <2>1. There(oM.rows, "pages", id)
      BY <1>1, <1>12, LaterThere DEF Erasable
    <2>2. EdgeOf(p, id).table = "page_edges" /\ EdgeOf(p, id).val.child_id = id /\ EdgeOf(p, id).val.parent_id = p
      BY DEF EdgeOf, Entry
    <2>3. EdgeOf(p, id) \in oM.rows
      BY <1>1, <1>12, <2>2, LaterStatic DEF Static
    <2>4. PICK g \in oM.rows : Heir(f, g)
      BY <1>12 DEF Going, Later, Erasable
    <2>5. "page_id" \in DOMAIN f.val
      <3>1. "page_id" \in Filled["page_form_publications"]
        BY DEF Filled
      <3> QED BY <1>3, <3>1 DEF Fit, Sound, Typed
    <2>6. Is(g, "page_form_publications", f.id) /\ g.val.page_id = p
      BY <2>4, <2>5 DEF Heir, Is
    <2>7. There(oM.rows, "page_form_publications", f.id)
      BY <2>6 DEF There
    <2>8. \E e, h \in oM.rows : /\ e.table = "page_edges" /\ e.val.child_id = id
                                /\ Is(h, "page_form_publications", f.id) /\ e.val.parent_id = h.val.page_id
      BY <2>2, <2>3, <2>6
    <2> QED BY <1>4, <2>1, <2>7, <2>8, SubmissionSound DEF row
  <1>14. Going(o3, R, n + Room, K)
    <2>1. ~oM.aborted /\ Met(oM.rows, {}) => Sound(oM.rows, row, n + Room)
      BY <1>13
    <2>2. "insert" \in {"insert", "ignore"} /\ "page_form_submissions" # "page_columns_values"
      OBVIOUS
    <2> QED BY <1>2, <1>7, <1>8, <1>11, <1>12, <2>1, <2>2, AddOwn
  <1>15. Continue(Holding(R), Form(hard, b)) = o3
    <2>1. Continue(Holding(R), Form(hard, A \o M)) = Continue(Continue(Holding(R), Form(hard, A)), Form(hard, M))
          /\ Batch(A \o M)
      BY <1>1, <1>12, FormBoth
    <2>2. Continue(Holding(R), Form(hard, (A \o M) \o C)) = Continue(Continue(Holding(R), Form(hard, A \o M)), Form(hard, C))
      BY <1>5, <2>1, FormBoth
    <2> QED BY <1>6, <1>11, <2>1, <2>2
  <1> HIDE DEF b
  <1>16. Safe(R, Checked(b), n + Room)
    <2>1. Form(hard, b) = Checked(b)
      BY <1>0 DEF Form
    <2> DEFINE B == Checked(b)
    <2>2. Going(Continue(Holding(R), B), R, n + Room, K)
      BY <1>14, <1>15, <2>1
    <2> HIDE DEF B
    <2>3. Safe(R, B, n + Room)
      BY <1>3, <1>9, <2>2, SafeSmall
    <2> QED BY <2>3 DEF B
  <1> QED BY <1>10, <1>16

\* SubmitForm keeps the invariant.
LEMMA SubmitFormKeeps ==
  ASSUME RecordsInd, NEW f \in RowsOf("page_form_publications"), NEW key,
         NEW columns, columns \subseteq {c \in LiveOf("page_columns") : c.val.parent_id = f.val.page_id},
         SubmitForm(f, key, columns)
  PROVE  RecordsInd'
  <1> DEFINE n == Room * batches
             p == f.val.page_id
             u == f.val.created_by_user_id
             id == Id(1)
             S == {Cell(Id(1), c) : c \in columns}
             batch == Checked(ChildPage(p, u, id, {Has("page_form_publications", f.id)}, <<>>) \o Ext!SetToSeq(S)
                         \o <<Put("page_form_submissions", id,
                 [publication_id |-> f.id, response_page_id |-> id, client_request_id |-> key])>>)
  <1>1. Execute(batch)
    BY DEF SubmitForm
  <1>2. Begun(stored, n) /\ Own(n, Id(1)) /\ Own(n, Id(2)) /\ Id(1) = n + 1 /\ Id(2) = n + 2
    BY IndBegun, IdIs
  <1>3. f \in stored /\ f.table = "page_form_publications" /\ Sound(stored, f, n)
    BY RowSound
  <1>4. Col(f, "page_id") = p /\ Col(f, "created_by_user_id") = u
    <2>1. "page_id" \in Filled["page_form_publications"] /\ "created_by_user_id" \in Filled["page_form_publications"]
      BY DEF Filled
    <2> QED BY <2>1, RowSound
  <1>5. There(stored, "pages", p) /\ There(stored, "users", u)
    BY <1>3, <1>4, PublicationsPlaced DEF Sound
  <1>6. p \in Int /\ p < id
    <2>1. p \in IdsOf("pages")
      BY <1>5 DEF IdsOf, RowsOf, There, Is
    <2> QED BY <2>1, PageNumber
  <1>7. Own(n, id + 1)
    <2>1. n \in Int
      BY DEF RecordsInd, Room
    <2> HIDE DEF n
    <2>2. Id(2) = Id(1) + 1
      BY <1>2, <2>1
    <2> QED BY <1>2, <2>2
  <1>8. \A c \in columns : c \in stored /\ c.table = "page_columns" /\ c.val.parent_id = p /\ c \in RowsOf("page_columns")
    BY DEF LiveOf, RowsOf
  <1>9. IsFiniteSet(S)
    <2>1. IsFiniteSet(columns)
      BY <1>2, <1>8, FS_Subset DEF Begun, Fit
    <2> DEFINE g == [c \in columns |-> Cell(Id(1), c)]
    <2>2. S = {g[c] : c \in columns}
      OBVIOUS
    <2> HIDE DEF g, S
    <2> QED BY <2>1, <2>2, ImageFinite
  <1>10. \A s \in S : \E c \in stored : /\ s = Cell(id, c) /\ c.table = "page_columns" /\ Number(c.id, n + Room)
                                        /\ c.val.parent_id = p
    <2> SUFFICES ASSUME NEW c \in columns
                 PROVE  Number(c.id, n + Room)
      BY <1>8
    <2>1. Sound(stored, c, n + Room)
      BY <1>8, RowSound
    <2> QED BY <1>8, <2>1 DEF Sound, Numbered
  <1> HIDE DEF n, p, u, id, S
  <1>11. Safe(stored, batch, n + Room)
    <2>1. Own(n, id) /\ f.val.page_id = p
      BY <1>2 DEF id, p
    <2> QED BY <1>2, <1>3, <1>5, <1>6, <1>7, <1>9, <1>10, <2>1, Submitted
  <1> HIDE DEF batch
  <1> QED BY <1>1, <1>11, SafeKeeps DEF n

-----------------------------------------------------------------------------
(* The first rows.                                                          *)

\* The tables are empty at first.
LEMMA BegunEmpty == Begun({}, -100)
  <1>1. Fit({}, -100)
    BY FS_EmptySet DEF Fit
  <1>2. Complete({})
    BY DEF Complete
  <1>3. -100 + Room <= Room * (MaxBatches + 1)
    BY RecordsAssumption DEF RecordsAssumption, Room
  <1>4. -100 + Room <= 0
    BY DEF Room
  <1> QED BY <1>1, <1>2, <1>3, <1>4 DEF Begun

\* After a safe transaction the next may begin.
LEMMA BegunNext ==
  ASSUME NEW R, NEW n, Begun(R, n), NEW batch, Safe(R, batch, n + Room), NEW k \in Int, n + Room <= k, k + Room <= 0
  PROVE  Begun(Run(R, batch).rows, k)
  <1> DEFINE S == Run(R, batch).rows
  <1>1. Fit(S, n + Room) /\ Complete(S) /\ n + Room \in Int
    BY Begins DEF Safe
  <1>2. Fit(S, k)
    BY <1>1, FitGrows
  <1>3. -100 <= k /\ k + Room <= Room * (MaxBatches + 1)
    BY RecordsAssumption DEF RecordsAssumption, Begun, Room
  <1> QED BY <1>1, <1>2, <1>3 DEF Begun

\* A page of an account that is not there is not inserted, nor its row.
LEMMA ChildOfNobody ==
  ASSUME NEW R, NEW p, NEW u, ~There(R, "users", u), NEW id
  PROVE  Run(R, ChildPage(p, u, id, {}, <<>>)).rows = R
  <1> DEFINE s == If({}, Put("pages", id, [owner_id |-> u]))
             t == DefaultRole("page", id, id, {})
             w == If({Alive("pages", p)}, Put("page_edges", id, [parent_id |-> p, child_id |-> id]))
             o0 == Holding(R)
             o1 == Perform(o0, s)
             page == Entry("pages", id, [owner_id |-> u], {"live"})
             b == ChildPage(p, u, id, {}, <<>>)
             a == <<s, t, w>>
             none == <<>>
  <1>1. Says(s, "insert", page, {}) /\ o0.rows = R
    BY PutSaysPlain DEF Holding
  <1>2. b = a \o none
    BY ChildPageIs DEF Placing
  <1>3. Continue(o0, a) = Perform(Perform(o1, t), w) /\ o1 = Perform(o0, s) /\ Batch(a) /\ Batch(none)
    <2>1. a \in Seq({s, t, w})
      OBVIOUS
    <2>2. Batch(none)
      BY BatchIs
    <2>3. Continue(o0, <<s, t, w>>) = Perform(Perform(Perform(o0, s), t), w)
      BY ContinueThree
    <2> QED BY <2>1, <2>2, <2>3 DEF Batch
  <1>4. page.table = "pages" /\ Col(page, "owner_id") = u
    BY DEF Entry, Col
  <1>5. Dangling(R, page)
    BY <1>4, PagesPlaced
  <1> HIDE DEF s, t, w, o0, o1, page, a, b
  <1>6. o1.aborted
    <2>1. s.do = "insert" /\ s.row = page /\ s.needs = {}
      BY <1>1 DEF Says
    <2>2. Met(o0.rows, s.needs)
      BY <2>1, NothingAsked
    <2> QED BY <1>1, <1>3, <1>5, <2>1, <2>2, InsertEnds
  <1>7. Continue(o0, a) = o1
    BY <1>3, <1>6, AbortedStops
  <1>8. Continue(o0, b) = o1
    <2> HIDE DEF none
    <2>1. Continue(o0, a \o none) = Continue(Continue(o0, a), none)
      BY <1>3, BatchBoth
    <2>2. Continue(o1, none) = o1
      BY ContinueNone DEF none
    <2> QED BY <1>2, <1>7, <2>1, <2>2
  <1>9. Run(R, b).rows = R
    <2>1. Continue(Holding(R), b).aborted
      BY <1>6, <1>8 DEF o0
    <2>2. Run(R, b).rows = IF Continue(Holding(R), b).aborted THEN R ELSE Continue(Holding(R), b).rows
      BY DEF Run, Ended
    <2> QED BY <2>1, <2>2
  <1> QED BY <1>9 DEF b

\* The page of the first account and its column, one after the other.
LEMMA FirstChild ==
  ASSUME NEW R, NEW n, Begun(R, n), n + Room + Room <= 0, NEW p \in Int, NEW u, p < n, n # -100, NEW S,
         S = Run(R, ChildPage(p, u, n, {}, <<>>)).rows, NEW k, k = n + Room
  PROVE  Begun(S, k)
  <1>1. n \in Int
    BY DEF Begun
  <1>2. CASE There(R, "users", u)
    <2>1. PICK hard \in BOOLEAN : ~hard
      OBVIOUS
    <2> DEFINE none == {}
               noranks == <<>>
               b == ChildPage(p, u, n, none, noranks)
               P == Continue(Holding(R), b)
    <2>2. Own(n, n) /\ Own(n, n + 1)
      BY <1>1 DEF Own, Begun, Room
    <2>3. P = Continue(Holding(R), Form(hard, b)) /\ none = {} /\ (noranks = <<>> \/ \E v : noranks = <<v>>)
      BY <2>1 DEF Form
    <2>4. Going(P, R, n + Room, Child(n))
      <3>1. P = Continue(Holding(R), Form(hard, ChildPage(p, u, n, none, noranks))) /\ (none = {} \/ hard)
        BY <2>3
      <3> HIDE DEF none, noranks, P
      <3> QED BY <1>2, <2>2, <2>3, <3>1, ChildGoes
    <2>5. Fit(R, n + Room) /\ Complete(R)
      BY Begins
    <2> HIDE DEF b
    <2>6. Safe(R, b, n + Room)
      BY <2>4, <2>5, ChildSmall, SafeSmall
    <2>7. k \in Int /\ n + Room <= k /\ k + Room <= 0
      BY <1>1 DEF Room
    <2>8. Begun(Run(R, b).rows, k)
      BY <2>6, <2>7, BegunNext
    <2> QED BY <2>8 DEF b
  <1>3. CASE ~There(R, "users", u)
    <2>1. S = R
      BY <1>3, ChildOfNobody
    <2>2. Fit(R, n + Room)
      BY Begins
    <2>3. -100 <= k /\ k + Room <= Room * (MaxBatches + 1) /\ k \in Int /\ k + Room <= 0
      BY <1>1, RecordsAssumption DEF RecordsAssumption, Begun, Room
    <2> QED BY <2>1, <2>2, <2>3 DEF Begun
  <1> QED BY <1>2, <1>3

\* The column of the first database.
LEMMA FirstColumn ==
  ASSUME NEW R, NEW n, Begun(R, n), n # -100, n # 0, NEW p
  PROVE  Safe(R, Column(p, n), n + Room)
  <1> DEFINE has == {Has("pages", p)}
             row == Entry("page_columns", n, [parent_id |-> p], {"live"})
             s == If(has, Put("page_columns", n, [parent_id |-> p]))
  <1>1. Says(s, "insert", row, has)
    BY PutSaysPlain
  <1>2. Own(n, n)
    BY DEF Own, Begun, Room
  <1>3. Number(n, n + Room) /\ ~There(R, "page_columns", n)
    BY <1>2, OwnNumber
  <1>4. row.table = "page_columns" /\ row.id = n
    BY EntryIs
  <1>5. Met(R, has) => Sound(R, row, n + Room)
    BY <1>3, HasThere, ColumnSound
  <1>6. Column(p, n) = <<s>>
    BY DEF Column
  <1> HIDE DEF row, has, s
  <1>7. s.do = "insert" /\ s.row = row /\ s.needs = has
    BY <1>1 DEF Says
  <1>8. Put1(s) /\ s.row.table \notin Founding
    BY <1>4, <1>7 DEF Put1, Founding
  <1>9. Met(R, s.needs) /\ Clashing(R, s.row) = {} => Sound(R, s.row, n + Room) /\ Fresh(R, s.row)
    BY <1>3, <1>4, <1>5, <1>7 DEF Fresh
  <1>10. Safe(R, <<s>>, n + Room)
    BY <1>8, <1>9, SafeInsert
  <1> QED BY <1>6, <1>10

\* What is there at first satisfies the invariant.
LEMMA InitInd ==
  ASSUME RecordsInit
  PROVE  RecordsInd
  <1> DEFINE none == {}
             v == [id |-> -98, val |-> [user_id |-> -99]]
             w == [id |-> -88, val |-> [user_id |-> -89]]
             b1 == Registration(none, -100, 1)
             one == Run(none, b1).rows
             b2 == Registration(one, -90, 2)
             two == Run(one, b2).rows
             b3 == Activation(-80, v)
             three == Run(two, b3).rows
             b4 == Activation(-70, w)
             four == Run(three, b4).rows
             b5 == ChildPage(-79, -99, -60, {}, <<>>)
             five == Run(four, b5).rows
             b6 == Column(-79, -50)
  <1>1. stored = Run(five, b6).rows /\ batches = 1 /\ broken = FALSE
    BY DEF RecordsInit, Founded
  <1>2. /\ b1 = Registration(none, -100, 1) /\ b2 = Registration(one, -90, 2) /\ b3 = Activation(-80, v)
        /\ b4 = Activation(-70, w) /\ five = Run(four, ChildPage(-79, -99, -60, {}, <<>>)).rows
        /\ b6 = Column(-79, -50)
        /\ one = Run(none, b1).rows /\ two = Run(one, b2).rows /\ three = Run(two, b3).rows
        /\ four = Run(three, b4).rows
    OBVIOUS
  <1>3. Begun(none, -100)
    BY BegunEmpty
  <1> HIDE DEF none, v, w, b1, one, b2, two, b3, three, b4, four, b5, five, b6
  <1>4. Begun(one, -90)
    <2>1. Safe(none, b1, -100 + Room)
      BY <1>2, <1>3, Registered
    <2>2. -90 \in Int /\ -100 + Room <= -90 /\ -90 + Room <= 0
      BY DEF Room
    <2> QED BY <1>2, <1>3, <2>1, <2>2, BegunNext
  <1>5. Begun(two, -80)
    <2>1. Safe(one, b2, -90 + Room)
      BY <1>2, <1>4, Registered
    <2>2. -80 \in Int /\ -90 + Room <= -80 /\ -80 + Room <= 0
      BY DEF Room
    <2> QED BY <1>2, <1>4, <2>1, <2>2, BegunNext
  <1>6. Begun(three, -70)
    <2>1. Safe(two, b3, -80 + Room)
      BY <1>2, <1>5, Activated
    <2>2. -70 \in Int /\ -80 + Room <= -70 /\ -70 + Room <= 0
      BY DEF Room
    <2> QED BY <1>2, <1>5, <2>1, <2>2, BegunNext
  <1>7. Begun(four, -60)
    <2>1. Safe(three, b4, -70 + Room)
      BY <1>2, <1>6, Activated
    <2>2. -60 \in Int /\ -70 + Room <= -60 /\ -60 + Room <= 0
      BY DEF Room
    <2> QED BY <1>2, <1>6, <2>1, <2>2, BegunNext
  <1>8. Begun(five, -50)
    <2>1. -60 + Room + Room <= 0 /\ -79 \in Int /\ -79 < -60 /\ -60 # -100 /\ -50 = -60 + Room
      BY DEF Room
    <2> QED BY <1>2, <1>7, <2>1, FirstChild
  <1>9. Safe(five, b6, -50 + Room)
    <2>1. -50 # -100 /\ -50 # 0
      OBVIOUS
    <2> QED BY <1>2, <1>8, <2>1, FirstColumn
  <1>10. Fit(stored, -50 + Room) /\ Complete(stored)
    BY <1>1, <1>9 DEF Safe
  <1>11. Fit(stored, Room * batches)
    <2>1. -50 + Room \in Int /\ Room * batches \in Int /\ -50 + Room <= Room * batches
      BY <1>1 DEF Room
    <2> QED BY <1>10, <2>1, FitGrows
  <1>12. batches \in 1..MaxBatches
    BY <1>1, RecordsAssumption DEF RecordsAssumption
  <1> QED BY <1>1, <1>10, <1>11, <1>12 DEF RecordsInd

-----------------------------------------------------------------------------
(* Pages form a forest: a parent has a smaller id than its child, so whatever *)
(* is above a page has no larger id than the page.                           *)

Upward(p, f, d) ==
    IF d = 0 THEN {p}
    ELSE f[d - 1] \cup {e.val.parent_id : e \in {g \in RowsOf("page_edges") : g.val.child_id \in f[d - 1]}}

\* The pages above p, up to each depth.
Climb(p, f) ==
    /\ f = [d \in 0..Cardinality(RowsOf("page_edges")) |-> Upward(p, f, d)]
    /\ PagesAbove(p) = f[Cardinality(RowsOf("page_edges"))]

\* The pages above p: the recursion of PagesAbove is well defined.
LEMMA Climbed ==
  ASSUME NEW p, Cardinality(RowsOf("page_edges")) \in Nat
  PROVE  \E f : Climb(p, f)
  <1> DEFINE deep == Cardinality(RowsOf("page_edges"))
             D == 0..deep
             Fn(f) == f = [d \in D |-> f[d]]
             Upto(n, f) == \A d \in D : d <= n => f[d] = Upward(p, f, d)
             S == {n \in Nat : \E f : Fn(f) /\ Upto(n, f)}
  <1>1. 0 \in S
    <2> DEFINE f == [d \in D |-> {p}]
    <2>1. Fn(f)
      OBVIOUS
    <2>2. Upto(0, f)
      BY DEF Upward
    <2> QED BY <2>1, <2>2
  <1>2. ASSUME NEW n \in Nat, n \in S PROVE n + 1 \in S
    <2>1. PICK f : Fn(f) /\ Upto(n, f)
      BY <1>2
    <2> DEFINE g == [d \in D |-> IF d = n + 1 THEN Upward(p, f, n + 1) ELSE f[d]]
    <2>2. Fn(g)
      OBVIOUS
    <2>3. \A d \in D : g[d] = IF d = n + 1 THEN Upward(p, f, n + 1) ELSE f[d]
      OBVIOUS
    <2> HIDE DEF g
    <2>4. ASSUME NEW d \in D, d <= n + 1 PROVE Upward(p, g, d) = Upward(p, f, d)
      <3>1. CASE d = 0
        BY <3>1 DEF Upward
      <3>2. CASE d # 0
        <4>1. d - 1 \in D /\ d - 1 # n + 1
          BY <2>4, <3>2
        <4>2. g[d - 1] = f[d - 1]
          BY <2>3, <4>1
        <4> QED BY <4>2 DEF Upward
      <3> QED BY <3>1, <3>2
    <2>5. Upto(n + 1, g)
      <3> SUFFICES ASSUME NEW d \in D, d <= n + 1 PROVE g[d] = Upward(p, g, d)
        OBVIOUS
      <3>1. CASE d = n + 1
        BY <3>1, <2>3, <2>4
      <3>2. CASE d # n + 1
        <4>1. d <= n
          BY <3>2
        <4> QED BY <4>1, <3>2, <2>1, <2>3, <2>4
      <3> QED BY <3>1, <3>2
    <2> QED BY <2>2, <2>5
  <1>3. deep \in S
    <2> HIDE DEF S
    <2> QED BY <1>1, <1>2, EveryNat
  <1>4. PICK f : Fn(f) /\ Upto(deep, f)
    BY <1>3
  <1> DEFINE Eq(g) == g = [d \in D |-> Upward(p, g, d)]
  <1>5. Eq(f)
    <2>1. \A d \in D : f[d] = Upward(p, f, d)
      BY <1>4
    <2> HIDE DEF D
    <2> QED BY <1>4, <2>1
  <1>6. PagesAbove(p) = (CHOOSE g : Eq(g))[deep]
    BY DEF PagesAbove, Upward
  <1> HIDE DEF Eq
  <1>7. Eq(CHOOSE g : Eq(g))
    BY <1>5
  <1> QED BY <1>6, <1>7 DEF Eq, Climb

\* No page above p has a larger id.
LEMMA Higher ==
  ASSUME NEW p \in Int, Cardinality(RowsOf("page_edges")) \in Nat,
         \A e \in RowsOf("page_edges") :
            e.val.parent_id \in Int /\ e.val.child_id \in Int /\ e.val.parent_id < e.val.child_id
  PROVE  \A x \in PagesAbove(p) : x \in Int /\ x <= p
  <1> DEFINE deep == Cardinality(RowsOf("page_edges"))
  <1>1. PICK f : Climb(p, f)
    BY Climbed
  <1>2. \A d \in 0..deep : f[d] = Upward(p, f, d)
    BY <1>1 DEF Climb
  <1>3. PagesAbove(p) = f[deep]
    BY <1>1 DEF Climb
  <1> DEFINE S == {n \in Nat : n <= deep => \A x \in f[n] : x \in Int /\ x <= p}
  <1> HIDE DEF deep
  <1>4. deep \in Nat
    BY DEF deep
  <1>5. 0 \in S
    <2>1. 0 \in 0..deep
      BY <1>4
    <2>2. f[0] = Upward(p, f, 0)
      BY <1>2, <2>1
    <2>3. f[0] = {p}
      BY <2>2 DEF Upward
    <2> QED BY <2>3
  <1>6. ASSUME NEW n \in Nat, n \in S PROVE n + 1 \in S
    <2> SUFFICES ASSUME n + 1 <= deep, NEW x \in f[n + 1] PROVE x \in Int /\ x <= p
      OBVIOUS
    <2>1. \A y \in f[n] : y \in Int /\ y <= p
      BY <1>4, <1>6
    <2>2. n + 1 \in 0..deep /\ n + 1 # 0 /\ (n + 1) - 1 = n
      BY <1>4
    <2>3. f[n + 1] = f[n] \cup {e.val.parent_id : e \in {g \in RowsOf("page_edges") : g.val.child_id \in f[n]}}
      BY <1>2, <2>2 DEF Upward
    <2>4. CASE x \in f[n]
      BY <2>1, <2>4
    <2>5. CASE x \notin f[n]
      <3>1. PICK e \in RowsOf("page_edges") : e.val.child_id \in f[n] /\ x = e.val.parent_id
        BY <2>3, <2>5
      <3>2. e.val.child_id <= p
        BY <2>1, <3>1
      <3> QED BY <3>1, <3>2
    <2> QED BY <2>4, <2>5
  <1>7. deep \in S
    <2> HIDE DEF S
    <2> QED BY <1>4, <1>5, <1>6, EveryNat
  <1> QED BY <1>3, <1>4, <1>7

\* No page is above itself.
LEMMA Forest ==
  ASSUME RecordsInd
  PROVE  PagesFormAForest
  <1>1. Cardinality(RowsOf("page_edges")) \in Nat
    <2>1. IsFiniteSet(stored) /\ RowsOf("page_edges") \subseteq stored
      BY DEF RecordsInd, Fit, RowsOf
    <2> QED BY <2>1, FS_Subset, FS_CardinalityType
  <1>2. \A e \in RowsOf("page_edges") :
           e.val.parent_id \in Int /\ e.val.child_id \in Int /\ e.val.parent_id < e.val.child_id
    BY DEF RecordsInd, Fit, Sound, Numbered, RowsOf
  <1>3. ASSUME NEW e \in RowsOf("page_edges") PROVE e.val.child_id \notin PagesAbove(e.val.parent_id)
    <2>1. \A x \in PagesAbove(e.val.parent_id) : x \in Int /\ x <= e.val.parent_id
      BY <1>1, <1>2, Higher
    <2> QED BY <1>2, <2>1
  <1> QED BY <1>3 DEF PagesFormAForest

-----------------------------------------------------------------------------
(* The invariant of the rows, and the theorem.                              *)

\* A row that is there is sound.
LEMMA IndSound ==
  ASSUME RecordsInd, NEW t, NEW r \in RowsOf(t)
  PROVE  r \in stored /\ r.table = t /\ Typed(r) /\ Whole(stored, r)
  BY DEF RecordsInd, Fit, Sound, RowsOf

\* An organization or a workspace that is there has a default role.
LEMMA IndDefault ==
  ASSUME RecordsInd, NEW s \in {"organization", "workspace"}, NEW x \in IdsOf(ScopeTable[s])
  PROVE  \E r \in LiveOf(RoleTable[s]) : r.val[ScopeColumn[s]] = x /\ "default" \in r.flags
  <1>1. GivesDefault(stored, s, x)
    BY DEF RecordsInd, Complete, IdsOf, RowsOf, ScopeTable
  <1>2. PICK q \in stored : q.table = RoleTable[s] /\ q.val[ScopeColumn[s]] = x /\ "default" \in q.flags
    BY <1>1 DEF GivesDefault
  <1>3. "live" \in q.flags
    BY <1>2 DEF RecordsInd, Fit, Sound, Typed, RoleTable, RoleTables
  <1> QED BY <1>2, <1>3 DEF LiveOf, RowsOf

\* The invariant implies the types.
LEMMA IndType ==
  ASSUME RecordsInd
  PROVE  RecordsTypeOK
  <1>1. batches \in 1..MaxBatches /\ broken \in BOOLEAN
    BY DEF RecordsInd
  <1>2. \A r \in stored : r.table \in DOMAIN Schema /\ r.flags \subseteq {"live", "pending", "default", "verified"}
    BY DEF RecordsInd, Fit, Sound, Typed, Flags
  <1>3. \A r, s \in stored : r.table = s.table /\ r.id = s.id => r = s
    BY DEF RecordsInd, Fit
  <1> QED BY <1>1, <1>2, <1>3 DEF RecordsTypeOK

\* The invariant implies that what is written together is found together.
LEMMA IndWhole ==
  ASSUME RecordsInd
  PROVE  RowsAreWhole
  <1>1. ASSUME NEW f \in RowsOf("page_form_submissions")
        PROVE  \E e \in EdgesTo(f.val.response_page_id), form \in RowsOf("page_form_publications") :
                  form.id = f.val.publication_id /\ e.val.parent_id = form.val.page_id
    <2>1. PICK e, g \in stored : /\ e.table = "page_edges" /\ e.val.child_id = f.val.response_page_id
                                 /\ Is(g, "page_form_publications", f.val.publication_id)
                                 /\ e.val.parent_id = g.val.page_id
      BY IndSound DEF Whole
    <2> QED BY <2>1 DEF EdgesTo, RowsOf, Is
  <1>2. ASSUME NEW m \in RowsOf("workspace_members")
        PROVE  \E p \in RowsOf("pages") : p.id = m.val.page_root_id /\ p.val.owner_id = m.val.user_id
    <2>1. PICK p \in stored : Is(p, "pages", m.val.page_root_id) /\ p.val.owner_id = m.val.user_id
      BY IndSound DEF Whole
    <2> QED BY <2>1 DEF RowsOf, Is
  <1>3. ASSUME NEW e \in RowsOf("page_edges")
        PROVE  \E r \in LiveOf("page_roles") : r.val.page_id = e.val.child_id
    <2>1. PICK q \in stored : q.table = "page_roles" /\ q.val.page_id = e.val.child_id
      BY IndSound DEF Whole
    <2>2. "live" \in q.flags
      BY <2>1 DEF RecordsInd, Fit, Sound, Typed, RoleTables
    <2> QED BY <2>1, <2>2 DEF LiveOf, RowsOf
  <1>4. ASSUME NEW n \in RowsOf("schedule_pin_requests")
        PROVE  \E d \in RowsOf("notification_deliveries") : \E m \in RowsOf("notifications") :
                  d.val.notification_id = m.id /\ m.val.dedupe_key = n.id
    <2>1. Noticed(stored, n.id)
      BY DEF RecordsInd, Complete, RowsOf
    <2> QED BY <2>1 DEF Noticed, RowsOf
  <1>5. ASSUME NEW v \in RowsOf("page_columns_values")
        PROVE  \E e \in EdgesTo(v.val.page_id), c \in RowsOf("page_columns") :
                  c.id = v.val.page_column_id /\ c.val.parent_id = e.val.parent_id
    <2>1. PICK e, c \in stored : /\ e.table = "page_edges" /\ e.val.child_id = v.val.page_id
                                 /\ Is(c, "page_columns", v.val.page_column_id) /\ c.val.parent_id = e.val.parent_id
      BY IndSound DEF Whole
    <2> QED BY <2>1 DEF EdgesTo, RowsOf, Is
  <1> QED BY <1>1, <1>2, <1>3, <1>4, <1>5, IndDefault DEF RowsAreWhole

\* The invariant implies what is checked.
LEMMA IndInv ==
  ASSUME RecordsInd
  PROVE  RecordsInv
  BY IndType, IndWhole, Forest DEF RecordsInv, NothingIsMissing, RecordsInd

\* The actions of people keep the invariant.
LEMMA OfPeopleKeeps ==
  ASSUME RecordsInd, OfPeople
  PROVE  RecordsInd'
  <1>1. CASE \E e \in Emails : Register(e)
    BY <1>1, RegisterKeeps
  <1>2. CASE Activate
    BY <1>2, ActivateKeeps
  <1>3. ASSUME NEW u \in Accounts, CreateOrganization(u) PROVE RecordsInd'
    BY <1>3, CreateOrganizationKeeps
  <1>4. ASSUME NEW u \in Accounts, NEW o \in IdsOf("organizations"), CreateWorkspace(o, u) PROVE RecordsInd'
    BY <1>4, CreateWorkspaceKeeps
  <1>5. ASSUME NEW u \in Accounts, NEW s \in ScopeKinds, NEW x \in IdsOf(ScopeTable[s]), AskToEnter(s, x, u)
        PROVE  RecordsInd'
    BY <1>5, AskToEnterKeeps
  <1>6. ASSUME NEW u \in Accounts, NEW s \in ScopeKinds, NEW role \in LiveOf(RoleTable[s]), Invite(s, role, u)
        PROVE  RecordsInd'
    BY <1>6, InviteKeeps
  <1>7. ASSUME NEW u \in Accounts, NEW s \in ScopeKinds, NEW role \in LiveOf(RoleTable[s]),
               NEW request \in LiveOf(RequestTable[s]), AdmitRequester(s, request, role, u)
        PROVE  RecordsInd'
    BY <1>7, AdmitRequesterKeeps
  <1>8. ASSUME NEW u \in Accounts, NEW i \in LiveOf("access_invites"), NEW w \in IdsOf("workspaces") \cup {Null},
               AcceptInvite(i, u, w)
        PROVE  RecordsInd'
    BY <1>8, AcceptInviteKeeps
  <1>9. ASSUME NEW s \in ScopeKinds, NEW m \in LiveOf(MemberTable[s]), Dismiss(s, m) PROVE RecordsInd'
    BY <1>9, DismissKeeps
  <1> QED BY <1>1, <1>2, <1>3, <1>4, <1>5, <1>6, <1>7, <1>8, <1>9 DEF OfPeople

\* The actions of pages keep the invariant.
LEMMA OfPagesKeeps ==
  ASSUME RecordsInd, OfPages
  PROVE  RecordsInd'
  <1>1. ASSUME NEW u \in Accounts, CreatePage(u) PROVE RecordsInd'
    BY <1>1, CreatePageKeeps
  <1>2. ASSUME NEW u \in Accounts, NEW p \in IdsOf("pages"), AddFavorite(u, p) PROVE RecordsInd'
    BY <1>2, AddFavoriteKeeps
  <1>3. ASSUME NEW u \in Accounts, NEW p \in IdsOf("pages"),
               NEW ranks \in {<<>>} \cup {<<view>> : view \in Views}, CreateChild(p, u, ranks)
        PROVE  RecordsInd'
    BY <1>3, CreateChildKeeps
  <1>4. ASSUME NEW u \in Accounts, NEW p \in IdsOf("pages"), NEW view \in Views, PublishForm(p, view, u)
        PROVE  RecordsInd'
    BY <1>4, PublishFormKeeps
  <1>5. ASSUME NEW p \in IdsOf("pages"), DeletePage(p) \/ CreateColumn(p) \/ SaveDocument(p) PROVE RecordsInd'
    BY <1>5, DeletePageKeeps, CreateColumnKeeps, SaveDocumentKeeps
  <1>6. ASSUME NEW c \in LiveOf("page_columns"), DeleteColumn(c.id) PROVE RecordsInd'
    BY <1>6, DeleteColumnKeeps
  <1>7. ASSUME NEW c \in LiveOf("page_columns"), NEW e \in RowsOf("page_edges"),
               NEW target \in {Null} \cup IdsOf("pages"), WriteCell(e, c, target)
        PROVE  RecordsInd'
    BY <1>7, WriteCellKeeps
  <1>8. ASSUME NEW v \in RowsOf("page_columns_values"), ClearCell(v) PROVE RecordsInd'
    BY <1>8, ClearCellKeeps
  <1>9. ASSUME NEW e \in RowsOf("page_edges"), NEW view \in Views, RankRow(e, view) PROVE RecordsInd'
    BY <1>9, RankRowKeeps
  <1>10. ASSUME NEW f \in RowsOf("page_favorites"), RemoveFavorite(f) PROVE RecordsInd'
    BY <1>10, RemoveFavoriteKeeps
  <1>11. ASSUME NEW f \in RowsOf("page_form_publications"), NEW key \in RequestIds,
                NEW columns \in {{}, {c \in LiveOf("page_columns") : c.val.parent_id = f.val.page_id}},
                SubmitForm(f, key, columns)
         PROVE  RecordsInd'
    <2>1. columns \subseteq {c \in LiveOf("page_columns") : c.val.parent_id = f.val.page_id}
      BY <1>11
    <2> QED BY <1>11, <2>1, SubmitFormKeeps
  <1> QED BY <1>1, <1>2, <1>3, <1>4, <1>5, <1>6, <1>7, <1>8, <1>9, <1>10, <1>11 DEF OfPages

\* The actions of the agenda keep the invariant.
LEMMA OfAgendaKeeps ==
  ASSUME RecordsInd, OfAgenda
  PROVE  RecordsInd'
  <1>1. ASSUME NEW w \in IdsOf("workspaces"), NEW u \in Accounts, NEW key \in RequestIds, Enqueue(w, u, key)
        PROVE  RecordsInd'
    BY <1>1, EnqueueKeeps
  <1>2. ASSUME NEW w \in IdsOf("workspaces"), NEW u \in Accounts, NEW e \in RowsOf("page_edges"),
               NEW c \in RowsOf("page_columns"), Pin(w, u, e, c)
        PROVE  RecordsInd'
    BY <1>2, PinKeeps
  <1>3. ASSUME NEW w \in IdsOf("workspaces"), NEW u \in Accounts, NEW e \in RowsOf("page_edges"),
               NEW c \in RowsOf("page_columns"), NEW v \in Accounts, RequestPin(w, u, v, e, c)
        PROVE  RecordsInd'
    BY <1>3, RequestPinKeeps
  <1>4. ASSUME NEW pin \in RowsOf("pinned_schedule_pages"), Unpin(pin) PROVE RecordsInd'
    BY <1>4, UnpinKeeps
  <1>5. ASSUME NEW request \in RowsOf("schedule_pin_requests"), DecidePin(request) PROVE RecordsInd'
    BY <1>5, DecidePinKeeps
  <1> QED BY <1>1, <1>2, <1>3, <1>4, <1>5 DEF OfAgenda

\* Every step keeps the invariant.
LEMMA NextInd ==
  ASSUME RecordsInd, [RecordsNext]_recordsVars
  PROVE  RecordsInd'
  <1>1. CASE RecordsNext
    BY <1>1, OfPeopleKeeps, OfPagesKeeps, OfAgendaKeeps DEF RecordsNext
  <1>2. CASE UNCHANGED recordsVars
    BY <1>2 DEF RecordsInd, recordsVars, Complete, GivesDefault, Noticed
  <1> QED BY <1>1, <1>2

\* Every reachable state of the tables is whole, whatever the emails, views and
\* keys are and however many transactions there were: no foreign key refuses
\* one of the transactions of the code, what a flow writes together is found
\* together, and the pages form a forest.
THEOREM RecordsSafe == RecordsSpec => []RecordsInv
  <1>1. RecordsInit => RecordsInd
    BY InitInd
  <1>2. RecordsInd /\ [RecordsNext]_recordsVars => RecordsInd'
    BY NextInd
  <1>3. RecordsInd => RecordsInv
    BY IndInv
  <1> QED BY <1>1, <1>2, <1>3, PTL DEF RecordsSpec
====
