-------------------------------- MODULE Tables --------------------------------
(***************************************************************************)
(* The tables of the application (db/rqlite.generated.ts): what the rows   *)
(* of each refer to and whether they may do without, what has to be unique *)
(* among them and when, and whether a row is deleted or only marked        *)
(* deleted_at.  Types, defaults, plain indexes and CHECKs of one column    *)
(* are left out.                                                           *)
(***************************************************************************)

\* column refers to a row of table; with a scope, to one of the same scope.
\* A Ref is NOT NULL, a Maybe may be NULL; the rows that Cascading refer to a
\* deleted row are deleted with it.
Ref(column, table) ==
    [column |-> column, table |-> table, scope |-> "", required |-> TRUE, cascade |-> FALSE]
Maybe(column, table)       == [Ref(column, table) EXCEPT !.required = FALSE]
Role(column, table, scope) == [Maybe(column, table) EXCEPT !.scope = scope]
Cascading(column, table)   == [Ref(column, table) EXCEPT !.cascade = TRUE]

\* No two rows with these flags have the same values in these columns.
Unique(columns)       == [columns |-> columns, flags |-> {}]
UniqueWhile(columns, flags) == [columns |-> columns, flags |-> flags]
LiveUnique(columns)   == UniqueWhile(columns, {"live"})

\* Soft: with deleted_at.
Table(refers, unique) == [refers |-> refers, unique |-> unique, soft |-> FALSE]
Soft(refers, unique)  == [Table(refers, unique) EXCEPT !.soft = TRUE]

-----------------------------------------------------------------------------
(* People and what they belong to.                                          *)

UsersTable == Table({}, {Unique({"email"})})

AccountVerifications ==
    Soft({Maybe("invite_id", "access_invites"), Ref("user_id", "users")},
          {Unique({"token_hash"}), UniqueWhile({"user_id"}, {"live", "pending"})})

Organizations == Table({Maybe("owner_id", "users")}, {})
Workspaces    == Table({Maybe("created_by_user_id", "users"), Maybe("organization_id", "organizations")}, {})

\* At most one default role of a scope, and one for each system_key.
RolesOf(scope, table) ==
    Soft({Ref(scope, table)},
          {UniqueWhile({scope}, {"live", "default"}), LiveUnique({scope, "system_key"})})

OrganizationRoles == RolesOf("organization_id", "organizations")
WorkspaceRoles    == RolesOf("workspace_id", "workspaces")
PageRoles         == RolesOf("page_id", "pages")

MembersOf(scope, table, role, roles) ==
    Soft({Ref(scope, table), Ref("user_id", "users"), Role(role, roles, scope)},
          {LiveUnique({scope, "user_id"})})

OrganizationMembers ==
    MembersOf("organization_id", "organizations", "organization_member_role_id", "organization_roles")

PageCollaborators == MembersOf("page_id", "pages", "page_member_role_id", "page_roles")

\* A root belongs to one membership, a removed one included.
WorkspaceMembers ==
    LET t == MembersOf("workspace_id", "workspaces", "workspace_member_role_id", "workspace_roles")
    IN Soft(t.refers \cup {Ref("page_root_id", "pages")}, t.unique \cup {Unique({"page_root_id"})})

RequestsOf(scope, table, roles) ==
    Soft({Ref(scope, table), Ref("requester_id", "users"), Maybe("decided_by", "users"),
           Maybe("accepted_by", "users"), Role("role_id", roles, scope)},
          {UniqueWhile({scope, "requester_id"}, {"live", "pending"})})

OrganizationPendingRequests == RequestsOf("organization_id", "organizations", "organization_roles")
WorkspacePendingRequests    == RequestsOf("workspace_id", "workspaces", "workspace_roles")
PagePendingRequests         == RequestsOf("page_id", "pages", "page_roles")

\* The scope and the role of an invite are of three tables, and no reference.
AccessInvitesTable == Soft({Ref("author_id", "users")}, {Unique({"token_hash"})})

AccessInviteAcceptances ==
    Table({Ref("user_id", "users"), Ref("invite_id", "access_invites")},
          {Unique({"invite_id", "user_id"})})

-----------------------------------------------------------------------------
(* Pages and what they hold.                                                *)

PagesTable == Soft({Ref("owner_id", "users")}, {})

\* A page has one parent.
PageEdges == Table({Ref("parent_id", "pages"), Ref("child_id", "pages")}, {Unique({"child_id"})})

PageColumns == Soft({Maybe("parent_id", "pages")}, {})

PageColumnsValues ==
    Table({Maybe("page_id", "pages"), Maybe("page_column_id", "page_columns")},
          {Unique({"page_id", "page_column_id"})})

PageRelationLinks ==
    Table({Cascading("source_cell_id", "page_columns_values"), Cascading("target_page_id", "pages")},
          {Unique({"source_cell_id", "target_page_id"})})

PageViewRowOrder == Table({Cascading("edge_id", "page_edges")}, {Unique({"edge_id", "view_id"})})

PageBlocks == Table({Ref("page_id", "pages")}, {Unique({"page_id"})})

PageFavorites ==
    Table({Cascading("user_id", "users"), Cascading("page_id", "pages")}, {Unique({"user_id", "page_id"})})

PageFormPublications ==
    Table({Ref("page_id", "pages"), Ref("created_by_user_id", "users")},
          {Unique({"page_id", "view_id"}), Unique({"submit_token_hash"}), Unique({"review_token_hash"})})

PageFormSubmissions ==
    Table({Ref("publication_id", "page_form_publications"), Ref("response_page_id", "pages")},
          {Unique({"publication_id", "client_request_id"}), Unique({"response_page_id"})})

-----------------------------------------------------------------------------
(* The agenda and its notices.                                              *)

PinnedSchedulePages ==
    Table({Ref("workspace_id", "workspaces"), Ref("page_id", "pages"), Ref("pinned_by_user_id", "users"),
           Ref("date_column_id", "page_columns"), Maybe("color_column_id", "page_columns")},
          {Unique({"workspace_id", "pinned_by_user_id", "page_id"})})

SchedulePinRequests ==
    Table({Ref("workspace_id", "workspaces"), Ref("page_id", "pages"),
           Ref("requested_by_user_id", "users"), Ref("recipient_user_id", "users"),
           Ref("date_column_id", "page_columns"), Maybe("color_column_id", "page_columns")},
          {UniqueWhile({"workspace_id", "recipient_user_id", "page_id"}, {"pending"})})

Notifications ==
    Table({Ref("workspace_id", "workspaces"), Maybe("recipient_user_id", "users"),
           Maybe("actor_user_id", "users")}, {Unique({"dedupe_key"})})

NotificationDeliveries ==
    Table({Ref("notification_id", "notifications")}, {Unique({"notification_id", "channel"})})

Schema ==
    [users |-> UsersTable, account_verifications |-> AccountVerifications, organizations |-> Organizations,
     workspaces |-> Workspaces, organization_roles |-> OrganizationRoles,
     workspace_roles |-> WorkspaceRoles, page_roles |-> PageRoles,
     organization_members |-> OrganizationMembers, page_collaborators |-> PageCollaborators,
     workspace_members |-> WorkspaceMembers,
     organization_pending_requests |-> OrganizationPendingRequests,
     workspace_pending_requests |-> WorkspacePendingRequests,
     page_pending_requests |-> PagePendingRequests, access_invites |-> AccessInvitesTable,
     access_invite_acceptances |-> AccessInviteAcceptances, pages |-> PagesTable,
     page_edges |-> PageEdges, page_columns |-> PageColumns,
     page_columns_values |-> PageColumnsValues, page_relation_links |-> PageRelationLinks,
     page_view_row_order |-> PageViewRowOrder, page_blocks |-> PageBlocks,
     page_favorites |-> PageFavorites, page_form_publications |-> PageFormPublications,
     page_form_submissions |-> PageFormSubmissions, pinned_schedule_pages |-> PinnedSchedulePages,
     schedule_pin_requests |-> SchedulePinRequests, notifications |-> Notifications,
     notification_deliveries |-> NotificationDeliveries]
==============================================================================
